------------------------------ MODULE FleetStore ------------------------------
(***************************************************************************)
(* The daemon's durable fleet state (crates/sbgh-postgres/src/stores/      *)
(* fleet.rs and fleet/*.rs): worker registry, worker sessions, attempts,   *)
(* jobs, submissions, cleanup obligations and the scheduler and protocol   *)
(* policies.  One action per store transaction that writes: it locks the   *)
(* rows it depends on and commits or rolls back as a whole, so a refused   *)
(* or rolled-back call is a stuttering step.  The exception is the         *)
(* cancellation of one job, which may find no attempt row to lock: see     *)
(* CancelLooksUp.                                                          *)
(*                                                                         *)
(* Requests come from an unreliable network: any session may repeat, delay *)
(* or reorder its calls, so no action assumes what a worker did before.    *)
(* Deadlines are booleans ("expires_at > NOW()") that the passing of time  *)
(* turns false: see AttemptDeadline and SessionDeadline.                   *)
(*                                                                         *)
(* The reliable-event ledger and the artifacts of an attempt, which        *)
(* accept_terminal also checks, belong to AttemptLedger.                   *)
(***************************************************************************)
EXTENDS Naturals, FiniteSets

CONSTANTS
    Workers, Sessions, Submissions, Jobs, Attempts,   \* row identities
    None,              \* SQL NULL
    WorkerOf,          \* session -> worker (worker_session.worker_id)
    SubmissionOf,      \* job -> submission (job.task_submission_id)
    Submitted,         \* submissions that exist initially
    Prepared,          \* jobs whose payload is already frozen initially
    Capabilities,      \* worker_capability
    Benchmark,         \* the capability whose runs are compared
    Profiles,          \* measurement profiles
    Advertised,        \* session -> capabilities it advertises and speaks
    Required,          \* job -> required_capability
    Revision,          \* session -> revision of its protocol contract
    Floors,            \* protocol floors an operator may set
    Resident,          \* sessions whose contract has ShutdownAfterIdle
    Policies,          \* registry policies an operator may set
    Commands,          \* operator commands this instance issues
    MaxGeneration      \* bound on pause/resume changes

ASSUME StoreAssumption ==
    /\ None \notin Workers \cup Sessions \cup Jobs \cup Attempts \cup Profiles
    /\ WorkerOf \in [Sessions -> Workers]
    /\ SubmissionOf \in [Jobs -> Submissions]
    /\ Submitted \subseteq Submissions
    /\ Prepared \subseteq Jobs
    /\ Benchmark \in Capabilities
    /\ Advertised \in [Sessions -> SUBSET Capabilities]
    /\ Required \in [Jobs -> Capabilities]
    /\ Floors \subseteq Nat
    /\ Revision \in [Sessions -> Nat]
    /\ Resident \subseteq Sessions
    /\ Policies \subseteq
         [enabled : BOOLEAN, caps : SUBSET Capabilities, profile : Profiles]
    /\ MaxGeneration \in Nat

VARIABLES
    registry,     \* worker_registry rows
    newest,       \* the worker's most recently started session
    session,      \* worker_session rows; fresh: expires_at > NOW()
    attempt,      \* worker_attempt rows; live: offer/lease expiry > NOW()
    job,          \* job rows; claim: the attempt whose claim_token it holds
    submission,   \* task_submission rows
    obligation,   \* worker_cleanup_obligation rows, keyed by attempt
    scheduler,    \* scheduler_policy
    floor,        \* fleet_protocol_policy.minimum_revision
    accepting,    \* accept calls past their offered_assignment lookup
    cancelling,   \* cancellations past their attempt lookup, which found none
    cancelled     \* observed: jobs whose cancellation was answered "accepted"

vars == <<registry, newest, session, attempt, job, submission, obligation,
          scheduler, floor, accepting, cancelling, cancelled>>

LiveSession    == {"registered", "idle", "offered", "running", "draining"}
EndedSession   == {"offline", "deregistered"}
PollableStatus == {"registered", "idle", "offered", "draining"}
ActiveStatus   == {"offered", "running", "cancel_requested"}
StartedStatus  == {"running", "cancel_requested"}
TerminalStatus == {"completed", "failed", "cancelled"}
LostStatus     == {"expired", "fenced"}

-----------------------------------------------------------------------------
(* What the queries ask of the rows.                                       *)

Coalesce(x, y) == IF x = None THEN y ELSE x

Active(a)  == attempt[a].status \in ActiveStatus
Started(a) == attempt[a].status \in StartedStatus
WorkerFor(a) == WorkerOf[attempt[a].session]
SubmissionFor(a) == SubmissionOf[attempt[a].job]
Pending(a) == obligation[a].status = "pending"

ActiveOf(w) == {a \in Attempts : Active(a) /\ WorkerFor(a) = w}

\* Offers nobody accepted yet, expired or not.
OffersIn(A) == {a \in A : attempt[a].status = "offered"}

\* Mutant: only the debts left by a fenced session count.
MutPendingCleanup(w) ==
    \E a \in Attempts : Pending(a) /\ WorkerFor(a) = w /\ attempt[a].status = "fenced"

\* has_pending_cleanup
PendingCleanup(w) == \E a \in Attempts : Pending(a) /\ WorkerFor(a) = w

Busy(w) == ActiveOf(w) # {} \/ PendingCleanup(w)

\* A session row that may act for its worker now.
SessionCurrent(s) == session[s].status \in LiveSession /\ session[s].fresh

\* The registry still authorizes this attempt's work.
Authorized(a) ==
    /\ registry[WorkerFor(a)].enabled
    /\ Required[attempt[a].job] \in registry[WorkerFor(a)].caps

\* Mutant: the protocol floor is not asked for at admission.
MutAdmitted(s) ==
    /\ registry[WorkerOf[s]].enabled
    /\ Advertised[s] \cap registry[WorkerOf[s]].caps # {}

\* The registry admits the session at all, under the protocol floor.
Admitted(s) ==
    /\ registry[WorkerOf[s]].enabled
    /\ Advertised[s] \cap registry[WorkerOf[s]].caps # {}
    /\ Revision[s] >= floor

-----------------------------------------------------------------------------
(* Updates shared by several transactions.                                 *)

WithStatus(A, status) ==
    [a \in Attempts |-> IF a \in A THEN [attempt[a] EXCEPT !.status = status]
                                   ELSE attempt[a]]

\* Mutant: the job of lost work is requeued at once.
MutReleaseStarted(A) ==
    [j \in Jobs |->
        IF \E a \in A : Active(a) /\ attempt[a].job = j
        THEN [job[j] EXCEPT !.status = "queued", !.claim = None]
        ELSE job[j]]

\* An unaccepted offer gives its job back.
ReleaseOffered(A) ==
    [j \in Jobs |->
        IF /\ job[j].status = "claimed"
           /\ \E a \in A : attempt[a].status = "offered" /\ attempt[a].job = j
        THEN [job[j] EXCEPT !.status = "queued", !.claim = None]
        ELSE job[j]]

\* Mutant: only work that was not asked to stop leaves a debt.
MutOweRunning(A) ==
    [a \in Attempts |->
        IF a \in A /\ attempt[a].status = "running" /\ obligation[a].status = "none"
        THEN [status |-> "pending", requeue |-> TRUE]
        ELSE obligation[a]]

\* Started work may still exist on the host: its worker owes a teardown.
OweCleanup(A) ==
    [a \in Attempts |->
        IF a \in A /\ Started(a) /\ obligation[a].status = "none"
        THEN [status |-> "pending", requeue |-> attempt[a].status = "running"]
        ELSE obligation[a]]

\* Mutant: the attempt gets the status meant for its session.
MutLoseAttempts(A, status) ==
    /\ attempt' = WithStatus(A, "offline")
    /\ job' = ReleaseOffered(A)
    /\ obligation' = OweCleanup(A)

\* The common core of the expiry sweep and of fencing a predecessor session.
LoseAttempts(A, status) ==
    /\ attempt' = WithStatus(A, status)
    /\ job' = ReleaseOffered(A)
    /\ obligation' = OweCleanup(A)

\* A withdrawn offer gives its job back when the job holds its claim token.
ReleaseClaimed(A) ==
    [j \in Jobs |->
        IF /\ job[j].status = "claimed"
           /\ \E a \in A : attempt[a].job = j /\ job[j].claim = a
        THEN [job[j] EXCEPT !.status = "queued", !.claim = None]
        ELSE job[j]]

\* Pause and cordon withdraw offers.
WithdrawOffers(A) ==
    /\ attempt' = WithStatus(A, "expired")
    /\ job' = ReleaseClaimed(A)

-----------------------------------------------------------------------------
(* Sessions.                                                               *)

\* A UUID the store has not seen: a new worker process.  It supersedes every
\* other session of its worker and fences the work they held.
RegisterSuccessor(s) ==
    LET w == WorkerOf[s]
    IN  /\ session[s].status = "none"
        /\ Admitted(s)
        /\ LoseAttempts(ActiveOf(w), "fenced")
        /\ session' = [t \in Sessions |->
             IF t = s
             THEN [status |-> IF registry[w].draining THEN "draining" ELSE "registered",
                   fresh |-> TRUE]
             ELSE IF WorkerOf[t] = w /\ session[t].status \in LiveSession
             THEN [session[t] EXCEPT !.status = "offline"]
             ELSE session[t]]
        /\ newest' = [newest EXCEPT ![w] = s]
        /\ UNCHANGED <<registry, submission, scheduler, floor, accepting, cancelling, cancelled>>

Superseded(s) ==
    \/ newest[WorkerOf[s]] # s
    \/ \E t \in Sessions \ {s} : WorkerOf[t] = WorkerOf[s] /\ SessionCurrent(t)

\* The same UUID again: a repeated registration or same-session recovery.
RegisterExisting(s) ==
    LET w == WorkerOf[s]
        recovering == session[s].status = "offline" \/ ~session[s].fresh
    IN  /\ session[s].status \notin {"none", "deregistered"}
        /\ Admitted(s)
        /\ ~Superseded(s)
        /\ recovering => ActiveOf(w) = {}
        /\ session' = [session EXCEPT ![s] =
             [status |-> IF registry[w].draining THEN "draining"
                         ELSE IF recovering THEN "idle"
                         ELSE session[s].status,
              fresh  |-> TRUE]]
        /\ UNCHANGED <<registry, newest, attempt, job, submission, obligation,
                       scheduler, floor, accepting, cancelling, cancelled>>

DeregisterSession(s) ==
    /\ session[s].status \in {"registered", "idle", "draining", "offline"}
    /\ \A a \in Attempts : Active(a) => attempt[a].session # s
    /\ ~PendingCleanup(WorkerOf[s])
    /\ session' = [session EXCEPT ![s].status = "deregistered"]
    /\ UNCHANGED <<registry, newest, attempt, job, submission, obligation,
                   scheduler, floor, accepting, cancelling, cancelled>>

-----------------------------------------------------------------------------
(* Polling.  A poll of an admitted session also renews expires_at, which   *)
(* the guard has just found in the future: fresh does not change.          *)

PollAdmitted(s) ==
    /\ session[s].status \in PollableStatus
    /\ session[s].fresh
    /\ Admitted(s)

MustDrain(s) ==
    registry[WorkerOf[s]].draining \/ registry[WorkerOf[s]].shutdown = s

\* The session may be given work; otherwise the poll answers "no work" and
\* writes nothing that this module keeps.
PollOpen(s) ==
    /\ PollAdmitted(s)
    /\ ~MustDrain(s)
    /\ ~scheduler.paused
    /\ ~PendingCleanup(WorkerOf[s])
    /\ \A a \in Attempts : ~(/\ attempt[a].session = s
                             /\ attempt[a].status = "offered"
                             /\ attempt[a].live)

PollDraining(s) ==
    /\ PollAdmitted(s)
    /\ MustDrain(s)
    /\ session' = [session EXCEPT ![s].status = "draining"]
    /\ UNCHANGED <<registry, newest, attempt, job, submission, obligation,
                   scheduler, floor, accepting, cancelling, cancelled>>

\* No candidate row, or every candidate locked by another poll (SKIP LOCKED).
PollIdle(s) ==
    /\ PollOpen(s)
    /\ session' = [session EXCEPT ![s].status = "idle"]
    /\ UNCHANGED <<registry, newest, attempt, job, submission, obligation,
                   scheduler, floor, accepting, cancelling, cancelled>>

\* Mutants of the candidate query: one WHERE condition left out of each.
MutCandidate(s, j, dropped) ==
    LET w == WorkerOf[s]
        b == submission[SubmissionOf[j]]
    IN  /\ job[j].status = "queued" /\ job[j].prepared
        /\ Required[j] \in Advertised[s] \cap registry[w].caps
        /\ b.required \in {None, w}
        /\ dropped = "assigned" \/ b.assigned \in {None, w}
        /\ Required[j] = Benchmark => b.profile \in {None, registry[w].profile}
        /\ \/ dropped = "active"
           \/ \A a \in Attempts : Active(a) => SubmissionFor(a) # SubmissionOf[j]

MutCandidateAssigned(s, j) == MutCandidate(s, j, "assigned")
MutCandidateActive(s, j) == MutCandidate(s, j, "active")

\* The WHERE clause that selects a job for the session's worker.  SKIP LOCKED
\* may pass over older rows, so any candidate may be the one taken.
Candidate(s, j) ==
    LET w == WorkerOf[s]
        b == submission[SubmissionOf[j]]
    IN  /\ job[j].status = "queued"
        /\ job[j].prepared
        /\ Required[j] \in Advertised[s] \cap registry[w].caps
        /\ b.required \in {None, w}
        /\ b.assigned \in {None, w}
        /\ Required[j] = Benchmark => b.profile \in {None, registry[w].profile}
        /\ \A a \in Attempts : Active(a) => SubmissionFor(a) # SubmissionOf[j]

\* Mutant: the fence is raised only on a submission's first placement.
MutNextFence(b) == IF b.assigned = None THEN b.fence + 1 ELSE b.fence

\* fence_generation + 1 RETURNING fence_generation
NextFence(b) == b.fence + 1

\* Place the submission, raise its fence, claim the job, insert the attempt.
PollClaim(s, j, a) ==
    LET w == WorkerOf[s]
        u == SubmissionOf[j]
        b == submission[u]
    IN  /\ PollOpen(s)
        /\ Candidate(s, j)
        /\ attempt[a].status = "none"
        /\ submission' = [submission EXCEPT ![u] =
             [b EXCEPT !.assigned = Coalesce(@, w),
                       !.profile = IF Required[j] = Benchmark
                                   THEN Coalesce(@, registry[w].profile) ELSE @,
                       !.fence = NextFence(b)]]
        /\ job' = [job EXCEPT ![j] =
             [status |-> "claimed", claim |-> a, prepared |-> TRUE]]
        /\ attempt' = [attempt EXCEPT ![a] =
             [status |-> "offered", live |-> TRUE, job |-> j, session |-> s,
              fence |-> NextFence(b), generation |-> scheduler.generation,
              profile |-> registry[w].profile]]
        /\ session' = [session EXCEPT ![s].status = "offered"]
        /\ UNCHANGED <<registry, newest, obligation, scheduler, floor,
                       accepting, cancelling, cancelled>>

-----------------------------------------------------------------------------
(* Accepting and keeping an attempt.                                       *)

\* The service looks the assignment up in one transaction ...
OfferedAssignment(a) ==
    /\ attempt[a].status = "offered"
    /\ attempt[a].live
    /\ Authorized(a)
    /\ SessionCurrent(attempt[a].session)
    /\ a \notin accepting
    /\ accepting' = accepting \cup {a}
    /\ UNCHANGED <<registry, newest, session, attempt, job, submission,
                   obligation, scheduler, floor, cancelling, cancelled>>

\* ... and accepts it in another.  The session row must not be ended: its
\* CHECK ties ended_at to the status, and accept_offer sets only the status.
AcceptOffer(a) ==
    LET s == attempt[a].session
        w == WorkerFor(a)
        j == attempt[a].job
    IN  /\ a \in accepting
        /\ attempt[a].status = "offered"
        /\ attempt[a].live
        /\ registry[w].enabled
        /\ ~MustDrain(s)
        /\ ~scheduler.paused
        /\ ~PendingCleanup(w)
        /\ attempt[a].generation = scheduler.generation
        /\ Revision[s] >= floor
        /\ job[j].status = "claimed"
        /\ job[j].claim = a
        /\ session[s].status \in LiveSession
        /\ job' = [job EXCEPT ![j].status = "running"]
        /\ attempt' = [attempt EXCEPT ![a].status = "running"]
        /\ session' = [session EXCEPT ![s].status = "running"]
        /\ accepting' = accepting \ {a}
        /\ UNCHANGED <<registry, newest, submission, obligation, scheduler,
                       floor, cancelling, cancelled>>

\* A heartbeat renews a lease that is still live, and the session with it.
HeartbeatAttempt(a) ==
    /\ Started(a)
    /\ attempt[a].live
    /\ Authorized(a)
    /\ session' = [session EXCEPT ![attempt[a].session].fresh = TRUE]
    /\ UNCHANGED <<registry, newest, attempt, job, submission, obligation,
                   scheduler, floor, accepting, cancelling, cancelled>>

\* What accept_terminal itself asks of the attempt and its job.
TerminalAcceptable(a, outcome) ==
    /\ Started(a)
    /\ Authorized(a)
    /\ attempt[a].live
    /\ attempt[a].status = "cancel_requested" => outcome = "cancelled"
    /\ job[attempt[a].job].status = "running"
    /\ job[attempt[a].job].claim = a

\* The worker's result becomes the job's, once.  The ledger and artifact checks
\* of this transaction are in AttemptLedger.  Like accept_offer it cannot touch
\* an ended session row.
AcceptTerminal(a, outcome) ==
    LET s == attempt[a].session
        j == attempt[a].job
    IN  /\ TerminalAcceptable(a, outcome)
        /\ session[s].status \in LiveSession
        /\ job' = [job EXCEPT ![j].status = outcome]
        /\ attempt' = [attempt EXCEPT ![a].status = outcome]
        /\ session' = [session EXCEPT ![s].status =
             IF registry[WorkerOf[s]].draining THEN "draining" ELSE "idle"]
        /\ UNCHANGED <<registry, newest, submission, obligation, scheduler,
                       floor, accepting, cancelling, cancelled>>

-----------------------------------------------------------------------------
(* Loss, cleanup and recovery.                                             *)

Stale(a) == Active(a) /\ ~attempt[a].live

\* The sweep takes any set of stale attempts (rows locked elsewhere are
\* skipped) and takes their sessions offline.
ExpireStaleAttempts(A) ==
    /\ A # {}
    /\ \A a \in A : Stale(a)
    /\ LoseAttempts(A, "expired")
    /\ session' = [s \in Sessions |->
         IF /\ session[s].status \in LiveSession
            /\ \E a \in A : attempt[a].session = s
         THEN [session[s] EXCEPT !.status = "offline"]
         ELSE session[s]]
    /\ UNCHANGED <<registry, newest, submission, scheduler, floor, accepting,
                   cancelling, cancelled>>

\* The owing worker, from any current session of it, acknowledges teardown.
CompleteCleanup(s, a) ==
    LET j == attempt[a].job
    IN  /\ Pending(a)
        /\ WorkerFor(a) = WorkerOf[s]
        /\ SessionCurrent(s)
        /\ obligation' = [obligation EXCEPT ![a].status = "completed"]
        /\ job' = IF job[j].status # "running" THEN job
                  ELSE IF obligation[a].requeue
                  THEN [job EXCEPT ![j].status = "queued", ![j].claim = None]
                  ELSE [job EXCEPT ![j].status = "cancelled"]
        /\ UNCHANGED <<registry, newest, session, attempt, submission,
                       scheduler, floor, accepting, cancelling, cancelled>>

DebtsOf(b) == {a \in Attempts : Pending(a) /\ SubmissionFor(a) = b}

\* An operator gives up on a benchmark submission whose worker will not come
\* back: its teardown debts are abandoned and a new generation starts with a
\* copy n of the first job, in a submission that did not exist.
RecoverSubmission(b, n, target) ==
    LET u == SubmissionOf[n]
        abandoned == DebtsOf(b)
    IN  /\ submission[b].exists
        /\ \A j \in Jobs : SubmissionOf[j] = b => Required[j] = Benchmark
        /\ \A a \in Attempts : Active(a) => SubmissionFor(a) # b
        /\ target # None => /\ registry[target].enabled
                            /\ ~registry[target].draining
                            /\ Benchmark \in registry[target].caps
        /\ ~submission[u].exists
        /\ Required[n] = Benchmark
        /\ \E first \in Jobs :
             /\ SubmissionOf[first] = b
             /\ job' = [j \in Jobs |->
                  IF j = n
                  THEN [status |-> "queued", claim |-> None, prepared |-> job[first].prepared]
                  ELSE IF /\ job[j].status = "running"
                          /\ \E a \in abandoned : attempt[a].job = j
                  THEN [job[j] EXCEPT !.status = "cancelled"]
                  ELSE job[j]]
        /\ obligation' = [a \in Attempts |->
             IF a \in abandoned THEN [obligation[a] EXCEPT !.status = "abandoned"]
                                ELSE obligation[a]]
        /\ submission' = [submission EXCEPT ![u] =
             [exists |-> TRUE, required |-> target, assigned |-> None,
              profile |-> None, fence |-> submission[b].fence + 1]]
        /\ UNCHANGED <<registry, newest, session, attempt, scheduler, floor,
                       accepting, cancelling, cancelled>>

-----------------------------------------------------------------------------
(* Cancellation.                                                           *)

\* Jobs of J whose attempt was accepted, whose teardown is owed, that nobody
\* started.
StopRequested(J) == {j \in J : \E a \in Attempts : Started(a) /\ attempt[a].job = j}
TeardownOwed(J) ==
    {j \in J : job[j].status = "running" /\ \E a \in Attempts : Pending(a) /\ attempt[a].job = j}
Unstarted(J) == {j \in J : job[j].status \in {"queued", "claimed"}}

\* The second half of cancellation::request: a teardown debt loses its requeue,
\* a job nobody started is cancelled at once.
CancelUnstarted(J) ==
    /\ obligation' = [a \in Attempts |->
         IF Pending(a) /\ attempt[a].job \in TeardownOwed(J)
         THEN [obligation[a] EXCEPT !.requeue = FALSE]
         ELSE obligation[a]]
    /\ job' = [j \in Jobs |->
         IF j \in Unstarted(J)
         THEN [job[j] EXCEPT !.status = "cancelled", !.claim = None]
         ELSE job[j]]

\* cancellation::request applied to each job of J in one transaction that holds
\* their attempts, or keeps polls and accepts out.  An accepted attempt is asked
\* to stop, an offer is fenced.
CancelJobs(J) ==
    LET rest == J \ StopRequested(J)
    IN  /\ attempt' = [a \in Attempts |->
             IF Active(a) /\ attempt[a].job \in J
             THEN [attempt[a] EXCEPT !.status =
                     IF Started(a) THEN "cancel_requested" ELSE "fenced"]
             ELSE attempt[a]]
        /\ session' = [s \in Sessions |->
             IF /\ session[s].status = "offered"
                /\ \E a \in OffersIn(Attempts) : attempt[a].session = s /\ attempt[a].job \in J
             THEN [session[s] EXCEPT !.status = "idle"]
             ELSE session[s]]
        /\ CancelUnstarted(rest)
        /\ cancelled' = cancelled \cup StopRequested(J) \cup TeardownOwed(rest) \cup Unstarted(rest)
        /\ UNCHANGED <<registry, newest, submission, scheduler, floor, accepting, cancelling>>

\* request_cancel locks neither the scheduler policy nor the worker.  When the job
\* has an active attempt, that row is locked and the transaction is one step.
RequestCancel(j) ==
    /\ job[j].status \notin {"none", "cancelled"}
    /\ \E a \in Attempts : Active(a) /\ attempt[a].job = j
    /\ CancelJobs({j})

\* When it has none there is nothing to lock, and before the statements that read
\* the debts and lock the job a poll may offer it, and an accept may start it.
CancelLooksUp(j) ==
    /\ job[j].status # "none"
    /\ \A a \in Attempts : Active(a) => attempt[a].job # j
    /\ cancelling' = cancelling \cup {j}
    /\ UNCHANGED <<registry, newest, session, attempt, job, submission, obligation,
                   scheduler, floor, accepting, cancelled>>

\* Those statements.  An offer made in between is not touched: it stays out with
\* its job cancelled.  A job started in between refuses the cancellation.
CancelDecides(j) ==
    /\ j \in cancelling
    /\ CancelUnstarted({j})
    /\ cancelling' = cancelling \ {j}
    /\ cancelled' = cancelled \cup TeardownOwed({j}) \cup Unstarted({j})
                              \cup {i \in {j} : job[i].status = "cancelled"}
    /\ UNCHANGED <<registry, newest, session, attempt, submission, scheduler,
                   floor, accepting>>

\* The transaction is rolled back, or asked for the debts before the one it finds
\* the job running with.
CancelGivesUp(j) ==
    /\ j \in cancelling
    /\ cancelling' = cancelling \ {j}
    /\ UNCHANGED <<registry, newest, session, attempt, job, submission, obligation,
                   scheduler, floor, accepting, cancelled>>

\* Abort needs the maintenance pause it names; scope is what it selects.
AbortFleet(scope) ==
    LET selected == {j \in Jobs : job[j].status \in scope}
    IN  /\ scheduler.paused
        /\ selected # {}
        /\ CancelJobs(selected)

AbortScopes == {{"running"}, {"queued", "claimed", "running"}}

-----------------------------------------------------------------------------
(* Operator policy.  A repeated request_id replays its receipt: stutter.   *)

\* Pause withdraws every unaccepted offer, expired or not, and hands its
\* session back; both directions open a new scheduler generation.
ChangeScheduler(paused) ==
    LET offers == OffersIn(Attempts)
    IN  /\ paused # scheduler.paused
        /\ scheduler.generation < MaxGeneration
        /\ scheduler' = [paused |-> paused, generation |-> scheduler.generation + 1]
        /\ IF ~paused
           THEN UNCHANGED <<session, attempt, job>>
           ELSE /\ session' = [s \in Sessions |->
                     IF /\ session[s].status = "offered"
                        /\ \E a \in offers : attempt[a].session = s
                     THEN [session[s] EXCEPT !.status =
                             IF MustDrain(s) THEN "draining" ELSE "idle"]
                     ELSE session[s]]
                /\ WithdrawOffers(offers)
        /\ UNCHANGED <<registry, newest, submission, obligation, floor,
                       accepting, cancelling, cancelled>>

LifecycleActions == {"cordon", "uncordon", "shutdown_after_idle"}

\* Cordon and shutdown withdraw the worker's offers, never accepted work.
ChangeWorkerLifecycle(w, action, target) ==
    LET draining == action = "cordon" \/ (action # "uncordon" /\ registry[w].draining)
        offers == OffersIn(ActiveOf(w))
    IN  /\ IF action = "shutdown_after_idle"
           THEN target \in Resident /\ WorkerOf[target] = w /\ SessionCurrent(target)
           ELSE target = None
        /\ registry' = [registry EXCEPT ![w] =
             [registry[w] EXCEPT !.draining = draining,
                                 !.shutdown = Coalesce(target, registry[w].shutdown)]]
        /\ IF action = "uncordon" THEN UNCHANGED <<attempt, job>>
                                  ELSE WithdrawOffers(offers)
        /\ session' = [s \in Sessions |->
             IF /\ WorkerOf[s] = w
                /\ session[s].status \in PollableStatus
                /\ session[s].fresh
             THEN [session[s] EXCEPT !.status = IF draining THEN "draining" ELSE "idle"]
             ELSE session[s]]
        /\ UNCHANGED <<newest, submission, obligation, scheduler, floor,
                       accepting, cancelling, cancelled>>

\* A change of what a worker may run needs it drained and without debts, and
\* ends its sessions.
UpdateWorker(w, policy) ==
    /\ registry[w].draining
    /\ ~Busy(w)
    /\ \/ policy.enabled # registry[w].enabled
       \/ policy.caps # registry[w].caps
       \/ policy.profile # registry[w].profile
    /\ registry' = [registry EXCEPT ![w] =
         [@ EXCEPT !.enabled = policy.enabled, !.caps = policy.caps,
                   !.profile = policy.profile]]
    /\ session' = [s \in Sessions |->
         IF WorkerOf[s] = w /\ session[s].status \in {"registered", "idle", "draining"}
         THEN [session[s] EXCEPT !.status = "offline"]
         ELSE session[s]]
    /\ UNCHANGED <<newest, attempt, job, submission, obligation, scheduler,
                   floor, accepting, cancelling, cancelled>>

\* Withdraw a worker's authority now: every deadline it relies on has passed.
EmergencyDisableWorker(w) ==
    /\ registry' = [registry EXCEPT ![w] =
         [@ EXCEPT !.enabled = FALSE, !.draining = TRUE]]
    /\ attempt' = [a \in Attempts |->
         IF a \in ActiveOf(w) THEN [attempt[a] EXCEPT !.live = FALSE] ELSE attempt[a]]
    /\ session' = [s \in Sessions |->
         IF WorkerOf[s] = w /\ session[s].status \in LiveSession
         THEN [status |-> IF session[s].status \in {"offered", "running"}
                          THEN session[s].status ELSE "draining",
               fresh  |-> FALSE]
         ELSE session[s]]
    /\ UNCHANGED <<newest, job, submission, obligation, scheduler, floor,
                   accepting, cancelling, cancelled>>

\* The floor moves only in a quiescent maintenance pause, and up only when
\* every enabled worker has a current session that meets it.
ChangeProtocolPolicy(revision) ==
    /\ revision # floor
    /\ scheduler.paused
    /\ \A a \in Attempts : ~Active(a) /\ ~Pending(a)
    /\ revision > floor =>
         \A w \in {v \in Workers : registry[v].enabled} :
            \E s \in Sessions : /\ WorkerOf[s] = w
                               /\ SessionCurrent(s)
                               /\ Revision[s] >= revision
    /\ floor' = revision
    /\ UNCHANGED <<registry, newest, session, attempt, job, submission,
                   obligation, scheduler, accepting, cancelling, cancelled>>

-----------------------------------------------------------------------------
(* Queued work, and time.                                                  *)

\* The coordinator freezes the payload of a queued job outside a pause.
PrepareExecution(j) ==
    /\ ~scheduler.paused
    /\ job[j].status = "queued"
    /\ ~job[j].prepared
    /\ job' = [job EXCEPT ![j].prepared = TRUE]
    /\ UNCHANGED <<registry, newest, session, attempt, submission, obligation,
                   scheduler, floor, accepting, cancelling, cancelled>>

\* Queued Slack jobs nobody can report on any more are failed.
FailQueuedJob(j) ==
    /\ job[j].status = "queued"
    /\ job' = [job EXCEPT ![j].status = "failed"]
    /\ UNCHANGED <<registry, newest, session, attempt, submission, obligation,
                   scheduler, floor, accepting, cancelling, cancelled>>

AttemptDeadline(a) ==
    /\ Active(a)
    /\ attempt[a].live
    /\ attempt' = [attempt EXCEPT ![a].live = FALSE]
    /\ UNCHANGED <<registry, newest, session, job, submission, obligation,
                   scheduler, floor, accepting, cancelling, cancelled>>

\* The expiry of an ended session is never read again.
SessionDeadline(s) ==
    /\ session[s].status \in LiveSession
    /\ session[s].fresh
    /\ session' = [session EXCEPT ![s].fresh = FALSE]
    /\ UNCHANGED <<registry, newest, attempt, job, submission, obligation,
                   scheduler, floor, accepting, cancelling, cancelled>>

-----------------------------------------------------------------------------
Init ==
    /\ registry \in [Workers ->
         {[enabled |-> p.enabled, caps |-> p.caps, profile |-> p.profile,
           draining |-> FALSE, shutdown |-> None] : p \in {q \in Policies : q.enabled}}]
    /\ newest = [w \in Workers |-> None]
    /\ session = [s \in Sessions |-> [status |-> "none", fresh |-> FALSE]]
    /\ attempt = [a \in Attempts |->
         [status |-> "none", live |-> FALSE, job |-> None, session |-> None,
          fence |-> 0, generation |-> 0, profile |-> None]]
    /\ job = [j \in Jobs |->
         [status |-> IF SubmissionOf[j] \in Submitted THEN "queued" ELSE "none",
          claim |-> None, prepared |-> j \in Prepared]]
    /\ submission = [b \in Submissions |->
         [exists |-> b \in Submitted, required |-> None, assigned |-> None,
          profile |-> None, fence |-> 0]]
    /\ obligation = [a \in Attempts |-> [status |-> "none", requeue |-> FALSE]]
    /\ scheduler = [paused |-> FALSE, generation |-> 0]
    /\ floor \in Floors
    /\ accepting = {}
    /\ cancelling = {}
    /\ cancelled = {}

SessionStep ==
    \E s \in Sessions :
       \/ RegisterSuccessor(s) \/ RegisterExisting(s) \/ DeregisterSession(s)
       \/ PollDraining(s) \/ PollIdle(s) \/ SessionDeadline(s)
       \/ \E j \in Jobs, a \in Attempts : PollClaim(s, j, a)
       \/ \E a \in Attempts : CompleteCleanup(s, a)

AttemptStep ==
    \/ \E a \in Attempts :
         \/ OfferedAssignment(a) \/ AcceptOffer(a) \/ HeartbeatAttempt(a)
         \/ AttemptDeadline(a)
         \/ \E outcome \in TerminalStatus : AcceptTerminal(a, outcome)
    \/ \E A \in SUBSET Attempts : ExpireStaleAttempts(A)

JobStep ==
    \/ \E j \in Jobs :
         \/ PrepareExecution(j)
         \/ "fail_queued" \in Commands /\ FailQueuedJob(j)
         \/ /\ "cancel" \in Commands
            /\ RequestCancel(j) \/ CancelLooksUp(j) \/ CancelDecides(j) \/ CancelGivesUp(j)
    \/ /\ "recover" \in Commands
       /\ \E b \in Submissions, n \in Jobs, target \in Workers \cup {None} :
            RecoverSubmission(b, n, target)

OperatorStep ==
    \/ \E paused \in BOOLEAN : ChangeScheduler(paused)
    \/ "abort" \in Commands /\ \E scope \in AbortScopes : AbortFleet(scope)
    \/ \E w \in Workers :
         \/ "disable" \in Commands /\ EmergencyDisableWorker(w)
         \/ \E policy \in Policies : UpdateWorker(w, policy)
         \/ \E action \in LifecycleActions \cap Commands,
               target \in Sessions \cup {None} : ChangeWorkerLifecycle(w, action, target)
    \/ \E revision \in Floors : ChangeProtocolPolicy(revision)

Next == SessionStep \/ AttemptStep \/ JobStep \/ OperatorStep

Spec == Init /\ [][Next]_vars

\* An offer's deadline is fixed when it is made, and the coordinator sweeps
\* every two seconds for as long as the daemon runs; a row it skips is locked
\* by a transaction that ends.  Nothing is assumed of workers or operators.
OfferTimesOut(a) == attempt[a].status = "offered" /\ AttemptDeadline(a)
Swept(a) == \E A \in SUBSET Attempts : a \in A /\ ExpireStaleAttempts(A)

-----------------------------------------------------------------------------
(* Properties.                                                             *)

SessionRow == [status : LiveSession \cup EndedSession \cup {"none"}, fresh : BOOLEAN]
AttemptRow ==
    [status : ActiveStatus \cup TerminalStatus \cup LostStatus \cup {"none"},
     live : BOOLEAN, job : Jobs \cup {None}, session : Sessions \cup {None},
     fence : Nat, generation : Nat, profile : Profiles \cup {None}]
JobRow ==
    [status : {"none", "queued", "claimed", "running"} \cup TerminalStatus,
     claim : Attempts \cup {None}, prepared : BOOLEAN]
SubmissionRow ==
    [exists : BOOLEAN, required : Workers \cup {None},
     assigned : Workers \cup {None}, profile : Profiles \cup {None}, fence : Nat]
RegistryRow ==
    [enabled : BOOLEAN, caps : SUBSET Capabilities, profile : Profiles,
     draining : BOOLEAN, shutdown : Sessions \cup {None}]
ObligationRow ==
    [status : {"none", "pending", "completed", "abandoned"}, requeue : BOOLEAN]

\* Every row has the columns and enum values of the migrations, and an attempt
\* row that exists names a job, a session and the profile it was offered with.
TypeOK ==
    /\ registry \in [Workers -> RegistryRow]
    /\ newest \in [Workers -> Sessions \cup {None}]
    /\ session \in [Sessions -> SessionRow]
    /\ attempt \in [Attempts -> AttemptRow]
    /\ \A a \in Attempts : attempt[a].status # "none" =>
         /\ attempt[a].job \in Jobs
         /\ attempt[a].session \in Sessions
         /\ attempt[a].profile \in Profiles
    /\ job \in [Jobs -> JobRow]
    /\ submission \in [Submissions -> SubmissionRow]
    /\ obligation \in [Attempts -> ObligationRow]
    /\ scheduler \in [paused : BOOLEAN, generation : Nat]
    /\ floor \in Nat
    /\ accepting \subseteq Attempts
    /\ cancelling \subseteq Jobs
    /\ cancelled \subseteq Jobs

\* "At most one current attempt per scheduling unit": no interleaving of
\* polls, sweeps, fencing and withdrawal leaves two active attempts in one
\* submission (the unique index worker_attempt_one_active_unit_idx never fires).
OneActivePerSubmission ==
    \A a, b \in Attempts :
       Active(a) /\ Active(b) /\ SubmissionFor(a) = SubmissionFor(b) => a = b

\* The offer's job was cancelled by a call that had looked before the offer was
\* made.  Nobody can accept it; it lapses or is withdrawn.
Overtaken(a) ==
    /\ attempt[a].status = "offered"
    /\ job[attempt[a].job].status = "cancelled"
    /\ job[attempt[a].job].claim = None

\* Job and attempt agree on who owns the work: an active attempt holds its
\* job's claim token and the job is in the matching status, except an offer that
\* a cancellation overtook.
ClaimAgrees ==
    \A a \in Attempts : Active(a) /\ ~Overtaken(a) =>
       /\ job[attempt[a].job].claim = a
       /\ job[attempt[a].job].status =
            IF attempt[a].status = "offered" THEN "claimed" ELSE "running"

\* No job is stranded: a claimed job has an offer that will be accepted or
\* swept, a running job has a started attempt or a pending teardown.
NoJobStranded ==
    \A j \in Jobs :
       /\ job[j].status = "claimed" =>
            \E a \in Attempts : attempt[a].status = "offered" /\ attempt[a].job = j
       /\ job[j].status = "running" =>
            \E a \in Attempts : attempt[a].job = j /\ (Started(a) \/ Pending(a))

\* "Unresolved teardown remains visible as cleanup work and blocks unsafe
\* requeue": while a worker owes the teardown of an attempt, the job stays
\* running and no other attempt of its submission exists anywhere.
TeardownBlocksReuse ==
    \A a \in Attempts : Pending(a) =>
       /\ attempt[a].status \in LostStatus
       /\ job[attempt[a].job].status = "running"
       /\ \A b \in Attempts : Active(b) => SubmissionFor(b) # SubmissionFor(a)

\* "No mutation by a stale fence": the fence of an active attempt is the newest
\* its submission has issued, and no two attempts of it ever share a fence.
FenceCurrent ==
    \A a \in Attempts : attempt[a].status # "none" =>
       /\ attempt[a].fence <= submission[SubmissionFor(a)].fence
       /\ Active(a) => attempt[a].fence = submission[SubmissionFor(a)].fence
       /\ \A b \in Attempts \ {a} :
            attempt[b].status # "none" /\ SubmissionFor(b) = SubmissionFor(a)
            => attempt[b].fence # attempt[a].fence

\* "Pre-pause offers cannot cross a pause/resume boundary": an offer that can
\* still be accepted was made in the scheduler generation in force, unpaused.
OffersOfThisGeneration ==
    \A a \in Attempts : attempt[a].status = "offered" =>
       ~scheduler.paused /\ attempt[a].generation = scheduler.generation

\* A cancellation that was answered "accepted" is final: the job is never
\* queued, claimed, completed or failed afterwards, through any loss of the
\* worker, fencing, cleanup or recovery.
CancelIsFinal ==
    \A j \in cancelled : job[j].status \in {"running", "cancelled"}

\* The unique index worker_one_live_session_idx never fires: a worker has at
\* most one session in a live status.
OneLiveSession ==
    \A s, t \in Sessions :
       /\ WorkerOf[s] = WorkerOf[t]
       /\ session[s].status \in LiveSession
       /\ session[t].status \in LiveSession
       => s = t

\* Benchmark runs of one submission are comparable: every attempt of it was
\* offered to the same worker under the same measurement profile, across
\* requeues and registry changes.
ComparableRuns ==
    \A a, b \in Attempts :
       /\ attempt[a].status # "none" /\ Required[attempt[a].job] = Benchmark
       /\ attempt[b].status # "none" /\ Required[attempt[b].job] = Benchmark
       /\ SubmissionFor(a) = SubmissionFor(b)
       => WorkerFor(a) = WorkerFor(b) /\ attempt[a].profile = attempt[b].profile

\* "Exactly one accepted terminal": a job has at most one attempt with an
\* accepted terminal, and then the job carries that attempt's outcome.
OneTerminalPerJob ==
    \A a, b \in Attempts :
       /\ attempt[a].status \in TerminalStatus =>
            job[attempt[a].job].status = attempt[a].status
       /\ /\ attempt[a].status \in TerminalStatus
          /\ attempt[b].status \in TerminalStatus
          /\ attempt[a].job = attempt[b].job
          => a = b

\* No active attempt belongs to a session below the protocol floor, although
\* the floor is changed by an operator and sessions outlive the change.
FloorHolds == \A a \in Attempts : Active(a) => Revision[attempt[a].session] >= floor

\* A settled job never changes status again.
JobSettles ==
    [][\A j \in Jobs : job[j].status \in TerminalStatus =>
          job'[j].status = job[j].status]_vars

\* A lost or finished attempt is never revived, whatever late call arrives.
AttemptNeverRevived ==
    [][\A a \in Attempts : attempt[a].status \in LostStatus \cup TerminalStatus =>
          attempt'[a].status = attempt[a].status]_vars

RequeuesTornDown ==
    \A j \in Jobs : job[j].status = "running" /\ job'[j].status = "queued" =>
       \E a \in Attempts : /\ attempt[a].job = j
                          /\ attempt[a].fence = submission[SubmissionOf[j]].fence
                          /\ Pending(a)
                          /\ obligation'[a].status = "completed"

\* "Only then requeues": started work goes back to the queue only in the step
\* that records the teardown of its last attempt.
RequeueAfterTeardown == [][RequeuesTornDown]_vars

\* What happened stays so: no late, repeated or reordered call reopens a settled
\* job, revives an attempt that was lost or has ended, or puts started work back
\* in the queue before its teardown is recorded.
HistoryKept == JobSettles /\ AttemptNeverRevived /\ RequeueAfterTeardown

\* What operators decide binds the work that is already out: offers do not
\* survive a pause, attempts of a session below the floor do not survive the
\* floor, and a worker that registers again leaves one session that counts.
PolicyHolds == OffersOfThisGeneration /\ FloorHolds /\ OneLiveSession

\* The session row that accept_terminal updates can take the new status: the
\* CHECK that ties ended_at to an ended status does not reject the terminal of
\* an attempt that accept_terminal itself finds acceptable.
TerminalRespectsSessionCheck ==
    \A a \in Attempts : TerminalAcceptable(a, "cancelled") =>
       session[attempt[a].session].status \in LiveSession

-----------------------------------------------------------------------------
(* The parts that make the properties above inductive.                     *)

\* Only the newest session of a worker is in a live status.
LiveIsNewest ==
    \A s \in Sessions : session[s].status \in LiveSession => newest[WorkerOf[s]] = s

\* A job belongs to a submission that exists, an attempt to a job that exists.
\* It sits on the worker its submission was placed on, and a benchmark attempt
\* carries the profile its submission was placed with.
PlacementAgrees ==
    /\ \A j \in Jobs : job[j].status # "none" => submission[SubmissionOf[j]].exists
    /\ \A a \in Attempts : attempt[a].status # "none" =>
         /\ job[attempt[a].job].status # "none"
         /\ submission[SubmissionFor(a)].assigned = WorkerFor(a)
         /\ Required[attempt[a].job] = Benchmark =>
              submission[SubmissionFor(a)].profile = attempt[a].profile

\* A teardown debt belongs to the newest attempt of its submission, which no
\* longer runs, and a submission has at most one.
OneDebtPerSubmission ==
    \A a \in Attempts :
       /\ obligation[a].status # "none" => attempt[a].status \in LostStatus
       /\ Pending(a) =>
            /\ attempt[a].fence = submission[SubmissionFor(a)].fence
            /\ \A b \in Attempts : Pending(b) /\ SubmissionFor(b) = SubmissionFor(a) => a = b

\* What keeps an accepted cancellation final while its job still runs.
CancelHeld ==
    \A a \in Attempts : attempt[a].status # "none" /\ attempt[a].job \in cancelled =>
       /\ Active(a) => attempt[a].status = "cancel_requested" \/ Overtaken(a)
       /\ Pending(a) => ~obligation[a].requeue

\* The rows of jobs, attempts, submissions and debts agree, after any sequence of
\* polls, accepts, heartbeats, terminals, sweeps, fencing and cancellation: one
\* attempt owns a job, its fence is the newest, no job is stranded, and a job
\* has one accepted outcome.
Consistent ==
    /\ OneActivePerSubmission
    /\ ClaimAgrees
    /\ NoJobStranded
    /\ TeardownBlocksReuse
    /\ FenceCurrent
    /\ OneTerminalPerJob
    /\ PlacementAgrees
    /\ OneDebtPerSubmission
    /\ CancelHeld
    /\ CancelIsFinal
=============================================================================
