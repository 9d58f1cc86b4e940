--------------------------- MODULE FleetStoreProofs ---------------------------
(***************************************************************************)
(* Theorems about FleetStore, for every number of workers, sessions, jobs  *)
(* and attempts: type correctness, the inductive invariant Consistent with *)
(* LiveIsNewest, and what the store promises from these.                   *)
(***************************************************************************)
EXTENDS FleetStore, TLAPS

USE DEF LiveSession, EndedSession, PollableStatus, ActiveStatus, StartedStatus,
        TerminalStatus, LostStatus


LEMMA InitType == Init => TypeOK
<1> SUFFICES ASSUME Init PROVE TypeOK
  OBVIOUS
<1>1. registry \in [Workers -> RegistryRow]
  <2>1. \A p \in Policies : p \in [enabled : BOOLEAN, caps : SUBSET Capabilities, profile : Profiles]
    BY StoreAssumption
  <2>2. \A p \in Policies : [enabled |-> p.enabled, caps |-> p.caps, profile |-> p.profile,
           draining |-> FALSE, shutdown |-> None] \in RegistryRow
    BY <2>1 DEF RegistryRow
  <2> QED
    BY <2>2 DEF Init
<1>2. newest \in [Workers -> Sessions \cup {None}]
  BY DEF Init
<1>3. session \in [Sessions -> SessionRow]
  BY DEF Init, SessionRow
<1>4. attempt \in [Attempts -> AttemptRow]
  BY DEF Init, AttemptRow
<1>5. \A a \in Attempts : attempt[a].status = "none"
  BY DEF Init
<1>6. job \in [Jobs -> JobRow]
  BY StoreAssumption DEF Init, JobRow
<1>7. submission \in [Submissions -> SubmissionRow]
  BY DEF Init, SubmissionRow
<1>8. obligation \in [Attempts -> ObligationRow]
  BY DEF Init, ObligationRow
<1>9. /\ scheduler \in [paused : BOOLEAN, generation : Nat]
      /\ floor \in Nat
      /\ accepting \subseteq Attempts
      /\ cancelling \subseteq Jobs
      /\ cancelled \subseteq Jobs
  BY StoreAssumption DEF Init
<1> QED
  BY <1>1, <1>2, <1>3, <1>4, <1>5, <1>6, <1>7, <1>8, <1>9 DEF TypeOK

\* What an update of existing attempt rows has to give for TypeOK'.
AttemptsKept ==
    /\ attempt' \in [Attempts -> AttemptRow]
    /\ \A a \in Attempts : attempt'[a].status # "none" =>
         /\ attempt[a].status # "none"
         /\ attempt'[a].job = attempt[a].job
         /\ attempt'[a].session = attempt[a].session
         /\ attempt'[a].profile = attempt[a].profile

LEMMA JobRowUpdate ==
  ASSUME TypeOK, NEW j \in Jobs,
         NEW status \in {"queued", "claimed", "running"} \cup TerminalStatus
  PROVE  /\ [job[j] EXCEPT !.status = status] \in JobRow
         /\ [job[j] EXCEPT !.status = status, !.claim = None] \in JobRow
  BY ZenonT(40) DEF TypeOK, JobRow

LEMMA SessionRowUpdate ==
  ASSUME TypeOK, NEW s \in Sessions, NEW status \in LiveSession \cup EndedSession
  PROVE  [session[s] EXCEPT !.status = status] \in SessionRow
  BY DEF TypeOK, SessionRow

LEMMA LiveUpdate ==
  ASSUME TypeOK, NEW a \in Attempts
  PROVE  /\ [attempt[a] EXCEPT !.live = FALSE] \in AttemptRow
         /\ [attempt[a] EXCEPT !.live = FALSE].status = attempt[a].status
         /\ [attempt[a] EXCEPT !.live = FALSE].job = attempt[a].job
         /\ [attempt[a] EXCEPT !.live = FALSE].session = attempt[a].session
         /\ [attempt[a] EXCEPT !.live = FALSE].profile = attempt[a].profile
  BY ZenonT(40) DEF TypeOK, AttemptRow

LEMMA WithStatusType ==
  ASSUME TypeOK, NEW A \in SUBSET Attempts,
         \A a \in A : attempt[a].status # "none",
         NEW status \in ActiveStatus \cup TerminalStatus \cup LostStatus,
         attempt' = WithStatus(A, status)
  PROVE  AttemptsKept
  BY DEF TypeOK, AttemptRow, WithStatus, AttemptsKept

LEMMA ReleaseOfferedType ==
  ASSUME TypeOK, NEW A \in SUBSET Attempts
  PROVE  ReleaseOffered(A) \in [Jobs -> JobRow]
<1>1. \A j \in Jobs : [job[j] EXCEPT !.status = "queued", !.claim = None] \in JobRow
  BY JobRowUpdate
<1>2. \A j \in Jobs : job[j] \in JobRow
  BY DEF TypeOK
<1> QED
  BY <1>1, <1>2, Zenon DEF ReleaseOffered

LEMMA OweCleanupType ==
  ASSUME TypeOK, NEW A \in SUBSET Attempts
  PROVE  OweCleanup(A) \in [Attempts -> ObligationRow]
<1>1. \A r \in BOOLEAN : [status |-> "pending", requeue |-> r] \in ObligationRow
  BY DEF ObligationRow
<1>3. ASSUME NEW a \in Attempts
      PROVE  [status |-> "pending", requeue |-> attempt[a].status = "running"] \in ObligationRow
  <2> DEFINE r == attempt[a].status = "running"
  <2>1. r \in BOOLEAN
    OBVIOUS
  <2> HIDE DEF r
  <2>2. [status |-> "pending", requeue |-> r] \in ObligationRow
    BY <1>1, <2>1
  <2> QED
    BY <2>2 DEF r
<1> QED
  BY <1>3, Zenon DEF TypeOK, OweCleanup

LEMMA WithdrawOffersType ==
  ASSUME TypeOK, NEW A \in SUBSET Attempts,
         \A a \in A : attempt[a].status # "none",
         WithdrawOffers(A)
  PROVE  AttemptsKept /\ job' \in [Jobs -> JobRow]
<1>1. AttemptsKept
  BY WithStatusType DEF WithdrawOffers
<1>2. ReleaseClaimed(A) \in [Jobs -> JobRow]
  <2>1. \A j \in Jobs : [job[j] EXCEPT !.status = "queued", !.claim = None] \in JobRow
    BY JobRowUpdate
  <2>2. \A j \in Jobs : job[j] \in JobRow
    BY DEF TypeOK
  <2> QED
    BY <2>1, <2>2, Zenon DEF ReleaseClaimed
<1> QED
  BY <1>1, <1>2 DEF WithdrawOffers

LEMMA LoseAttemptsType ==
  ASSUME TypeOK, NEW A \in SUBSET Attempts,
         \A a \in A : attempt[a].status # "none",
         NEW status \in LostStatus,
         LoseAttempts(A, status)
  PROVE  /\ AttemptsKept
         /\ job' \in [Jobs -> JobRow]
         /\ obligation' \in [Attempts -> ObligationRow]
<1>1. AttemptsKept
  BY WithStatusType DEF LoseAttempts
<1>2. job' \in [Jobs -> JobRow]
  BY ReleaseOfferedType DEF LoseAttempts
<1>3. obligation' \in [Attempts -> ObligationRow]
  BY OweCleanupType DEF LoseAttempts
<1> QED
  BY <1>1, <1>2, <1>3

LEMMA RegisterSuccessorType ==
  ASSUME TypeOK, NEW s \in Sessions, RegisterSuccessor(s)  PROVE TypeOK'
<1>1. ActiveOf(WorkerOf[s]) \in SUBSET Attempts
  BY DEF ActiveOf
<1>2. \A a \in ActiveOf(WorkerOf[s]) : attempt[a].status # "none"
  BY DEF ActiveOf, Active
<1>3. /\ AttemptsKept
      /\ job' \in [Jobs -> JobRow]
      /\ obligation' \in [Attempts -> ObligationRow]
  BY <1>1, <1>2, LoseAttemptsType DEF RegisterSuccessor
<1>4. session' \in [Sessions -> SessionRow]
  BY DEF RegisterSuccessor, TypeOK, SessionRow
<1>5. newest' \in [Workers -> Sessions \cup {None}]
  BY StoreAssumption DEF RegisterSuccessor, TypeOK
<1> QED
  BY <1>3, <1>4, <1>5 DEF RegisterSuccessor, TypeOK, AttemptsKept

LEMMA RegisterExistingType ==
  ASSUME TypeOK, NEW s \in Sessions, RegisterExisting(s)  PROVE TypeOK'
<1>1. session' \in [Sessions -> SessionRow]
  BY DEF RegisterExisting, TypeOK, SessionRow
<1> QED
  BY <1>1 DEF RegisterExisting, TypeOK

LEMMA SessionStatusType ==
  ASSUME TypeOK, NEW s \in Sessions,
         DeregisterSession(s) \/ PollDraining(s) \/ PollIdle(s) \/ SessionDeadline(s)
  PROVE  TypeOK'
<1>1. session' \in [Sessions -> SessionRow]
  <2>1. CASE DeregisterSession(s)
    BY <2>1 DEF DeregisterSession, TypeOK, SessionRow
  <2>2. CASE PollDraining(s)
    BY <2>2 DEF PollDraining, TypeOK, SessionRow
  <2>3. CASE PollIdle(s)
    BY <2>3 DEF PollIdle, TypeOK, SessionRow
  <2>4. CASE SessionDeadline(s)
    BY <2>4 DEF SessionDeadline, TypeOK, SessionRow
  <2> QED
    BY <2>1, <2>2, <2>3, <2>4
<1> QED
  BY <1>1 DEF DeregisterSession, PollDraining, PollIdle, SessionDeadline, TypeOK

LEMMA PollClaimType ==
  ASSUME TypeOK, NEW s \in Sessions, NEW j \in Jobs, NEW a \in Attempts, PollClaim(s, j, a)
  PROVE  TypeOK'
<1>1. WorkerOf[s] \in Workers /\ SubmissionOf[j] \in Submissions
  BY StoreAssumption
<1>2. /\ submission[SubmissionOf[j]] \in SubmissionRow
      /\ registry[WorkerOf[s]].profile \in Profiles
  BY <1>1 DEF TypeOK, RegistryRow
<1>3. submission' \in [Submissions -> SubmissionRow]
  <2> DEFINE w == WorkerOf[s]
             b == submission[SubmissionOf[j]]
             row == [b EXCEPT !.assigned = Coalesce(@, w),
                              !.profile = IF Required[j] = Benchmark
                                   THEN Coalesce(@, registry[w].profile) ELSE @,
                              !.fence = NextFence(b)]
  <2>1. /\ Coalesce(b.assigned, w) \in Workers \cup {None}
        /\ Coalesce(b.profile, registry[w].profile) \in Profiles \cup {None}
        /\ NextFence(b) \in Nat
    BY <1>1, <1>2 DEF SubmissionRow, Coalesce, NextFence
  <2>2. row \in SubmissionRow
    BY <1>2, <2>1 DEF SubmissionRow
  <2>3. submission' = [submission EXCEPT ![SubmissionOf[j]] = row]
    BY DEF PollClaim
  <2> QED
    BY <2>2, <2>3 DEF TypeOK
<1>4. job' \in [Jobs -> JobRow]
  BY DEF PollClaim, TypeOK, JobRow
<1>5. submission[SubmissionOf[j]].fence + 1 \in Nat /\ scheduler.generation \in Nat
  BY <1>2 DEF SubmissionRow, TypeOK
<1>6. attempt' \in [Attempts -> AttemptRow]
  BY <1>2, <1>5 DEF PollClaim, TypeOK, AttemptRow, NextFence
<1>7. \A b \in Attempts : attempt'[b].status # "none" =>
        /\ attempt'[b].job \in Jobs
        /\ attempt'[b].session \in Sessions
        /\ attempt'[b].profile \in Profiles
  BY <1>2 DEF PollClaim, TypeOK
<1>8. session' \in [Sessions -> SessionRow]
  BY DEF PollClaim, TypeOK, SessionRow
<1> QED
  BY <1>3, <1>4, <1>6, <1>7, <1>8 DEF PollClaim, TypeOK

LEMMA AcceptOfferType ==
  ASSUME TypeOK, NEW a \in Attempts, AcceptOffer(a)  PROVE TypeOK'
<1>1. attempt[a].job \in Jobs /\ attempt[a].session \in Sessions
  BY DEF AcceptOffer, TypeOK
<1>2. attempt' \in [Attempts -> AttemptRow] /\ AttemptsKept
  BY DEF AcceptOffer, TypeOK, AttemptRow, AttemptsKept
<1>3. job' \in [Jobs -> JobRow]
  BY <1>1 DEF AcceptOffer, TypeOK, JobRow
<1>4. session' \in [Sessions -> SessionRow]
  BY <1>1 DEF AcceptOffer, TypeOK, SessionRow
<1> QED
  BY <1>2, <1>3, <1>4 DEF AcceptOffer, TypeOK, AttemptsKept

LEMMA HeartbeatType ==
  ASSUME TypeOK, NEW a \in Attempts, OfferedAssignment(a) \/ HeartbeatAttempt(a)
  PROVE  TypeOK'
<1>1. CASE OfferedAssignment(a)
  BY <1>1 DEF OfferedAssignment, TypeOK
<1>2. CASE HeartbeatAttempt(a)
  <2>1. session' \in [Sessions -> SessionRow]
    BY <1>2, ZenonT(40) DEF HeartbeatAttempt, TypeOK, SessionRow
  <2> QED
    BY <1>2, <2>1 DEF HeartbeatAttempt, TypeOK
<1> QED
  BY <1>1, <1>2

LEMMA AcceptTerminalType ==
  ASSUME TypeOK, NEW a \in Attempts, NEW outcome \in TerminalStatus, AcceptTerminal(a, outcome)
  PROVE  TypeOK'
<1>1. /\ attempt[a].status # "none"
      /\ attempt[a].job \in Jobs
      /\ attempt[a].session \in Sessions
  BY DEF AcceptTerminal, TerminalAcceptable, Started, TypeOK
<1>2. AttemptsKept
  BY <1>1 DEF AcceptTerminal, TypeOK, AttemptRow, AttemptsKept
<1>3. job' \in [Jobs -> JobRow]
  BY <1>1, JobRowUpdate DEF AcceptTerminal, TypeOK
<1>4. session' \in [Sessions -> SessionRow]
  BY <1>1 DEF AcceptTerminal, TypeOK, SessionRow
<1> QED
  BY <1>2, <1>3, <1>4 DEF AcceptTerminal, TypeOK, AttemptsKept

LEMMA ExpireType ==
  ASSUME TypeOK, NEW A \in SUBSET Attempts, ExpireStaleAttempts(A)  PROVE TypeOK'
<1>1. \A a \in A : attempt[a].status # "none"
  BY DEF ExpireStaleAttempts, Stale, Active
<1>2. /\ AttemptsKept
      /\ job' \in [Jobs -> JobRow]
      /\ obligation' \in [Attempts -> ObligationRow]
  BY <1>1, LoseAttemptsType DEF ExpireStaleAttempts
<1>3. session' \in [Sessions -> SessionRow]
  BY DEF ExpireStaleAttempts, TypeOK, SessionRow
<1> QED
  BY <1>2, <1>3 DEF ExpireStaleAttempts, TypeOK, AttemptsKept

LEMMA CompleteCleanupType ==
  ASSUME TypeOK, NEW s \in Sessions, NEW a \in Attempts, CompleteCleanup(s, a)
  PROVE  TypeOK'
<1>1. obligation' \in [Attempts -> ObligationRow]
  BY DEF CompleteCleanup, TypeOK, ObligationRow
<1>2. job' \in [Jobs -> JobRow]
  BY JobRowUpdate DEF CompleteCleanup, TypeOK
<1> QED
  BY <1>1, <1>2 DEF CompleteCleanup, TypeOK

LEMMA RecoverType ==
  ASSUME TypeOK, NEW b \in Submissions, NEW n \in Jobs, NEW target \in Workers \cup {None},
         RecoverSubmission(b, n, target)
  PROVE  TypeOK'
<1>1. obligation' \in [Attempts -> ObligationRow]
  BY DEF RecoverSubmission, TypeOK, ObligationRow
<1>2. job' \in [Jobs -> JobRow]
  <2>1. PICK first \in Jobs : job' = [j \in Jobs |->
               IF j = n
               THEN [status |-> "queued", claim |-> None, prepared |-> job[first].prepared]
               ELSE IF /\ job[j].status = "running"
                       /\ \E a \in DebtsOf(b) : attempt[a].job = j
               THEN [job[j] EXCEPT !.status = "cancelled"]
               ELSE job[j]]
    BY DEF RecoverSubmission
  <2>2. [status |-> "queued", claim |-> None, prepared |-> job[first].prepared] \in JobRow
    BY DEF TypeOK, JobRow
  <2>3. \A j \in Jobs : [job[j] EXCEPT !.status = "cancelled"] \in JobRow /\ job[j] \in JobRow
    BY DEF TypeOK, JobRow
  <2> QED
    BY <2>1, <2>2, <2>3
<1>3. submission' \in [Submissions -> SubmissionRow]
  <2>1. submission[b].fence + 1 \in Nat /\ SubmissionOf[n] \in Submissions
    BY StoreAssumption DEF TypeOK, SubmissionRow
  <2>2. [exists |-> TRUE, required |-> target, assigned |-> None,
         profile |-> None, fence |-> submission[b].fence + 1] \in SubmissionRow
    BY <2>1 DEF SubmissionRow
  <2> QED
    BY <2>2 DEF RecoverSubmission, TypeOK
<1> QED
  BY <1>1, <1>2, <1>3 DEF RecoverSubmission, TypeOK

LEMMA CancelUnstartedType ==
  ASSUME TypeOK, NEW J \in SUBSET Jobs, CancelUnstarted(J)
  PROVE  obligation' \in [Attempts -> ObligationRow] /\ job' \in [Jobs -> JobRow]
<1>1. obligation' \in [Attempts -> ObligationRow]
  BY DEF CancelUnstarted, TypeOK, ObligationRow
<1>2. \A j \in Jobs :
          /\ [job[j] EXCEPT !.status = "cancelled", !.claim = None] \in JobRow
          /\ job[j] \in JobRow
  BY JobRowUpdate DEF TypeOK
<1> QED
  BY <1>1, <1>2 DEF CancelUnstarted

LEMMA CancelStepType ==
  ASSUME TypeOK, NEW j \in Jobs, CancelLooksUp(j) \/ CancelDecides(j) \/ CancelGivesUp(j)
  PROVE  TypeOK'
<1>1. CASE CancelDecides(j)
  <2>1. obligation' \in [Attempts -> ObligationRow] /\ job' \in [Jobs -> JobRow]
    BY <1>1, CancelUnstartedType DEF CancelDecides
  <2>2. cancelling' \subseteq Jobs /\ cancelled' \subseteq Jobs
    BY <1>1 DEF CancelDecides, TypeOK, TeardownOwed, Unstarted
  <2> QED
    BY <1>1, <2>1, <2>2 DEF CancelDecides, TypeOK
<1>2. CASE CancelLooksUp(j) \/ CancelGivesUp(j)
  BY <1>2 DEF CancelLooksUp, CancelGivesUp, TypeOK
<1> QED
  BY <1>1, <1>2

LEMMA CancelJobsType ==
  ASSUME TypeOK, NEW J \in SUBSET Jobs, CancelJobs(J)  PROVE TypeOK'
<1>1. AttemptsKept
  <2>1. \A a \in Attempts : \A status \in {"cancel_requested", "fenced"} :
          [attempt[a] EXCEPT !.status = status] \in AttemptRow
    BY DEF TypeOK, AttemptRow
  <2>2. attempt' \in [Attempts -> AttemptRow]
    BY <2>1 DEF CancelJobs, TypeOK
  <2>3. \A a \in Attempts : attempt[a] \in AttemptRow
    BY DEF TypeOK
  <2>4. \A a \in Attempts : attempt'[a].job = attempt[a].job
                         /\ attempt'[a].session = attempt[a].session
                         /\ attempt'[a].profile = attempt[a].profile
    BY <2>3 DEF CancelJobs, AttemptRow
  <2>5. \A a \in Attempts : attempt'[a].status # "none" => attempt[a].status # "none"
    BY <2>3 DEF CancelJobs, AttemptRow, Active
  <2> QED
    BY <2>2, <2>4, <2>5 DEF AttemptsKept
<1>2. session' \in [Sessions -> SessionRow]
  BY ZenonT(40) DEF CancelJobs, TypeOK, SessionRow
<1>3. obligation' \in [Attempts -> ObligationRow] /\ job' \in [Jobs -> JobRow]
  BY CancelUnstartedType DEF CancelJobs
<1>5. cancelled' \subseteq Jobs
  BY DEF CancelJobs, TypeOK, StopRequested, TeardownOwed, Unstarted
<1> QED
  BY <1>1, <1>2, <1>3, <1>5 DEF CancelJobs, TypeOK, AttemptsKept

LEMMA ChangeSchedulerType ==
  ASSUME TypeOK, NEW paused \in BOOLEAN, ChangeScheduler(paused)  PROVE TypeOK'
<1>1. scheduler' \in [paused : BOOLEAN, generation : Nat]
  BY DEF ChangeScheduler, TypeOK
<1>2. CASE ~paused
  BY <1>1, <1>2 DEF ChangeScheduler, TypeOK
<1>3. CASE paused
  <2>1. AttemptsKept /\ job' \in [Jobs -> JobRow]
    BY <1>3, WithdrawOffersType DEF ChangeScheduler, OffersIn
  <2>2. session' \in [Sessions -> SessionRow]
    BY <1>3 DEF ChangeScheduler, TypeOK, SessionRow
  <2> QED
    BY <1>1, <2>1, <2>2 DEF ChangeScheduler, TypeOK, AttemptsKept
<1> QED
  BY <1>2, <1>3

LEMMA LifecycleType ==
  ASSUME TypeOK, NEW w \in Workers, NEW action \in LifecycleActions,
         NEW target \in Sessions \cup {None}, ChangeWorkerLifecycle(w, action, target)
  PROVE  TypeOK'
<1>1. registry' \in [Workers -> RegistryRow]
  <2> DEFINE draining == action = "cordon" \/ (action # "uncordon" /\ registry[w].draining)
             shutdown == Coalesce(target, registry[w].shutdown)
             row == [registry[w] EXCEPT !.draining = draining, !.shutdown = shutdown]
  <2>1. registry[w] \in RegistryRow
    BY DEF TypeOK
  <2>2. draining \in BOOLEAN
    BY <2>1 DEF RegistryRow, LifecycleActions
  <2>3. shutdown \in Sessions \cup {None}
    BY <2>1 DEF RegistryRow, Coalesce
  <2>4. row \in RegistryRow
    <3> HIDE DEF draining, shutdown
    <3> QED
      BY <2>1, <2>2, <2>3 DEF RegistryRow
  <2>5. registry' = [registry EXCEPT ![w] = row]
    BY DEF ChangeWorkerLifecycle
  <2> QED
    BY <2>4, <2>5 DEF TypeOK
<1>2. session' \in [Sessions -> SessionRow]
  BY DEF ChangeWorkerLifecycle, TypeOK, SessionRow
<1>3. CASE action = "uncordon"
  BY <1>1, <1>2, <1>3 DEF ChangeWorkerLifecycle, TypeOK
<1>4. CASE action # "uncordon"
  <2>1. AttemptsKept /\ job' \in [Jobs -> JobRow]
    BY <1>4, WithdrawOffersType DEF ChangeWorkerLifecycle, OffersIn, ActiveOf
  <2> QED
    BY <1>1, <1>2, <2>1 DEF ChangeWorkerLifecycle, TypeOK, AttemptsKept
<1> QED
  BY <1>3, <1>4

LEMMA PolicyType ==
  ASSUME TypeOK, NEW w \in Workers,
         EmergencyDisableWorker(w) \/ \E policy \in Policies : UpdateWorker(w, policy)
  PROVE  TypeOK'
<1>1. CASE EmergencyDisableWorker(w)
  <2>1. registry' \in [Workers -> RegistryRow]
    BY <1>1, ZenonT(40) DEF EmergencyDisableWorker, TypeOK, RegistryRow
  <2>2. AttemptsKept
    BY <1>1, LiveUpdate DEF EmergencyDisableWorker, TypeOK, AttemptsKept
  <2>3. session' \in [Sessions -> SessionRow]
    BY <1>1 DEF EmergencyDisableWorker, TypeOK, SessionRow
  <2> QED
    BY <1>1, <2>1, <2>2, <2>3 DEF EmergencyDisableWorker, TypeOK, AttemptsKept
<1>2. CASE \E policy \in Policies : UpdateWorker(w, policy)
  <2>1. PICK policy \in Policies : UpdateWorker(w, policy)
    BY <1>2
  <2>2. policy \in [enabled : BOOLEAN, caps : SUBSET Capabilities, profile : Profiles]
    BY StoreAssumption
  <2>3. registry' \in [Workers -> RegistryRow]
    <3> DEFINE row == [registry[w] EXCEPT !.enabled = policy.enabled, !.caps = policy.caps,
                                          !.profile = policy.profile]
    <3>1. row \in RegistryRow
      <4>1. /\ policy.enabled \in BOOLEAN
            /\ policy.caps \in SUBSET Capabilities
            /\ policy.profile \in Profiles
        BY <2>2
      <4>2. registry[w] \in RegistryRow
        BY DEF TypeOK
      <4>3. \A e \in BOOLEAN, c \in SUBSET Capabilities, p \in Profiles :
              [registry[w] EXCEPT !.enabled = e, !.caps = c, !.profile = p] \in RegistryRow
        BY <4>2 DEF RegistryRow
      <4> QED
        BY <4>1, <4>3, Zenon
    <3>2. registry' = [registry EXCEPT ![w] = row]
      BY <2>1 DEF UpdateWorker
    <3> QED
      BY <3>1, <3>2 DEF TypeOK
  <2>4. session' \in [Sessions -> SessionRow]
    BY <2>1, SessionRowUpdate DEF UpdateWorker, TypeOK
  <2> QED
    BY <2>1, <2>3, <2>4 DEF UpdateWorker, TypeOK
<1> QED
  BY <1>1, <1>2

LEMMA JobRowType ==
  ASSUME TypeOK, NEW j \in Jobs, PrepareExecution(j) \/ FailQueuedJob(j)
  PROVE  TypeOK'
<1>1. job' \in [Jobs -> JobRow]
  <2>1. CASE PrepareExecution(j)
    BY <2>1, ZenonT(40) DEF PrepareExecution, TypeOK, JobRow
  <2>2. CASE FailQueuedJob(j)
    BY <2>2, JobRowUpdate DEF FailQueuedJob, TypeOK
  <2> QED
    BY <2>1, <2>2
<1> QED
  BY <1>1 DEF PrepareExecution, FailQueuedJob, TypeOK

LEMMA DeadlineType ==
  ASSUME TypeOK, NEW a \in Attempts, AttemptDeadline(a)  PROVE TypeOK'
<1>1. AttemptsKept
  BY LiveUpdate DEF AttemptDeadline, TypeOK, AttemptsKept
<1> QED
  BY <1>1 DEF AttemptDeadline, TypeOK, AttemptsKept

LEMMA ProtocolType ==
  ASSUME TypeOK, NEW revision \in Floors, ChangeProtocolPolicy(revision)  PROVE TypeOK'
  BY StoreAssumption DEF ChangeProtocolPolicy, TypeOK

LEMMA NextType ==
  ASSUME TypeOK, [Next]_vars  PROVE TypeOK'
<1>1. CASE SessionStep
  <2>1. PICK s \in Sessions :
           \/ RegisterSuccessor(s) \/ RegisterExisting(s) \/ DeregisterSession(s)
           \/ PollDraining(s) \/ PollIdle(s) \/ SessionDeadline(s)
           \/ \E j \in Jobs, a \in Attempts : PollClaim(s, j, a)
           \/ \E a \in Attempts : CompleteCleanup(s, a)
    BY <1>1 DEF SessionStep
  <2> QED
    BY <2>1, RegisterSuccessorType, RegisterExistingType, SessionStatusType,
       PollClaimType, CompleteCleanupType
<1>2. CASE AttemptStep
  BY <1>2, HeartbeatType, AcceptOfferType, DeadlineType, AcceptTerminalType, ExpireType
     DEF AttemptStep
<1>3. CASE JobStep
  <2>1. ASSUME NEW j \in Jobs, RequestCancel(j)  PROVE TypeOK'
    BY <2>1, CancelJobsType DEF RequestCancel
  <2> QED
    BY <1>3, <2>1, CancelStepType, JobRowType, RecoverType DEF JobStep
<1>4. CASE OperatorStep
  <2>1. ASSUME NEW scope \in AbortScopes, AbortFleet(scope)  PROVE TypeOK'
    BY <2>1, CancelJobsType DEF AbortFleet
  <2> QED
    BY <1>4, <2>1, ChangeSchedulerType, LifecycleType, PolicyType, ProtocolType
       DEF OperatorStep
<1>5. CASE UNCHANGED vars
  BY <1>5 DEF vars, TypeOK
<1> QED
  BY <1>1, <1>2, <1>3, <1>4, <1>5 DEF Next

\* Every row keeps the columns and enum values of the migrations, whatever the
\* order of polls, sweeps, registrations and operator commands.
THEOREM TypeCorrect == Spec => []TypeOK
<1>1. Init => TypeOK
  BY InitType
<1>2. TypeOK /\ [Next]_vars => TypeOK'
  BY NextType
<1> QED
  BY <1>1, <1>2, PTL DEF Spec

-----------------------------------------------------------------------------
(* Consistent, the inductive invariant behind the safety properties, and   *)
(* LiveIsNewest.  Steps are grouped by what they do to the attempts and    *)
(* jobs, which is all that Consistent reads.                               *)

USE DEF Active, Started, Pending, WorkerFor, SubmissionFor, Overtaken

LEMMA InitConsistent == Init => Consistent
<1> SUFFICES ASSUME Init PROVE Consistent
  OBVIOUS
<1>1. \A a \in Attempts : attempt[a].status = "none" /\ obligation[a].status = "none"
  BY DEF Init
<1>2. \A j \in Jobs : job[j].status \in {"none", "queued"}
  BY DEF Init
<1>3. cancelled = {}
  BY DEF Init
<1>4. OneActivePerSubmission /\ ClaimAgrees /\ NoJobStranded
  BY <1>1, <1>2 DEF OneActivePerSubmission, ClaimAgrees, NoJobStranded
<1>5. TeardownBlocksReuse /\ FenceCurrent /\ OneTerminalPerJob
  BY <1>1 DEF TeardownBlocksReuse, FenceCurrent, OneTerminalPerJob
<1>6. PlacementAgrees
  BY <1>1, StoreAssumption DEF PlacementAgrees, Init
<1>7. OneDebtPerSubmission /\ CancelHeld /\ CancelIsFinal
  BY <1>1, <1>3 DEF OneDebtPerSubmission, CancelHeld, CancelIsFinal
<1> QED
  BY <1>4, <1>5, <1>6, <1>7 DEF Consistent

\* Rows that exist name their job and session.
LEMMA AttemptRefs ==
  ASSUME TypeOK, NEW a \in Attempts, attempt[a].status # "none"
  PROVE  /\ attempt[a].job \in Jobs
         /\ attempt[a].session \in Sessions
         /\ attempt[a].profile \in Profiles
         /\ SubmissionFor(a) \in Submissions
         /\ WorkerFor(a) \in Workers
         /\ None \notin Workers \cup Profiles
  BY StoreAssumption DEF TypeOK

LEMMA ConsistentParts ==
  ASSUME Consistent
  PROVE  /\ OneActivePerSubmission /\ ClaimAgrees /\ NoJobStranded
         /\ TeardownBlocksReuse /\ FenceCurrent /\ OneTerminalPerJob
         /\ PlacementAgrees /\ OneDebtPerSubmission /\ CancelHeld /\ CancelIsFinal
  BY DEF Consistent

\* A step that Consistent cannot tell from a stuttering step: sessions,
\* registry, policies, deadlines and prepared payloads.
StoreFrame ==
    /\ \A a \in Attempts :
         /\ attempt'[a].status = attempt[a].status
         /\ attempt'[a].job = attempt[a].job
         /\ attempt'[a].session = attempt[a].session
         /\ attempt'[a].fence = attempt[a].fence
         /\ attempt'[a].profile = attempt[a].profile
    /\ \A j \in Jobs : job'[j].status = job[j].status /\ job'[j].claim = job[j].claim
    /\ UNCHANGED <<submission, obligation, cancelled>>

LEMMA FrameConsistent ==
  ASSUME TypeOK, Consistent, StoreFrame  PROVE Consistent'
<1>a. \A a \in Attempts : attempt[a].status # "none" => attempt[a].job \in Jobs
  BY AttemptRefs
<1>b. cancelled \subseteq Jobs
  BY DEF TypeOK
<1> USE ConsistentParts DEF StoreFrame
<1>1. OneActivePerSubmission'
  BY DEF OneActivePerSubmission
<1>2. ClaimAgrees'
  BY <1>a DEF ClaimAgrees
<1>3. NoJobStranded'
  BY DEF NoJobStranded
<1>4. TeardownBlocksReuse'
  BY <1>a DEF TeardownBlocksReuse
<1>5. FenceCurrent'
  BY DEF FenceCurrent
<1>6. OneTerminalPerJob'
  BY <1>a DEF OneTerminalPerJob
<1>7. PlacementAgrees'
  BY <1>a DEF PlacementAgrees
<1>8. OneDebtPerSubmission'
  BY DEF OneDebtPerSubmission
<1>9. CancelHeld'
  BY <1>a DEF CancelHeld
<1>10. CancelIsFinal'
  BY <1>b DEF CancelIsFinal
<1> QED
  BY <1>1, <1>2, <1>3, <1>4, <1>5, <1>6, <1>7, <1>8, <1>9, <1>10 DEF Consistent

-----------------------------------------------------------------------------
(* An offer is made.                                                       *)

LEMMA PollClaimConsistent ==
  ASSUME TypeOK, Consistent, NEW s \in Sessions, NEW j \in Jobs, NEW a \in Attempts,
         PollClaim(s, j, a)
  PROVE  Consistent'
<1> DEFINE w == WorkerOf[s]
           u == SubmissionOf[j]
<1>1. w \in Workers /\ u \in Submissions /\ None \notin Workers \cup Profiles
  BY StoreAssumption
<1>2. \A b \in Attempts : attempt[b].status # "none" =>
        /\ attempt[b].job \in Jobs
        /\ SubmissionFor(b) \in Submissions
        /\ WorkerFor(b) \in Workers
        /\ attempt[b].profile \in Profiles
        /\ attempt[b].fence \in Nat
  BY AttemptRefs DEF TypeOK, AttemptRow
<1>3. /\ attempt[a].status = "none"
      /\ obligation[a].status = "none"
      /\ job[j].status = "queued"
      /\ submission[u].assigned \in {None, w}
      /\ Required[j] = Benchmark => submission[u].profile \in {None, registry[w].profile}
      /\ \A b \in Attempts : Active(b) => SubmissionFor(b) # u
      /\ \A b \in Attempts : ~(Pending(b) /\ WorkerFor(b) = w)
  BY ConsistentParts DEF PollClaim, PollOpen, Candidate, PendingCleanup, OneDebtPerSubmission
<1>4. /\ attempt'[a].status = "offered" /\ attempt'[a].job = j /\ attempt'[a].session = s
      /\ attempt'[a].fence = submission[u].fence + 1
      /\ attempt'[a].profile = registry[w].profile
      /\ \A b \in Attempts \ {a} : attempt'[b] = attempt[b]
  BY DEF PollClaim, TypeOK, NextFence
<1>5. /\ job'[j].status = "claimed" /\ job'[j].claim = a
      /\ \A k \in Jobs \ {j} : job'[k] = job[k]
      /\ UNCHANGED <<obligation, cancelled>>
  BY DEF PollClaim, TypeOK
<1>6. /\ submission'[u].fence = submission[u].fence + 1
      /\ submission'[u].assigned = Coalesce(submission[u].assigned, w)
      /\ submission'[u].exists = submission[u].exists
      /\ submission'[u].profile = IF Required[j] = Benchmark
             THEN Coalesce(submission[u].profile, registry[w].profile)
             ELSE submission[u].profile
      /\ \A v \in Submissions \ {u} : submission'[v] = submission[v]
      /\ submission[u].fence \in Nat
  BY <1>1 DEF PollClaim, TypeOK, SubmissionRow, NextFence
<1>7. \A b \in Attempts : Pending(b) => SubmissionFor(b) # u
  BY <1>1, <1>2, <1>3, ConsistentParts DEF OneDebtPerSubmission, PlacementAgrees
<1> HIDE DEF w, u
<1>8. u = SubmissionOf[j] /\ w = WorkerOf[s]
  BY DEF u, w
<1>9. OneActivePerSubmission'
  BY <1>3, <1>4, <1>8, ConsistentParts DEF OneActivePerSubmission
<1>10. ClaimAgrees'
  BY <1>2, <1>3, <1>4, <1>5, <1>8, ConsistentParts DEF ClaimAgrees
<1>11. NoJobStranded'
  BY <1>3, <1>4, <1>5, ConsistentParts DEF NoJobStranded
<1>12. TeardownBlocksReuse'
  BY <1>2, <1>3, <1>4, <1>5, <1>7, <1>8, ConsistentParts
     DEF TeardownBlocksReuse
<1>13. FenceCurrent'
  BY <1>2, <1>3, <1>4, <1>6, <1>8, ConsistentParts DEF FenceCurrent
<1>14. OneTerminalPerJob'
  BY <1>2, <1>3, <1>4, <1>5, ConsistentParts DEF OneTerminalPerJob
<1>15. PlacementAgrees'
  BY <1>1, <1>2, <1>3, <1>4, <1>5, <1>6, <1>8, StoreAssumption, ConsistentParts
     DEF PlacementAgrees, Coalesce
<1>16. OneDebtPerSubmission'
  BY <1>2, <1>3, <1>4, <1>5, <1>6, <1>7, ConsistentParts DEF OneDebtPerSubmission
<1>17. CancelHeld'
  BY <1>2, <1>3, <1>4, <1>5, ConsistentParts DEF CancelHeld, CancelIsFinal
<1>18. CancelIsFinal'
  BY <1>3, <1>5, ConsistentParts DEF CancelIsFinal, TypeOK
<1> QED
  BY <1>9, <1>10, <1>11, <1>12, <1>13, <1>14, <1>15, <1>16, <1>17, <1>18 DEF Consistent

-----------------------------------------------------------------------------
(* An offer is accepted; a started attempt ends with a terminal.           *)

LEMMA AcceptOfferConsistent ==
  ASSUME TypeOK, Consistent, NEW a \in Attempts, AcceptOffer(a)  PROVE Consistent'
<1> DEFINE j == attempt[a].job
<1>1. \A b \in Attempts : attempt[b].status # "none" => attempt[b].job \in Jobs
  BY AttemptRefs
<1>2. /\ attempt[a].status = "offered" /\ j \in Jobs
      /\ job[j].status = "claimed" /\ job[j].claim = a
  BY <1>1 DEF AcceptOffer
<1>3. /\ attempt'[a].status = "running"
      /\ \A b \in Attempts \ {a} : attempt'[b].status = attempt[b].status
      /\ \A b \in Attempts : /\ attempt'[b].job = attempt[b].job
                            /\ attempt'[b].session = attempt[b].session
                            /\ attempt'[b].fence = attempt[b].fence
                            /\ attempt'[b].profile = attempt[b].profile
  BY DEF AcceptOffer, TypeOK, AttemptRow
<1>4. /\ job'[j].status = "running"
      /\ \A k \in Jobs \ {j} : job'[k].status = job[k].status
      /\ \A k \in Jobs : job'[k].claim = job[k].claim
      /\ UNCHANGED <<submission, obligation, cancelled>>
  BY <1>2 DEF AcceptOffer, TypeOK, JobRow
<1>5. \A b \in Attempts \ {a} : Active(b) => attempt[b].job # j
  BY <1>2, ConsistentParts DEF OneActivePerSubmission
<1> HIDE DEF j
<1>6. attempt[a].job = j
  BY DEF j
<1> USE <1>3, <1>4, <1>6, ConsistentParts
<1>7. OneActivePerSubmission'
  BY <1>2 DEF OneActivePerSubmission
<1>8. ClaimAgrees'
  BY <1>1, <1>2, <1>5 DEF ClaimAgrees
<1>9. NoJobStranded'
  BY <1>2, <1>5 DEF NoJobStranded
<1>10. TeardownBlocksReuse'
  BY <1>1, <1>2 DEF TeardownBlocksReuse
<1>11. FenceCurrent'
  BY <1>2 DEF FenceCurrent
<1>12. OneTerminalPerJob'
  BY <1>1, <1>2 DEF OneTerminalPerJob
<1>13. PlacementAgrees'
  BY <1>1, <1>2 DEF PlacementAgrees
<1>14. OneDebtPerSubmission'
  BY <1>2 DEF OneDebtPerSubmission
<1>15. CancelHeld' /\ CancelIsFinal'
  BY <1>2 DEF CancelHeld, CancelIsFinal, TypeOK
<1> QED
  BY <1>7, <1>8, <1>9, <1>10, <1>11, <1>12, <1>13, <1>14, <1>15 DEF Consistent

LEMMA AcceptTerminalConsistent ==
  ASSUME TypeOK, Consistent, NEW a \in Attempts, NEW outcome \in TerminalStatus,
         AcceptTerminal(a, outcome)
  PROVE  Consistent'
<1> DEFINE j == attempt[a].job
<1>1. \A b \in Attempts : attempt[b].status # "none" => attempt[b].job \in Jobs
  BY AttemptRefs
<1>2. /\ Started(a) /\ j \in Jobs
      /\ attempt[a].status = "cancel_requested" => outcome = "cancelled"
      /\ job[j].status = "running" /\ job[j].claim = a
  BY <1>1 DEF AcceptTerminal, TerminalAcceptable
<1>3. /\ attempt'[a].status = outcome
      /\ \A b \in Attempts \ {a} : attempt'[b].status = attempt[b].status
      /\ \A b \in Attempts : /\ attempt'[b].job = attempt[b].job
                            /\ attempt'[b].session = attempt[b].session
                            /\ attempt'[b].fence = attempt[b].fence
                            /\ attempt'[b].profile = attempt[b].profile
  BY DEF AcceptTerminal, TypeOK, AttemptRow
<1>4. /\ job'[j].status = outcome
      /\ \A k \in Jobs \ {j} : job'[k].status = job[k].status
      /\ \A k \in Jobs : job'[k].claim = job[k].claim
      /\ UNCHANGED <<submission, obligation, cancelled>>
  BY <1>2 DEF AcceptTerminal, TypeOK, JobRow
<1>5. \A b \in Attempts \ {a} : Active(b) \/ Pending(b) => attempt[b].job # j
  BY <1>2, ConsistentParts DEF OneActivePerSubmission, TeardownBlocksReuse
<1> HIDE DEF j
<1>6. attempt[a].job = j
  BY DEF j
<1> USE <1>3, <1>4, <1>6, ConsistentParts
<1>7. OneActivePerSubmission'
  BY <1>2 DEF OneActivePerSubmission
<1>8. ClaimAgrees'
  BY <1>1, <1>2, <1>5 DEF ClaimAgrees
<1>9. NoJobStranded'
  BY <1>2, <1>5 DEF NoJobStranded
<1>10. TeardownBlocksReuse'
  BY <1>1, <1>2, <1>5 DEF TeardownBlocksReuse
<1>11. FenceCurrent'
  BY <1>2 DEF FenceCurrent
<1>12. OneTerminalPerJob'
  BY <1>1, <1>2 DEF OneTerminalPerJob
<1>13. PlacementAgrees'
  BY <1>1, <1>2 DEF PlacementAgrees
<1>14. OneDebtPerSubmission'
  BY <1>2 DEF OneDebtPerSubmission
<1>15. CancelHeld' /\ CancelIsFinal'
  BY <1>2 DEF CancelHeld, CancelIsFinal, TypeOK
<1> QED
  BY <1>7, <1>8, <1>9, <1>10, <1>11, <1>12, <1>13, <1>14, <1>15 DEF Consistent

-----------------------------------------------------------------------------
(* Attempts are lost: expiry sweep, fencing by a successor, withdrawal.    *)

LEMMA LoseAttemptsConsistent ==
  ASSUME TypeOK, Consistent, NEW A \in SUBSET Attempts, \A a \in A : Active(a),
         NEW status \in LostStatus, LoseAttempts(A, status),
         UNCHANGED <<submission, cancelled>>
  PROVE  Consistent'
<1>1. \A b \in Attempts : attempt[b].status # "none" => attempt[b].job \in Jobs
  BY AttemptRefs
<1>2. \A b \in Attempts :
        /\ attempt'[b].status = IF b \in A THEN status ELSE attempt[b].status
        /\ attempt'[b].job = attempt[b].job
        /\ attempt'[b].session = attempt[b].session
        /\ attempt'[b].fence = attempt[b].fence
        /\ attempt'[b].profile = attempt[b].profile
  BY DEF LoseAttempts, WithStatus, TypeOK, AttemptRow
<1>3. \A k \in Jobs :
        IF job[k].status = "claimed" /\ \E b \in A : attempt[b].status = "offered" /\ attempt[b].job = k
        THEN job'[k].status = "queued"
        ELSE job'[k] = job[k]
  BY DEF LoseAttempts, ReleaseOffered, TypeOK, JobRow
<1>4. \A b \in Attempts :
        IF b \in A /\ Started(b)
        THEN /\ obligation'[b].status = "pending"
             /\ obligation'[b].requeue => attempt[b].status = "running"
        ELSE obligation'[b] = obligation[b]
  BY ConsistentParts DEF LoseAttempts, OweCleanup, TypeOK, ObligationRow, OneDebtPerSubmission
<1>5. \A b \in A : attempt[b].status \in ActiveStatus
  OBVIOUS
<1> USE <1>2, <1>3, ConsistentParts
<1>7. OneActivePerSubmission'
  BY DEF OneActivePerSubmission
<1>8. ClaimAgrees'
  BY <1>1, <1>5 DEF ClaimAgrees, OneActivePerSubmission
<1>9. NoJobStranded'
  <2> SUFFICES ASSUME NEW k \in Jobs
               PROVE  /\ job'[k].status = "claimed" =>
                           \E b \in Attempts : attempt'[b].status = "offered" /\ attempt'[b].job = k
                      /\ job'[k].status = "running" =>
                           \E b \in Attempts : attempt'[b].job = k /\ (Started(b) \/ Pending(b))'
    BY DEF NoJobStranded
  <2>1. CASE job'[k].status = "claimed"
    BY <2>1, <1>5 DEF NoJobStranded
  <2>2. CASE job'[k].status = "running"
    <3>1. PICK b \in Attempts : attempt[b].job = k /\ (Started(b) \/ Pending(b))
      BY <2>2 DEF NoJobStranded
    <3>2. attempt'[b].job = k /\ (Started(b) \/ Pending(b))'
      BY <3>1, <1>4
    <3> QED
      BY <2>2, <3>2
  <2> QED
    BY <2>1, <2>2
<1>10. TeardownBlocksReuse'
  <2> SUFFICES ASSUME NEW b \in Attempts, Pending(b)'
               PROVE  /\ attempt'[b].status \in LostStatus
                      /\ job'[attempt'[b].job].status = "running"
                      /\ \A c \in Attempts : Active(c)' => SubmissionFor(c)' # SubmissionFor(b)'
    BY DEF TeardownBlocksReuse
  <2>1. CASE b \in A /\ Started(b)
    BY <2>1, <1>1 DEF ClaimAgrees, OneActivePerSubmission
  <2>2. CASE ~(b \in A /\ Started(b))
    BY <2>2, <1>1, <1>4, <1>5 DEF TeardownBlocksReuse
  <2> QED
    BY <2>1, <2>2
<1>11. FenceCurrent'
  BY DEF FenceCurrent
<1>12. OneTerminalPerJob'
  BY <1>1 DEF OneTerminalPerJob
<1>13. PlacementAgrees'
  BY <1>1 DEF PlacementAgrees
<1>14. OneDebtPerSubmission'
  <2>1. \A b \in A : Started(b) =>
          /\ attempt[b].fence = submission[SubmissionFor(b)].fence
          /\ \A c \in Attempts : Pending(c) => SubmissionFor(c) # SubmissionFor(b)
          /\ \A c \in A : Started(c) /\ SubmissionFor(c) = SubmissionFor(b) => c = b
    BY DEF FenceCurrent, TeardownBlocksReuse, OneActivePerSubmission
  <2> QED
    BY <2>1, <1>4 DEF OneDebtPerSubmission
<1>15. CancelHeld'
  BY <1>1, <1>4 DEF CancelHeld
<1>16. CancelIsFinal'
  BY DEF CancelIsFinal, TypeOK
<1> QED
  BY <1>7, <1>8, <1>9, <1>10, <1>11, <1>12, <1>13, <1>14, <1>15, <1>16 DEF Consistent

LEMMA WithdrawConsistent ==
  ASSUME TypeOK, Consistent, NEW A \in SUBSET Attempts,
         \A a \in A : attempt[a].status = "offered", WithdrawOffers(A),
         UNCHANGED <<submission, obligation, cancelled>>
  PROVE  Consistent'
<1>1. \A b \in Attempts : attempt[b].status # "none" => attempt[b].job \in Jobs
  BY AttemptRefs
<1>2. \A b \in Attempts :
        /\ attempt'[b].status = IF b \in A THEN "expired" ELSE attempt[b].status
        /\ attempt'[b].job = attempt[b].job
        /\ attempt'[b].session = attempt[b].session
        /\ attempt'[b].fence = attempt[b].fence
        /\ attempt'[b].profile = attempt[b].profile
  BY DEF WithdrawOffers, WithStatus, TypeOK, AttemptRow
<1>3. \A k \in Jobs :
        IF job[k].status = "claimed" /\ \E b \in A : attempt[b].job = k
        THEN job'[k].status = "queued"
        ELSE job'[k] = job[k]
  <2>1. \A b \in A : job[attempt[b].job].status = "claimed" => job[attempt[b].job].claim = b
    BY ConsistentParts DEF ClaimAgrees
  <2>2. \A k \in Jobs : [job[k] EXCEPT !.status = "queued", !.claim = None].status = "queued"
    BY DEF TypeOK, JobRow
  <2>3. \A k \in Jobs : job'[k] =
          IF /\ job[k].status = "claimed"
             /\ \E b \in A : attempt[b].job = k /\ job[k].claim = b
          THEN [job[k] EXCEPT !.status = "queued", !.claim = None]
          ELSE job[k]
    BY DEF WithdrawOffers, ReleaseClaimed
  <2>4. ASSUME NEW k \in Jobs, job[k].status = "claimed", NEW b \in A, attempt[b].job = k
        PROVE  job'[k].status = "queued"
    <3>1. job[k].claim = b
      BY <2>1, <2>4
    <3>2. job'[k] = [job[k] EXCEPT !.status = "queued", !.claim = None]
      BY <2>3, <2>4, <3>1
    <3> QED
      BY <2>2, <3>2
  <2>5. ASSUME NEW k \in Jobs, ~(job[k].status = "claimed" /\ \E b \in A : attempt[b].job = k)
        PROVE  job'[k] = job[k]
    BY <2>3, <2>5
  <2> QED
    BY <2>4, <2>5
<1> USE <1>2, <1>3, ConsistentParts
<1>7. OneActivePerSubmission'
  BY DEF OneActivePerSubmission
<1>8. ClaimAgrees'
  BY <1>1 DEF ClaimAgrees, OneActivePerSubmission
<1>9. NoJobStranded'
  BY DEF NoJobStranded
<1>10. TeardownBlocksReuse'
  BY <1>1 DEF TeardownBlocksReuse
<1>11. FenceCurrent'
  BY DEF FenceCurrent
<1>12. OneTerminalPerJob'
  BY <1>1 DEF OneTerminalPerJob
<1>13. PlacementAgrees'
  BY <1>1 DEF PlacementAgrees
<1>14. OneDebtPerSubmission'
  BY DEF OneDebtPerSubmission
<1>15. CancelHeld'
  BY <1>1 DEF CancelHeld
<1>16. CancelIsFinal'
  BY DEF CancelIsFinal, TypeOK
<1> QED
  BY <1>7, <1>8, <1>9, <1>10, <1>11, <1>12, <1>13, <1>14, <1>15, <1>16 DEF Consistent

-----------------------------------------------------------------------------
(* Teardown debts are paid or abandoned.                                   *)

LEMMA CompleteCleanupConsistent ==
  ASSUME TypeOK, Consistent, NEW s \in Sessions, NEW a \in Attempts, CompleteCleanup(s, a)
  PROVE  Consistent'
<1> DEFINE j == attempt[a].job
<1>1. \A b \in Attempts : attempt[b].status # "none" => attempt[b].job \in Jobs
  BY AttemptRefs
<1>2. /\ Pending(a) /\ attempt[a].status \in LostStatus /\ j \in Jobs
      /\ job[j].status = "running"
      /\ \A b \in Attempts : Active(b) => SubmissionFor(b) # SubmissionFor(a)
      /\ \A b \in Attempts : Pending(b) /\ SubmissionFor(b) = SubmissionFor(a) => a = b
  BY <1>1, ConsistentParts DEF CompleteCleanup, TeardownBlocksReuse, OneDebtPerSubmission
<1>3. /\ obligation'[a].status = "completed"
      /\ \A b \in Attempts \ {a} : obligation'[b] = obligation[b]
      /\ UNCHANGED <<attempt, submission, cancelled>>
  BY DEF CompleteCleanup, TypeOK, ObligationRow
<1>4. /\ \A k \in Jobs \ {j} : job'[k] = job[k]
      /\ IF obligation[a].requeue THEN job'[j].status = "queued"
                                  ELSE job'[j].status = "cancelled"
  BY <1>2 DEF CompleteCleanup, TypeOK, JobRow
<1> HIDE DEF j
<1>6. attempt[a].job = j
  BY DEF j
<1> USE <1>3, <1>4, <1>6, ConsistentParts
<1>7. OneActivePerSubmission'
  BY DEF OneActivePerSubmission
<1>8. ClaimAgrees'
  BY <1>1, <1>2 DEF ClaimAgrees
<1>9. NoJobStranded'
  BY <1>2 DEF NoJobStranded
<1>10. TeardownBlocksReuse'
  BY <1>1, <1>2 DEF TeardownBlocksReuse
<1>11. FenceCurrent'
  BY DEF FenceCurrent
<1>12. OneTerminalPerJob'
  BY <1>1, <1>2 DEF OneTerminalPerJob
<1>13. PlacementAgrees'
  BY <1>1, <1>2 DEF PlacementAgrees
<1>14. OneDebtPerSubmission'
  BY <1>2 DEF OneDebtPerSubmission
<1>15. CancelHeld'
  BY <1>1, <1>2 DEF CancelHeld
<1>16. CancelIsFinal'
  BY <1>2 DEF CancelHeld, CancelIsFinal, TypeOK
<1> QED
  BY <1>7, <1>8, <1>9, <1>10, <1>11, <1>12, <1>13, <1>14, <1>15, <1>16 DEF Consistent

LEMMA RecoverConsistent ==
  ASSUME TypeOK, Consistent, NEW b \in Submissions, NEW n \in Jobs,
         NEW target \in Workers \cup {None}, RecoverSubmission(b, n, target)
  PROVE  Consistent'
<1> DEFINE u == SubmissionOf[n]
           gone == DebtsOf(b)
<1>1. \A c \in Attempts : attempt[c].status # "none" =>
        /\ attempt[c].job \in Jobs
        /\ job[attempt[c].job].status # "none"
        /\ submission[SubmissionFor(c)].exists
  BY AttemptRefs, ConsistentParts DEF PlacementAgrees
<1>2. /\ ~submission[u].exists /\ u \in Submissions /\ u # b
      /\ \A c \in Attempts : Active(c) => SubmissionFor(c) # b
  BY StoreAssumption DEF RecoverSubmission
<1>3. /\ job[n].status = "none"
      /\ \A c \in Attempts : attempt[c].status # "none" => SubmissionFor(c) # u /\ attempt[c].job # n
  BY <1>1, <1>2, ConsistentParts DEF PlacementAgrees
<1>4. /\ job'[n].status = "queued"
      /\ \A k \in Jobs \ {n} :
           IF job[k].status = "running" /\ \E c \in gone : attempt[c].job = k
           THEN job'[k].status = "cancelled"
           ELSE job'[k] = job[k]
  <2>1. PICK first \in Jobs : job' = [k \in Jobs |->
               IF k = n
               THEN [status |-> "queued", claim |-> None, prepared |-> job[first].prepared]
               ELSE IF /\ job[k].status = "running"
                       /\ \E c \in DebtsOf(b) : attempt[c].job = k
               THEN [job[k] EXCEPT !.status = "cancelled"]
               ELSE job[k]]
    BY DEF RecoverSubmission
  <2>2. \A k \in Jobs : [job[k] EXCEPT !.status = "cancelled"].status = "cancelled"
    BY DEF TypeOK, JobRow
  <2> QED
    BY <2>1, <2>2
<1>5. /\ \A c \in gone : obligation'[c].status = "abandoned"
      /\ \A c \in Attempts \ gone : obligation'[c] = obligation[c]
      /\ UNCHANGED <<attempt, cancelled>>
  BY DEF RecoverSubmission, DebtsOf, TypeOK, ObligationRow
<1>6. /\ \A v \in Submissions \ {u} : submission'[v] = submission[v]
      /\ submission'[u].exists
  BY <1>2 DEF RecoverSubmission, TypeOK
<1>7. /\ gone \subseteq Attempts
      /\ \A c \in Attempts : c \in gone <=> Pending(c) /\ SubmissionFor(c) = b
  BY DEF DebtsOf
<1>8. \A c \in Attempts : Pending(c) => attempt[c].status \in LostStatus
  BY ConsistentParts DEF TeardownBlocksReuse
<1>9. \A c \in Attempts : attempt[c].status # "none" => SubmissionFor(c) \in Submissions
  BY AttemptRefs
<1> HIDE DEF u, gone
<1>a. u = SubmissionOf[n]
  BY DEF u
<1> USE <1>3, <1>4, <1>5, <1>6, ConsistentParts
<1>b. ASSUME NEW c \in Attempts, Active(c) \/ (Pending(c) /\ c \notin gone)
      PROVE  job'[attempt[c].job] = job[attempt[c].job]
  <2>1. attempt[c].status # "none" /\ SubmissionOf[attempt[c].job] # b
    BY <1>2, <1>7, <1>8, <1>b
  <2>2. ~ \E d \in gone : attempt[d].job = attempt[c].job
    BY <2>1, <1>7
  <2>3. attempt[c].job \in Jobs \ {n}
    BY <2>1, <1>1
  <2> QED
    BY <2>2, <2>3
<1>10. OneActivePerSubmission'
  BY DEF OneActivePerSubmission
<1>11. ClaimAgrees'
  BY <1>b DEF ClaimAgrees
<1>12. NoJobStranded'
  BY <1>7, <1>8 DEF NoJobStranded
<1>13. TeardownBlocksReuse'
  BY <1>b DEF TeardownBlocksReuse
<1>14. FenceCurrent'
  BY <1>9 DEF FenceCurrent
<1>15. OneTerminalPerJob'
  BY <1>1 DEF OneTerminalPerJob
<1>16. PlacementAgrees'
  BY <1>1, <1>9, <1>a, StoreAssumption DEF PlacementAgrees
<1>17. OneDebtPerSubmission'
  BY <1>7, <1>8, <1>9 DEF OneDebtPerSubmission
<1>18. CancelHeld'
  BY <1>b, <1>7 DEF CancelHeld
<1>19. CancelIsFinal'
  BY DEF CancelIsFinal, TypeOK
<1> QED
  BY <1>10, <1>11, <1>12, <1>13, <1>14, <1>15, <1>16, <1>17, <1>18, <1>19 DEF Consistent

-----------------------------------------------------------------------------
(* Jobs are cancelled or failed.                                           *)

LEMMA FailQueuedConsistent ==
  ASSUME TypeOK, Consistent, NEW j \in Jobs, FailQueuedJob(j)  PROVE Consistent'
<1>1. \A b \in Attempts : attempt[b].status # "none" => attempt[b].job \in Jobs
  BY AttemptRefs
<1>2. /\ job[j].status = "queued" /\ job'[j].status = "failed"
      /\ \A k \in Jobs \ {j} : job'[k] = job[k]
      /\ UNCHANGED <<attempt, submission, obligation, cancelled>>
  BY DEF FailQueuedJob, TypeOK, JobRow
<1> USE <1>2, ConsistentParts
<1>3. OneActivePerSubmission' /\ ClaimAgrees' /\ NoJobStranded'
  BY <1>1 DEF OneActivePerSubmission, ClaimAgrees, NoJobStranded
<1>4. TeardownBlocksReuse' /\ FenceCurrent'
  BY <1>1 DEF TeardownBlocksReuse, FenceCurrent
<1>5. OneTerminalPerJob' /\ PlacementAgrees'
  BY <1>1 DEF OneTerminalPerJob, PlacementAgrees
<1>6. OneDebtPerSubmission' /\ CancelHeld' /\ CancelIsFinal'
  BY DEF OneDebtPerSubmission, CancelHeld, CancelIsFinal, TypeOK
<1> QED
  BY <1>3, <1>4, <1>5, <1>6 DEF Consistent

\* What cancelling does to the jobs and debts it is let at.
LEMMA CancelUnstartedEffect ==
  ASSUME TypeOK, Consistent, NEW J \in SUBSET Jobs, CancelUnstarted(J)
  PROVE  /\ \A k \in Jobs :
              IF k \in J /\ job[k].status \in {"queued", "claimed"}
              THEN job'[k].status = "cancelled" /\ job'[k].claim = None
              ELSE job'[k] = job[k]
         /\ \A b \in Attempts :
              /\ obligation'[b].status = obligation[b].status
              /\ obligation'[b].requeue => obligation[b].requeue
              /\ Pending(b) /\ attempt[b].job \in J => ~obligation'[b].requeue
<1>1. \A k \in Jobs : k \in Unstarted(J) <=> k \in J /\ job[k].status \in {"queued", "claimed"}
  BY DEF Unstarted
<1>2. \A k \in Jobs :
        /\ [job[k] EXCEPT !.status = "cancelled", !.claim = None].status = "cancelled"
        /\ [job[k] EXCEPT !.status = "cancelled", !.claim = None].claim = None
  BY DEF TypeOK, JobRow
<1>3. \A k \in Jobs : job'[k] = IF k \in Unstarted(J)
        THEN [job[k] EXCEPT !.status = "cancelled", !.claim = None] ELSE job[k]
  BY DEF CancelUnstarted
<1>4. ASSUME NEW b \in Attempts, Pending(b), attempt[b].job \in J
      PROVE  attempt[b].job \in TeardownOwed(J)
  BY <1>4, ConsistentParts DEF TeardownOwed, TeardownBlocksReuse
<1>5. \A b \in Attempts : obligation'[b] =
        IF Pending(b) /\ attempt[b].job \in TeardownOwed(J)
        THEN [obligation[b] EXCEPT !.requeue = FALSE] ELSE obligation[b]
  BY DEF CancelUnstarted
<1>6. \A b \in Attempts : /\ [obligation[b] EXCEPT !.requeue = FALSE].status = obligation[b].status
                         /\ ~[obligation[b] EXCEPT !.requeue = FALSE].requeue
  BY DEF TypeOK, ObligationRow
<1>7. \A k \in Jobs :
        IF k \in J /\ job[k].status \in {"queued", "claimed"}
        THEN job'[k].status = "cancelled" /\ job'[k].claim = None
        ELSE job'[k] = job[k]
  BY <1>1, <1>2, <1>3
<1>8. \A b \in Attempts :
        /\ obligation'[b].status = obligation[b].status
        /\ obligation'[b].requeue => obligation[b].requeue
        /\ Pending(b) /\ attempt[b].job \in J => ~obligation'[b].requeue
  BY <1>4, <1>5, <1>6
<1> QED
  BY <1>7, <1>8

LEMMA CancelJobsConsistent ==
  ASSUME TypeOK, Consistent, NEW J \in SUBSET Jobs, CancelJobs(J)  PROVE Consistent'
<1> DEFINE rest == J \ StopRequested(J)
<1>1. \A b \in Attempts : attempt[b].status # "none" => attempt[b].job \in Jobs
  BY AttemptRefs
<1>2. \A b \in Attempts :
        /\ attempt'[b].status =
             IF Active(b) /\ attempt[b].job \in J
             THEN IF Started(b) THEN "cancel_requested" ELSE "fenced"
             ELSE attempt[b].status
        /\ attempt'[b].job = attempt[b].job
        /\ attempt'[b].session = attempt[b].session
        /\ attempt'[b].fence = attempt[b].fence
        /\ attempt'[b].profile = attempt[b].profile
  BY DEF CancelJobs, TypeOK, AttemptRow
<1>0. \A k \in StopRequested(J) : k \in J /\ job[k].status = "running"
  BY ConsistentParts DEF StopRequested, ClaimAgrees
<1>e. rest \in SUBSET Jobs /\ CancelUnstarted(rest)
  BY DEF CancelJobs
<1> HIDE DEF rest
<1>f. /\ \A k \in Jobs :
           IF k \in rest /\ job[k].status \in {"queued", "claimed"}
           THEN job'[k].status = "cancelled" /\ job'[k].claim = None
           ELSE job'[k] = job[k]
      /\ \A b \in Attempts :
           /\ obligation'[b].status = obligation[b].status
           /\ obligation'[b].requeue => obligation[b].requeue
           /\ Pending(b) /\ attempt[b].job \in rest => ~obligation'[b].requeue
  BY <1>e, CancelUnstartedEffect
<1>3. \A k \in Jobs :
        IF k \in J /\ job[k].status \in {"queued", "claimed"}
        THEN job'[k].status = "cancelled" /\ job'[k].claim = None
        ELSE job'[k] = job[k]
  BY <1>f, <1>0 DEF rest
<1>4. \A b \in Attempts :
        /\ obligation'[b].status = obligation[b].status
        /\ obligation'[b].requeue => obligation[b].requeue
        /\ Pending(b) /\ attempt[b].job \in J => ~obligation'[b].requeue
  <2>1. ASSUME NEW b \in Attempts, Pending(b), attempt[b].job \in J
        PROVE  attempt[b].job \in rest
    BY <2>1, ConsistentParts DEF StopRequested, TeardownBlocksReuse, rest
  <2> QED
    BY <2>1, <1>f
<1>5. /\ \A k \in cancelled' :
           \/ k \in cancelled
           \/ k \in J /\ job[k].status \in {"queued", "claimed", "running"}
      /\ cancelled' \subseteq Jobs
      /\ submission' = submission
  <2>2. \A k \in TeardownOwed(rest) : k \in J /\ job[k].status = "running"
    BY DEF TeardownOwed, rest
  <2>3. \A k \in Unstarted(rest) : k \in J /\ job[k].status \in {"queued", "claimed"}
    BY DEF Unstarted, rest
  <2>4. /\ cancelled' = cancelled \cup StopRequested(J) \cup TeardownOwed(rest) \cup Unstarted(rest)
        /\ submission' = submission
    BY DEF CancelJobs, rest
  <2> QED
    BY <1>0, <2>2, <2>3, <2>4 DEF TypeOK
<1> USE <1>2, <1>3, ConsistentParts
<1>7. OneActivePerSubmission'
  BY DEF OneActivePerSubmission
<1>8. ClaimAgrees'
  BY <1>1 DEF ClaimAgrees
<1>9. NoJobStranded'
  BY <1>4 DEF NoJobStranded
<1>10. TeardownBlocksReuse'
  BY <1>1, <1>4 DEF TeardownBlocksReuse
<1>11. FenceCurrent'
  BY <1>5 DEF FenceCurrent
<1>12. OneTerminalPerJob'
  BY <1>1 DEF OneTerminalPerJob
<1>13. PlacementAgrees'
  BY <1>1, <1>5 DEF PlacementAgrees
<1>14. OneDebtPerSubmission'
  BY <1>4, <1>5 DEF OneDebtPerSubmission
<1>15. CancelHeld'
  BY <1>1, <1>4, <1>5 DEF CancelHeld, ClaimAgrees
<1>16. CancelIsFinal'
  BY <1>5 DEF CancelIsFinal, TypeOK
<1> QED
  BY <1>7, <1>8, <1>9, <1>10, <1>11, <1>12, <1>13, <1>14, <1>15, <1>16 DEF Consistent

\* The second half of a cancellation, whatever a poll did after the first.
LEMMA CancelDecidesConsistent ==
  ASSUME TypeOK, Consistent, NEW j \in Jobs, CancelDecides(j)  PROVE Consistent'
<1>1. \A b \in Attempts : attempt[b].status # "none" => attempt[b].job \in Jobs
  BY AttemptRefs
<1>2. UNCHANGED <<attempt, submission>> /\ CancelUnstarted({j})
  BY DEF CancelDecides
<1>3. /\ \A k \in Jobs :
           IF k = j /\ job[k].status \in {"queued", "claimed"}
           THEN job'[k].status = "cancelled" /\ job'[k].claim = None
           ELSE job'[k] = job[k]
      /\ \A b \in Attempts :
           /\ obligation'[b].status = obligation[b].status
           /\ obligation'[b].requeue => obligation[b].requeue
           /\ Pending(b) /\ attempt[b].job = j => ~obligation'[b].requeue
  BY <1>2, CancelUnstartedEffect
<1>4. /\ \A k \in cancelled' : k \in cancelled \/ k = j
      /\ j \in cancelled' \ cancelled =>
           \/ job[j].status \in {"queued", "claimed", "cancelled"}
           \/ job[j].status = "running" /\ \E a \in Attempts : Pending(a) /\ attempt[a].job = j
      /\ cancelled' \subseteq Jobs
  BY DEF CancelDecides, TeardownOwed, Unstarted, TypeOK
<1> USE <1>2, <1>3, ConsistentParts
<1>7. OneActivePerSubmission'
  BY DEF OneActivePerSubmission
<1>8. ClaimAgrees'
  BY <1>1 DEF ClaimAgrees
<1>9. NoJobStranded'
  BY DEF NoJobStranded
<1>10. TeardownBlocksReuse'
  BY <1>1 DEF TeardownBlocksReuse
<1>11. FenceCurrent'
  BY DEF FenceCurrent
<1>12. OneTerminalPerJob'
  BY <1>1 DEF OneTerminalPerJob
<1>13. PlacementAgrees'
  BY <1>1 DEF PlacementAgrees
<1>14. OneDebtPerSubmission'
  BY DEF OneDebtPerSubmission
<1>15. CancelHeld'
  <2> SUFFICES ASSUME NEW a \in Attempts, attempt[a].status # "none", attempt[a].job \in cancelled'
               PROVE  /\ Active(a) => attempt[a].status = "cancel_requested" \/ Overtaken(a)'
                      /\ Pending(a) => ~obligation'[a].requeue
    BY DEF CancelHeld
  <2>1. CASE attempt[a].job \in cancelled
    BY <2>1, <1>1 DEF CancelHeld, CancelIsFinal
  <2>2. CASE attempt[a].job \notin cancelled
    <3>1. attempt[a].job = j
      BY <2>2, <1>4
    <3>2. Pending(a) => ~obligation'[a].requeue
      BY <3>1
    <3>3. CASE job[j].status \in {"queued", "claimed", "cancelled"}
      BY <3>1, <3>2, <3>3, <1>1 DEF ClaimAgrees
    <3>4. CASE job[j].status = "running" /\ \E b \in Attempts : Pending(b) /\ attempt[b].job = j
      BY <3>1, <3>2, <3>4 DEF TeardownBlocksReuse
    <3> QED
      BY <2>2, <3>1, <3>3, <3>4, <1>4
  <2> QED
    BY <2>1, <2>2
<1>16. CancelIsFinal'
  BY <1>4 DEF CancelIsFinal, TypeOK
<1> QED
  BY <1>7, <1>8, <1>9, <1>10, <1>11, <1>12, <1>13, <1>14, <1>15, <1>16 DEF Consistent

-----------------------------------------------------------------------------
(* Every step.                                                             *)

LEMMA FrameSteps ==
  ASSUME TypeOK,
         \/ \E s \in Sessions : \/ RegisterExisting(s) \/ DeregisterSession(s)
                                \/ PollDraining(s) \/ PollIdle(s) \/ SessionDeadline(s)
         \/ \E a \in Attempts : \/ OfferedAssignment(a) \/ HeartbeatAttempt(a)
                                \/ AttemptDeadline(a)
         \/ \E j \in Jobs : PrepareExecution(j) \/ CancelLooksUp(j) \/ CancelGivesUp(j)
         \/ \E w \in Workers : \/ EmergencyDisableWorker(w)
                               \/ \E policy \in Policies : UpdateWorker(w, policy)
         \/ \E revision \in Floors : ChangeProtocolPolicy(revision)
         \/ UNCHANGED vars
  PROVE  StoreFrame
<1>1. ASSUME UNCHANGED <<attempt, job, submission, obligation, cancelled>>
      PROVE  StoreFrame
  BY <1>1 DEF StoreFrame
<1>2. ASSUME NEW a \in Attempts, AttemptDeadline(a)  PROVE StoreFrame
  BY <1>2 DEF AttemptDeadline, StoreFrame, TypeOK, AttemptRow
<1>3. ASSUME NEW w \in Workers, EmergencyDisableWorker(w)  PROVE StoreFrame
  BY <1>3, ZenonT(40) DEF EmergencyDisableWorker, StoreFrame, TypeOK, AttemptRow
<1>4. ASSUME NEW j \in Jobs, PrepareExecution(j)  PROVE StoreFrame
  BY <1>4 DEF PrepareExecution, StoreFrame, TypeOK, JobRow
<1> QED
  BY <1>1, <1>2, <1>3, <1>4 DEF RegisterExisting, DeregisterSession, PollDraining, PollIdle,
     SessionDeadline, OfferedAssignment, HeartbeatAttempt, UpdateWorker,
     ChangeProtocolPolicy, CancelLooksUp, CancelGivesUp, vars

LEMMA SchedulerConsistent ==
  ASSUME TypeOK, Consistent, NEW paused \in BOOLEAN, ChangeScheduler(paused)
  PROVE  Consistent'
<1>1. CASE ~paused
  BY <1>1, FrameConsistent DEF ChangeScheduler, StoreFrame
<1>2. CASE paused
  BY <1>2, WithdrawConsistent DEF ChangeScheduler, OffersIn
<1> QED
  BY <1>1, <1>2

LEMMA LifecycleConsistent ==
  ASSUME TypeOK, Consistent, NEW w \in Workers, NEW action, NEW target,
         ChangeWorkerLifecycle(w, action, target)
  PROVE  Consistent'
<1>1. CASE action = "uncordon"
  <2>1. StoreFrame
    BY <1>1 DEF ChangeWorkerLifecycle, StoreFrame
  <2> QED
    BY <2>1, FrameConsistent
<1>2. CASE action # "uncordon"
  <2>1. /\ WithdrawOffers(OffersIn(ActiveOf(w)))
        /\ UNCHANGED <<submission, obligation, cancelled>>
    BY <1>2 DEF ChangeWorkerLifecycle
  <2>2. /\ OffersIn(ActiveOf(w)) \in SUBSET Attempts
        /\ \A a \in OffersIn(ActiveOf(w)) : attempt[a].status = "offered"
    BY DEF OffersIn, ActiveOf
  <2> QED
    BY <2>1, <2>2, WithdrawConsistent
<1> QED
  BY <1>1, <1>2

LEMMA LossSteps ==
  ASSUME TypeOK, Consistent,
         \/ \E s \in Sessions : RegisterSuccessor(s)
         \/ \E A \in SUBSET Attempts : ExpireStaleAttempts(A)
  PROVE  Consistent'
<1>1. ASSUME NEW s \in Sessions, RegisterSuccessor(s)  PROVE Consistent'
  <2>1. /\ ActiveOf(WorkerOf[s]) \in SUBSET Attempts
        /\ \A a \in ActiveOf(WorkerOf[s]) : Active(a)
    BY DEF ActiveOf
  <2> QED
    BY <1>1, <2>1, LoseAttemptsConsistent DEF RegisterSuccessor
<1>2. ASSUME NEW A \in SUBSET Attempts, ExpireStaleAttempts(A)  PROVE Consistent'
  BY <1>2, LoseAttemptsConsistent DEF ExpireStaleAttempts, Stale
<1> QED
  BY <1>1, <1>2

LEMMA NextConsistent ==
  ASSUME TypeOK, Consistent, [Next]_vars  PROVE Consistent'
<1> USE FrameSteps, FrameConsistent
<1>1. CASE SessionStep
  <2>1. PICK s \in Sessions :
           \/ RegisterSuccessor(s) \/ RegisterExisting(s) \/ DeregisterSession(s)
           \/ PollDraining(s) \/ PollIdle(s) \/ SessionDeadline(s)
           \/ \E j \in Jobs, a \in Attempts : PollClaim(s, j, a)
           \/ \E a \in Attempts : CompleteCleanup(s, a)
    BY <1>1 DEF SessionStep
  <2> QED
    BY <2>1, LossSteps, PollClaimConsistent, CompleteCleanupConsistent
<1>2. CASE AttemptStep
  BY <1>2, LossSteps, AcceptOfferConsistent, AcceptTerminalConsistent DEF AttemptStep
<1>3. CASE JobStep
  <2>1. ASSUME NEW j \in Jobs, RequestCancel(j)  PROVE Consistent'
    BY <2>1, CancelJobsConsistent DEF RequestCancel
  <2> QED
    BY <1>3, <2>1, CancelDecidesConsistent, FailQueuedConsistent, RecoverConsistent DEF JobStep
<1>4. CASE OperatorStep
  <2>1. ASSUME NEW scope \in AbortScopes, AbortFleet(scope)  PROVE Consistent'
    BY <2>1, CancelJobsConsistent DEF AbortFleet
  <2> QED
    BY <1>4, <2>1, SchedulerConsistent, LifecycleConsistent DEF OperatorStep
<1>5. CASE UNCHANGED vars
  BY <1>5
<1> QED
  BY <1>1, <1>2, <1>3, <1>4, <1>5 DEF Next

\* Jobs, attempts, fences, placements and teardown debts stay consistent with
\* each other under every interleaving of the store's transactions.
THEOREM ConsistentAlways == Spec => []Consistent
<1>1. Init => Consistent
  BY InitConsistent
<1>2. TypeOK /\ Consistent /\ [Next]_vars => Consistent'
  BY NextConsistent
<1> QED
  BY <1>1, <1>2, TypeCorrect, PTL DEF Spec

-----------------------------------------------------------------------------
(* Properties that Consistent implies.                                     *)

\* poll_offer's candidate query, the sweep and the withdrawals never leave two
\* active attempts in a submission.
THEOREM OneActive == Spec => []OneActivePerSubmission
<1>1. Consistent => OneActivePerSubmission
  BY DEF Consistent
<1> QED
  BY <1>1, ConsistentAlways, PTL

\* A claim and the attempt that holds it name each other.
THEOREM ClaimsAgree == Spec => []ClaimAgrees
<1>1. Consistent => ClaimAgrees
  BY DEF Consistent
<1> QED
  BY <1>1, ConsistentAlways, PTL

\* A job has at most one accepted terminal, over all its attempts.
THEOREM OneTerminal == Spec => []OneTerminalPerJob
<1>1. Consistent => OneTerminalPerJob
  BY DEF Consistent
<1> QED
  BY <1>1, ConsistentAlways, PTL

\* An accepted cancellation is final.
THEOREM CancelFinal == Spec => []CancelIsFinal
<1>1. Consistent => CancelIsFinal
  BY DEF Consistent
<1> QED
  BY <1>1, ConsistentAlways, PTL

\* No claimed job without its offer, no running job without an attempt or a
\* teardown debt.
THEOREM NoneStranded == Spec => []NoJobStranded
<1>1. Consistent => NoJobStranded
  BY DEF Consistent
<1> QED
  BY <1>1, ConsistentAlways, PTL

\* An unresolved teardown keeps its submission from being offered anywhere.
THEOREM TeardownBlocks == Spec => []TeardownBlocksReuse
<1>1. Consistent => TeardownBlocksReuse
  BY DEF Consistent
<1> QED
  BY <1>1, ConsistentAlways, PTL

\* Fences are unique in a submission and an active attempt holds the newest.
THEOREM FencesCurrent == Spec => []FenceCurrent
<1>1. Consistent => FenceCurrent
  BY DEF Consistent
<1> QED
  BY <1>1, ConsistentAlways, PTL

\* All benchmark attempts of a submission ran on one worker under one profile.
THEOREM RunsComparable == Spec => []ComparableRuns
<1>1. Consistent => ComparableRuns
  BY DEF Consistent, PlacementAgrees, ComparableRuns
<1> QED
  BY <1>1, ConsistentAlways, PTL

-----------------------------------------------------------------------------
(* What a step does to attempts.                                           *)

\* No attempt becomes active or offered, none that ended comes back.
AttemptsWane ==
    \A a \in Attempts :
       /\ Active(a)' => Active(a) /\ attempt'[a].session = attempt[a].session
       /\ attempt'[a].status = "offered" =>
            attempt[a].status = "offered" /\ attempt'[a].generation = attempt[a].generation
       /\ attempt[a].status \in LostStatus \cup TerminalStatus =>
            attempt'[a].status = attempt[a].status

LEMMA LossWanes ==
  ASSUME TypeOK, NEW A \in SUBSET Attempts, \A a \in A : Active(a),
         NEW status \in LostStatus, attempt' = WithStatus(A, status)
  PROVE  AttemptsWane
  BY DEF WithStatus, TypeOK, AttemptRow, AttemptsWane

LEMMA CancelWanes ==
  ASSUME TypeOK, NEW J \in SUBSET Jobs, CancelJobs(J)  PROVE AttemptsWane
  BY DEF CancelJobs, TypeOK, AttemptRow, AttemptsWane

LEMMA LifecycleWanes ==
  ASSUME TypeOK, NEW w \in Workers, NEW action, NEW target,
         ChangeWorkerLifecycle(w, action, target)
  PROVE  AttemptsWane
<1>1. CASE action = "uncordon"
  <2>1. attempt' = attempt
    BY <1>1 DEF ChangeWorkerLifecycle
  <2> QED
    BY <2>1 DEF AttemptsWane
<1>2. CASE action # "uncordon"
  <2>1. attempt' = WithStatus(OffersIn(ActiveOf(w)), "expired")
    BY <1>2 DEF ChangeWorkerLifecycle, WithdrawOffers
  <2> QED
    BY <2>1, LossWanes DEF OffersIn, ActiveOf
<1> QED
  BY <1>1, <1>2

LEMMA SchedulerWanes ==
  ASSUME TypeOK, NEW paused \in BOOLEAN, ChangeScheduler(paused)
  PROVE  /\ AttemptsWane
         /\ paused => \A a \in Attempts : attempt'[a].status # "offered"
         /\ scheduler' = [paused |-> paused, generation |-> scheduler.generation + 1]
         /\ paused # scheduler.paused
<1>1. CASE ~paused
  BY <1>1 DEF ChangeScheduler, AttemptsWane
<1>2. CASE paused
  <2>1. attempt' = WithStatus(OffersIn(Attempts), "expired")
    BY <1>2 DEF ChangeScheduler, WithdrawOffers
  <2>2. AttemptsWane
    BY <2>1, LossWanes DEF OffersIn
  <2>3. \A a \in Attempts : attempt'[a].status # "offered"
    BY <2>1 DEF WithStatus, OffersIn, TypeOK, AttemptRow
  <2> QED
    BY <2>2, <2>3 DEF ChangeScheduler
<1> QED
  BY <1>1, <1>2

\* Every step but an offer, a pause or resume and a protocol change.
LEMMA StepWanes ==
  ASSUME TypeOK, [Next]_vars
  PROVE  \/ \E s \in Sessions, j \in Jobs, a \in Attempts : PollClaim(s, j, a)
         \/ \E paused \in BOOLEAN : ChangeScheduler(paused)
         \/ \E revision \in Floors : ChangeProtocolPolicy(revision)
         \/ AttemptsWane /\ UNCHANGED <<scheduler, floor>>
<1>1. ASSUME UNCHANGED <<attempt, scheduler, floor>>
      PROVE  AttemptsWane /\ UNCHANGED <<scheduler, floor>>
  BY <1>1 DEF AttemptsWane
<1>2. ASSUME NEW s \in Sessions, RegisterSuccessor(s)
      PROVE  AttemptsWane /\ UNCHANGED <<scheduler, floor>>
  BY <1>2, LossWanes DEF RegisterSuccessor, LoseAttempts, ActiveOf
<1>3. ASSUME NEW A \in SUBSET Attempts, ExpireStaleAttempts(A)
      PROVE  AttemptsWane /\ UNCHANGED <<scheduler, floor>>
  BY <1>3, LossWanes DEF ExpireStaleAttempts, LoseAttempts, Stale
<1>4. ASSUME NEW a \in Attempts, AcceptOffer(a)
      PROVE  AttemptsWane /\ UNCHANGED <<scheduler, floor>>
  BY <1>4 DEF AcceptOffer, TypeOK, AttemptRow, AttemptsWane
<1>5. ASSUME NEW a \in Attempts, NEW outcome \in TerminalStatus, AcceptTerminal(a, outcome)
      PROVE  AttemptsWane /\ UNCHANGED <<scheduler, floor>>
  BY <1>5 DEF AcceptTerminal, TerminalAcceptable, TypeOK, AttemptRow, AttemptsWane
<1>6. ASSUME NEW a \in Attempts, AttemptDeadline(a)
      PROVE  AttemptsWane /\ UNCHANGED <<scheduler, floor>>
  BY <1>6 DEF AttemptDeadline, TypeOK, AttemptRow, AttemptsWane
<1>7. ASSUME NEW w \in Workers, EmergencyDisableWorker(w)
      PROVE  AttemptsWane /\ UNCHANGED <<scheduler, floor>>
  BY <1>7 DEF EmergencyDisableWorker, TypeOK, AttemptRow, AttemptsWane
<1>8. ASSUME NEW J \in SUBSET Jobs, CancelJobs(J)
      PROVE  AttemptsWane /\ UNCHANGED <<scheduler, floor>>
  BY <1>8, CancelWanes DEF CancelJobs
<1>9. ASSUME NEW w \in Workers, NEW action, NEW target, ChangeWorkerLifecycle(w, action, target)
      PROVE  AttemptsWane /\ UNCHANGED <<scheduler, floor>>
  BY <1>9, LifecycleWanes DEF ChangeWorkerLifecycle
<1>10. CASE SessionStep
  BY <1>10, <1>1, <1>2 DEF SessionStep, RegisterExisting, DeregisterSession, PollDraining,
     PollIdle, SessionDeadline, CompleteCleanup
<1>11. CASE AttemptStep
  BY <1>11, <1>1, <1>3, <1>4, <1>5, <1>6 DEF AttemptStep, OfferedAssignment, HeartbeatAttempt
<1>12. CASE JobStep
  BY <1>12, <1>1, <1>8 DEF JobStep, PrepareExecution, FailQueuedJob, RequestCancel,
     CancelLooksUp, CancelDecides, CancelGivesUp, RecoverSubmission
<1>13. CASE OperatorStep
  <2>1. ASSUME NEW scope \in AbortScopes, AbortFleet(scope)
        PROVE  AttemptsWane /\ UNCHANGED <<scheduler, floor>>
    BY <2>1, <1>8 DEF AbortFleet
  <2> QED
    BY <1>13, <2>1, <1>1, <1>7, <1>9 DEF OperatorStep, UpdateWorker
<1>14. CASE UNCHANGED vars
  BY <1>14, <1>1 DEF vars
<1> QED
  BY <1>10, <1>11, <1>12, <1>13, <1>14 DEF Next

LEMMA PollClaimEffect ==
  ASSUME TypeOK, NEW s \in Sessions, NEW j \in Jobs, NEW a \in Attempts, PollClaim(s, j, a)
  PROVE  /\ attempt[a].status = "none"
         /\ attempt'[a].status = "offered" /\ attempt'[a].session = s
         /\ attempt'[a].generation = scheduler.generation
         /\ \A b \in Attempts \ {a} : attempt'[b] = attempt[b]
         /\ ~scheduler.paused
         /\ Revision[s] >= floor
         /\ UNCHANGED <<scheduler, floor>>
  BY DEF PollClaim, PollOpen, PollAdmitted, Admitted, TypeOK

\* The store never revives an attempt that was lost or has its terminal.
THEOREM NeverRevived == Spec => AttemptNeverRevived
<1> DEFINE Kept == \A a \in Attempts : attempt[a].status \in LostStatus \cup TerminalStatus =>
                      attempt'[a].status = attempt[a].status
<1>1. ASSUME TypeOK, [Next]_vars  PROVE Kept
  <2>1. ASSUME NEW s \in Sessions, NEW j \in Jobs, NEW a \in Attempts, PollClaim(s, j, a)
        PROVE  Kept
    BY <1>1, <2>1, PollClaimEffect
  <2>2. ASSUME NEW paused \in BOOLEAN, ChangeScheduler(paused)  PROVE Kept
    BY <1>1, <2>2, SchedulerWanes DEF AttemptsWane
  <2>3. ASSUME NEW revision \in Floors, ChangeProtocolPolicy(revision)  PROVE Kept
    BY <2>3 DEF ChangeProtocolPolicy
  <2> QED
    BY <1>1, <2>1, <2>2, <2>3, StepWanes DEF AttemptsWane
<1>2. TypeOK /\ [Next]_vars => [Kept]_vars
  BY <1>1
<1> QED
  BY <1>2, TypeCorrect, PTL DEF Spec, AttemptNeverRevived

\* A pause withdraws every offer, so an offer that may still be accepted was
\* made in the scheduler generation in force.
THEOREM NoOfferAcrossPause == Spec => []OffersOfThisGeneration
<1>1. Init => OffersOfThisGeneration
  BY DEF Init, OffersOfThisGeneration
<1>2. ASSUME TypeOK, OffersOfThisGeneration, [Next]_vars  PROVE OffersOfThisGeneration'
  <2>1. ASSUME NEW s \in Sessions, NEW j \in Jobs, NEW a \in Attempts, PollClaim(s, j, a)
        PROVE  OffersOfThisGeneration'
    BY <1>2, <2>1, PollClaimEffect DEF OffersOfThisGeneration
  <2>2. ASSUME NEW paused \in BOOLEAN, ChangeScheduler(paused)
        PROVE  OffersOfThisGeneration'
    <3>1. \A a \in Attempts : attempt'[a].status # "offered"
      <4>1. CASE paused
        BY <1>2, <2>2, <4>1, SchedulerWanes
      <4>2. CASE ~paused
        <5>1. scheduler.paused \in BOOLEAN
          BY <1>2 DEF TypeOK
        <5>2. scheduler.paused
          BY <1>2, <2>2, <4>2, <5>1, SchedulerWanes, Zenon
        <5> QED
          BY <1>2, <2>2, <5>2, SchedulerWanes DEF OffersOfThisGeneration, AttemptsWane
      <4> QED
        BY <4>1, <4>2
    <3> QED
      BY <3>1 DEF OffersOfThisGeneration
  <2>3. ASSUME NEW revision \in Floors, ChangeProtocolPolicy(revision)
        PROVE  OffersOfThisGeneration'
    BY <1>2, <2>3 DEF ChangeProtocolPolicy, OffersOfThisGeneration
  <2> QED
    BY <1>2, <2>1, <2>2, <2>3, StepWanes DEF OffersOfThisGeneration, AttemptsWane
<1> QED
  BY <1>1, <1>2, TypeCorrect, PTL DEF Spec

\* The protocol floor moves only over an empty fleet, so no active attempt is
\* ever below it.
THEOREM FloorAlways == Spec => []FloorHolds
<1>1. Init => FloorHolds
  BY DEF Init, FloorHolds
<1>2. ASSUME TypeOK, FloorHolds, [Next]_vars  PROVE FloorHolds'
  <2>1. ASSUME NEW s \in Sessions, NEW j \in Jobs, NEW a \in Attempts, PollClaim(s, j, a)
        PROVE  FloorHolds'
    BY <1>2, <2>1, PollClaimEffect DEF FloorHolds
  <2>2. ASSUME NEW paused \in BOOLEAN, ChangeScheduler(paused)  PROVE FloorHolds'
    BY <1>2, <2>2, SchedulerWanes DEF FloorHolds, AttemptsWane, ChangeScheduler
  <2>3. ASSUME NEW revision \in Floors, ChangeProtocolPolicy(revision)  PROVE FloorHolds'
    BY <1>2, <2>3 DEF ChangeProtocolPolicy, FloorHolds
  <2> QED
    BY <1>2, <2>1, <2>2, <2>3, StepWanes DEF FloorHolds, AttemptsWane
<1> QED
  BY <1>1, <1>2, TypeCorrect, PTL DEF Spec

-----------------------------------------------------------------------------
(* What a step does to jobs.                                               *)

\* A settled job stays as it is and started work is not requeued.
JobsMove ==
    \A j \in Jobs :
       /\ job[j].status \in TerminalStatus => job'[j].status = job[j].status
       /\ job[j].status = "running" => job'[j].status # "queued"

LEMMA ReleaseMoves ==
  ASSUME TypeOK, NEW A \in SUBSET Attempts,
         job' = ReleaseOffered(A) \/ job' = ReleaseClaimed(A)
  PROVE  JobsMove
<1>1. CASE job' = ReleaseOffered(A)
  BY <1>1 DEF ReleaseOffered, JobsMove
<1>2. CASE job' = ReleaseClaimed(A)
  BY <1>2 DEF ReleaseClaimed, JobsMove
<1> QED
  BY <1>1, <1>2

LEMMA OneJobMoves ==
  ASSUME TypeOK, NEW k \in Jobs, job[k].status \notin TerminalStatus,
         job'[k].status # "queued" \/ job[k].status # "running",
         \A j \in Jobs \ {k} : job'[j] = job[j]
  PROVE  JobsMove
  BY DEF JobsMove

LEMMA CancelMoves ==
  ASSUME TypeOK, NEW J \in SUBSET Jobs, CancelUnstarted(J)  PROVE JobsMove
<1>1. \A j \in Jobs : job'[j] = IF j \in Unstarted(J)
        THEN [job[j] EXCEPT !.status = "cancelled", !.claim = None] ELSE job[j]
  BY DEF CancelUnstarted
<1> QED
  BY <1>1 DEF Unstarted, JobsMove, TypeOK, JobRow

LEMMA RecoverMoves ==
  ASSUME TypeOK, Consistent, NEW b \in Submissions, NEW n \in Jobs,
         NEW target \in Workers \cup {None}, RecoverSubmission(b, n, target)
  PROVE  JobsMove
<1>1. job[n].status = "none"
  BY ConsistentParts DEF RecoverSubmission, PlacementAgrees
<1>2. PICK first \in Jobs : job' = [k \in Jobs |->
             IF k = n
             THEN [status |-> "queued", claim |-> None, prepared |-> job[first].prepared]
             ELSE IF /\ job[k].status = "running"
                     /\ \E c \in DebtsOf(b) : attempt[c].job = k
             THEN [job[k] EXCEPT !.status = "cancelled"]
             ELSE job[k]]
  BY DEF RecoverSubmission
<1>3. \A k \in Jobs : [job[k] EXCEPT !.status = "cancelled"].status = "cancelled"
  BY DEF TypeOK, JobRow
<1> QED
  BY <1>1, <1>2, <1>3 DEF JobsMove

\* Every step but a cleanup acknowledgement.
LEMMA StepMoves ==
  ASSUME TypeOK, Consistent, [Next]_vars
  PROVE  JobsMove \/ \E s \in Sessions, a \in Attempts : CompleteCleanup(s, a)
<1>1. ASSUME UNCHANGED job  PROVE JobsMove
  BY <1>1 DEF JobsMove
<1>2. ASSUME NEW s \in Sessions, RegisterSuccessor(s)  PROVE JobsMove
  BY <1>2, ReleaseMoves DEF RegisterSuccessor, LoseAttempts, ActiveOf
<1>3. ASSUME NEW A \in SUBSET Attempts, ExpireStaleAttempts(A)  PROVE JobsMove
  BY <1>3, ReleaseMoves DEF ExpireStaleAttempts, LoseAttempts
<1>4. ASSUME NEW s \in Sessions, NEW j \in Jobs, NEW a \in Attempts, PollClaim(s, j, a)
      PROVE  JobsMove
  BY <1>4, OneJobMoves DEF PollClaim, Candidate, TypeOK
<1>5. ASSUME NEW a \in Attempts, AcceptOffer(a)  PROVE JobsMove
  <2>1. attempt[a].job \in Jobs /\ job[attempt[a].job].status = "claimed"
    BY <1>5, AttemptRefs DEF AcceptOffer
  <2> QED
    BY <1>5, <2>1, OneJobMoves DEF AcceptOffer, TypeOK
<1>6. ASSUME NEW a \in Attempts, NEW outcome \in TerminalStatus, AcceptTerminal(a, outcome)
      PROVE  JobsMove
  <2>1. attempt[a].job \in Jobs /\ job[attempt[a].job].status = "running"
    BY <1>6, AttemptRefs DEF AcceptTerminal, TerminalAcceptable
  <2>2. job'[attempt[a].job].status = outcome
    BY <1>6, <2>1 DEF AcceptTerminal, TypeOK, JobRow
  <2>3. \A j \in Jobs \ {attempt[a].job} : job'[j] = job[j]
    BY <1>6, <2>1 DEF AcceptTerminal, TypeOK
  <2> QED
    BY <2>1, <2>2, <2>3, OneJobMoves
<1>7. ASSUME NEW j \in Jobs, PrepareExecution(j) \/ FailQueuedJob(j)  PROVE JobsMove
  BY <1>7, OneJobMoves DEF PrepareExecution, FailQueuedJob, TypeOK
<1>8. ASSUME NEW paused \in BOOLEAN, ChangeScheduler(paused)  PROVE JobsMove
  BY <1>8, <1>1, ReleaseMoves DEF ChangeScheduler, WithdrawOffers, OffersIn
<1>9. ASSUME NEW w \in Workers, NEW action, NEW target, ChangeWorkerLifecycle(w, action, target)
      PROVE  JobsMove
  <2>1. job' = job \/ job' = ReleaseClaimed(OffersIn(ActiveOf(w)))
    BY <1>9 DEF ChangeWorkerLifecycle, WithdrawOffers
  <2> QED
    BY <2>1, <1>1, ReleaseMoves DEF OffersIn, ActiveOf
<1>10. CASE SessionStep
  BY <1>10, <1>1, <1>2, <1>4 DEF SessionStep, RegisterExisting, DeregisterSession,
     PollDraining, PollIdle, SessionDeadline
<1>11. CASE AttemptStep
  BY <1>11, <1>1, <1>3, <1>5, <1>6 DEF AttemptStep, OfferedAssignment, HeartbeatAttempt,
     AttemptDeadline
<1>12. CASE JobStep
  <2>1. ASSUME NEW j \in Jobs, RequestCancel(j)  PROVE JobsMove
    BY <2>1, CancelMoves DEF RequestCancel, CancelJobs
  <2>2. ASSUME NEW j \in Jobs, CancelDecides(j)  PROVE JobsMove
    BY <2>2, CancelMoves DEF CancelDecides
  <2>3. ASSUME NEW j \in Jobs, CancelLooksUp(j) \/ CancelGivesUp(j)  PROVE JobsMove
    BY <2>3, <1>1 DEF CancelLooksUp, CancelGivesUp
  <2> QED
    BY <1>12, <2>1, <2>2, <2>3, <1>7, RecoverMoves DEF JobStep
<1>13. CASE OperatorStep
  <2>1. ASSUME NEW scope \in AbortScopes, AbortFleet(scope)  PROVE JobsMove
    BY <2>1, CancelMoves DEF AbortFleet, CancelJobs
  <2> QED
    BY <1>13, <2>1, <1>1, <1>8, <1>9 DEF OperatorStep, UpdateWorker, EmergencyDisableWorker,
       ChangeProtocolPolicy
<1>14. CASE UNCHANGED vars
  BY <1>14, <1>1 DEF vars
<1> QED
  BY <1>10, <1>11, <1>12, <1>13, <1>14 DEF Next

LEMMA CleanupEffect ==
  ASSUME TypeOK, Consistent, NEW s \in Sessions, NEW a \in Attempts, CompleteCleanup(s, a)
  PROVE  /\ Pending(a) /\ obligation'[a].status = "completed"
         /\ attempt[a].job \in Jobs
         /\ attempt[a].fence = submission[SubmissionFor(a)].fence
         /\ job[attempt[a].job].status = "running"
         /\ \A j \in Jobs \ {attempt[a].job} : job'[j] = job[j]
<1>1. attempt[a].status # "none" /\ Pending(a)
  BY ConsistentParts DEF CompleteCleanup, TeardownBlocksReuse
<1>2. attempt[a].job \in Jobs
  BY <1>1, AttemptRefs
<1>3. /\ attempt[a].fence = submission[SubmissionFor(a)].fence
      /\ job[attempt[a].job].status = "running"
  BY <1>1, ConsistentParts DEF OneDebtPerSubmission, TeardownBlocksReuse
<1>4. obligation'[a].status = "completed"
  BY DEF CompleteCleanup, TypeOK, ObligationRow
<1>5. \A j \in Jobs \ {attempt[a].job} : job'[j] = job[j]
  BY <1>2 DEF CompleteCleanup, TypeOK
<1> QED
  BY <1>1, <1>2, <1>3, <1>4, <1>5

\* A job that completed, failed or was cancelled keeps that status.
THEOREM SettledStays == Spec => JobSettles
<1> DEFINE Settled == \A j \in Jobs : job[j].status \in TerminalStatus =>
                         job'[j].status = job[j].status
<1>1. ASSUME TypeOK, Consistent, [Next]_vars  PROVE Settled
  <2>1. ASSUME NEW s \in Sessions, NEW a \in Attempts, CompleteCleanup(s, a)  PROVE Settled
    BY <1>1, <2>1, CleanupEffect
  <2> QED
    BY <1>1, <2>1, StepMoves DEF JobsMove
<1>2. TypeOK /\ Consistent /\ [Next]_vars => [Settled]_vars
  BY <1>1
<1> QED
  BY <1>2, TypeCorrect, ConsistentAlways, PTL DEF Spec, JobSettles

\* Started work is requeued only with the acknowledged teardown of the newest
\* attempt of its submission.
THEOREM RequeueOnlyAfterTeardown == Spec => RequeueAfterTeardown
<1>1. ASSUME TypeOK, Consistent, [Next]_vars  PROVE RequeuesTornDown
  <2>1. ASSUME NEW s \in Sessions, NEW a \in Attempts, CompleteCleanup(s, a)  PROVE RequeuesTornDown
    BY <1>1, <2>1, CleanupEffect DEF RequeuesTornDown
  <2> QED
    BY <1>1, <2>1, StepMoves DEF JobsMove, RequeuesTornDown
<1>2. TypeOK /\ Consistent /\ [Next]_vars => [RequeuesTornDown]_vars
  BY <1>1
<1> QED
  BY <1>2, TypeCorrect, ConsistentAlways, PTL DEF Spec, RequeueAfterTeardown

-----------------------------------------------------------------------------
(* Sessions.                                                               *)

\* No session becomes live and no worker has a newer one.
SessionsWane ==
    /\ newest' = newest
    /\ \A s \in Sessions : session'[s].status \in LiveSession => session[s].status \in LiveSession

LEMMA SessionUpdateWanes ==
  ASSUME TypeOK, newest' = newest, NEW s \in Sessions, session[s].status \in LiveSession,
         \A t \in Sessions \ {s} : session'[t] = session[t]
  PROVE  SessionsWane
  BY DEF SessionsWane

LEMMA OneSessionWanes ==
  ASSUME TypeOK, NEW s \in Sessions,
         \/ PollDraining(s) \/ PollIdle(s) \/ SessionDeadline(s)
         \/ \E j \in Jobs, a \in Attempts : PollClaim(s, j, a)
  PROVE  SessionsWane
<1>1. session[s].status \in LiveSession /\ newest' = newest
  BY DEF PollDraining, PollIdle, SessionDeadline, PollClaim, PollOpen, PollAdmitted
<1>2. \A t \in Sessions \ {s} : session'[t] = session[t]
  BY DEF PollDraining, PollIdle, SessionDeadline, PollClaim, TypeOK
<1> QED
  BY <1>1, <1>2, SessionUpdateWanes

LEMMA AttemptSessionWanes ==
  ASSUME TypeOK, NEW a \in Attempts,
         \/ AcceptOffer(a) \/ HeartbeatAttempt(a)
         \/ \E outcome \in TerminalStatus : AcceptTerminal(a, outcome)
  PROVE  SessionsWane
<1>1. CASE AcceptOffer(a)
  <2>1. attempt[a].session \in Sessions
    BY <1>1, AttemptRefs DEF AcceptOffer
  <2>2. \A t \in Sessions \ {attempt[a].session} : session'[t] = session[t]
    BY <1>1, <2>1 DEF AcceptOffer, TypeOK
  <2> QED
    BY <1>1, <2>1, <2>2, SessionUpdateWanes DEF AcceptOffer
<1>2. CASE HeartbeatAttempt(a)
  BY <1>2 DEF HeartbeatAttempt, SessionsWane, TypeOK, SessionRow
<1>3. ASSUME NEW outcome \in TerminalStatus, AcceptTerminal(a, outcome)  PROVE SessionsWane
  <2>1. attempt[a].session \in Sessions
    BY <1>3, AttemptRefs DEF AcceptTerminal, TerminalAcceptable
  <2>2. \A t \in Sessions \ {attempt[a].session} : session'[t] = session[t]
    BY <1>3, <2>1 DEF AcceptTerminal, TypeOK
  <2> QED
    BY <1>3, <2>1, <2>2, SessionUpdateWanes DEF AcceptTerminal
<1> QED
  BY <1>1, <1>2, <1>3

LEMMA DeregisterWanes ==
  ASSUME TypeOK, NEW s \in Sessions, DeregisterSession(s)  PROVE SessionsWane
  BY DEF DeregisterSession, SessionsWane, TypeOK, SessionRow

LEMMA SweepWanes ==
  ASSUME TypeOK,
         \/ \E A \in SUBSET Attempts : ExpireStaleAttempts(A)
         \/ \E J \in SUBSET Jobs : CancelJobs(J)
  PROVE  SessionsWane
<1>1. ASSUME NEW A \in SUBSET Attempts, ExpireStaleAttempts(A)  PROVE SessionsWane
  BY <1>1 DEF ExpireStaleAttempts, SessionsWane, TypeOK, SessionRow
<1>2. ASSUME NEW J \in SUBSET Jobs, CancelJobs(J)  PROVE SessionsWane
  BY <1>2 DEF CancelJobs, SessionsWane, TypeOK, SessionRow
<1> QED
  BY <1>1, <1>2

LEMMA OperatorWanes ==
  ASSUME TypeOK, OperatorStep  PROVE SessionsWane
<1>1. ASSUME NEW paused \in BOOLEAN, ChangeScheduler(paused)  PROVE SessionsWane
  <2>1. CASE paused
    BY <1>1, <2>1 DEF ChangeScheduler, SessionsWane, TypeOK, SessionRow
  <2>2. CASE ~paused
    BY <1>1, <2>2 DEF ChangeScheduler, SessionsWane
  <2> QED
    BY <2>1, <2>2
<1>2. ASSUME NEW scope \in AbortScopes, AbortFleet(scope)  PROVE SessionsWane
  BY <1>2, SweepWanes DEF AbortFleet
<1>3. ASSUME NEW w \in Workers, EmergencyDisableWorker(w)  PROVE SessionsWane
  BY <1>3 DEF EmergencyDisableWorker, SessionsWane
<1>4. ASSUME NEW w \in Workers, NEW policy \in Policies, UpdateWorker(w, policy)
      PROVE  SessionsWane
  BY <1>4 DEF UpdateWorker, SessionsWane
<1>5. ASSUME NEW w \in Workers, NEW action, NEW target, ChangeWorkerLifecycle(w, action, target)
      PROVE  SessionsWane
  <2>1. \A s \in Sessions : session[s].status \in PollableStatus \/ session'[s] = session[s]
    BY <1>5 DEF ChangeWorkerLifecycle
  <2>2. newest' = newest
    BY <1>5 DEF ChangeWorkerLifecycle
  <2> QED
    BY <2>1, <2>2 DEF SessionsWane
<1>6. ASSUME NEW revision \in Floors, ChangeProtocolPolicy(revision)  PROVE SessionsWane
  BY <1>6 DEF ChangeProtocolPolicy, SessionsWane
<1> QED
  BY <1>1, <1>2, <1>3, <1>4, <1>5, <1>6 DEF OperatorStep

LEMMA RegisterKeepsNewest ==
  ASSUME TypeOK, LiveIsNewest, NEW s \in Sessions, RegisterSuccessor(s) \/ RegisterExisting(s)
  PROVE  LiveIsNewest'
<1>0. WorkerOf \in [Sessions -> Workers]
  BY StoreAssumption
<1>1. CASE RegisterSuccessor(s)
  <2>1. newest' = [newest EXCEPT ![WorkerOf[s]] = s]
    BY <1>1 DEF RegisterSuccessor
  <2>2. \A t \in Sessions \ {s} : session'[t].status \in LiveSession =>
          session[t].status \in LiveSession /\ WorkerOf[t] # WorkerOf[s]
    BY <1>1 DEF RegisterSuccessor, TypeOK, SessionRow
  <2> QED
    BY <1>0, <2>1, <2>2 DEF LiveIsNewest, TypeOK
<1>2. CASE RegisterExisting(s)
  <2>1. newest[WorkerOf[s]] = s /\ newest' = newest
    BY <1>2 DEF RegisterExisting, Superseded
  <2>2. \A t \in Sessions \ {s} : session'[t] = session[t]
    BY <1>2 DEF RegisterExisting, TypeOK
  <2> QED
    BY <2>1, <2>2 DEF LiveIsNewest
<1> QED
  BY <1>1, <1>2

LEMMA NextNewest ==
  ASSUME TypeOK, LiveIsNewest, [Next]_vars  PROVE LiveIsNewest'
<1>1. ASSUME SessionsWane  PROVE LiveIsNewest'
  BY <1>1 DEF SessionsWane, LiveIsNewest
<1>2. ASSUME UNCHANGED <<newest, session>>  PROVE SessionsWane
  BY <1>2 DEF SessionsWane
<1>3. CASE SessionStep
  <2>1. PICK s \in Sessions :
           \/ RegisterSuccessor(s) \/ RegisterExisting(s) \/ DeregisterSession(s)
           \/ PollDraining(s) \/ PollIdle(s) \/ SessionDeadline(s)
           \/ \E j \in Jobs, a \in Attempts : PollClaim(s, j, a)
           \/ \E a \in Attempts : CompleteCleanup(s, a)
    BY <1>3 DEF SessionStep
  <2>2. ASSUME NEW a \in Attempts, CompleteCleanup(s, a)  PROVE SessionsWane
    BY <2>2, <1>2 DEF CompleteCleanup
  <2> QED
    BY <2>1, <2>2, <1>1, RegisterKeepsNewest, DeregisterWanes, OneSessionWanes
<1>4. CASE AttemptStep
  BY <1>4, <1>1, <1>2, AttemptSessionWanes, SweepWanes
     DEF AttemptStep, OfferedAssignment, AttemptDeadline
<1>5. CASE JobStep
  <2>1. ASSUME NEW j \in Jobs, RequestCancel(j)  PROVE SessionsWane
    BY <2>1, SweepWanes DEF RequestCancel
  <2> QED
    BY <1>5, <1>1, <1>2, <2>1 DEF JobStep, PrepareExecution, FailQueuedJob, RecoverSubmission,
       CancelLooksUp, CancelDecides, CancelGivesUp
<1>6. CASE OperatorStep
  BY <1>6, <1>1, OperatorWanes
<1>7. CASE UNCHANGED vars
  BY <1>7, <1>1, <1>2 DEF vars
<1> QED
  BY <1>3, <1>4, <1>5, <1>6, <1>7 DEF Next

\* A live session is the newest of its worker: a registered successor leaves no
\* predecessor behind that could still act.
THEOREM NewestLives == Spec => []LiveIsNewest
<1>1. Init => LiveIsNewest
  BY DEF Init, LiveIsNewest
<1>2. TypeOK /\ LiveIsNewest /\ [Next]_vars => LiveIsNewest'
  BY NextNewest
<1> QED
  BY <1>1, <1>2, TypeCorrect, PTL DEF Spec

\* However registrations, recoveries and expiries interleave, a worker has at
\* most one session in a live status.
THEOREM OneLive == Spec => []OneLiveSession
<1>1. LiveIsNewest => OneLiveSession
  BY DEF LiveIsNewest, OneLiveSession
<1> QED
  BY <1>1, NewestLives, PTL

-----------------------------------------------------------------------------
(* The two summaries that the runs check.                                  *)

\* Settled jobs stay settled, ended attempts stay ended, and started work is
\* requeued only with its teardown, for any number of workers, jobs and calls.
THEOREM HistoryAlways == Spec => HistoryKept
  BY SettledStays, NeverRevived, RequeueOnlyAfterTeardown DEF HistoryKept

\* Pause, floor and registration bind everything that is still active.
THEOREM PolicyAlways == Spec => []PolicyHolds
<1>1. OffersOfThisGeneration /\ FloorHolds /\ OneLiveSession => PolicyHolds
  BY DEF PolicyHolds
<1> QED
  BY <1>1, NoOfferAcrossPause, FloorAlways, OneLive, PTL
=============================================================================
