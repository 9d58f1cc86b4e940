------------------------------ MODULE RunPlan ------------------------------
(***************************************************************************)
(* From a request to its measured runs.  Producers (a webhook delivery, a  *)
(* Slack message, an API call) submit a task plan under an idempotency     *)
(* key; the store persists one submission per key with its specs and the   *)
(* first run's job.  The coordinator freezes the submission's source refs  *)
(* to commits and prepares queued jobs; when a run's terminal event is     *)
(* projected it promotes that run's SQLite file to the submission's shared *)
(* one and appends the next run: the spec's next repeat, or the first run  *)
(* of the next spec.                                                       *)
(*                                                                         *)
(* Workers, leases and events are modelled in FleetStore, WorkerLoop and   *)
(* AttemptLedger; here a job is queued, running or ended.  A database file *)
(* is the set of runs whose rows it holds.  The network between two reads  *)
(* and writes of the coordinator is a step boundary.  More than one daemon *)
(* may be alive while one process replaces another.                        *)
(***************************************************************************)
EXTENDS Integers, Sequences, FiniteSets, SequencesExt

CONSTANTS
    Producers,       \* processes that submit requests
    Keys,            \* producer idempotency keys
    KeyOf,           \* [Producers -> Keys]
    LegacyOf,        \* keys of submissions an older release stored, with the
                     \* branch unresolved: [a subset of Keys -> Subs]
    Subs,            \* submission ids
    Requested,       \* requested_run_count of each spec, in spec_index order
    Commits,         \* commits the requested branch may point at
    Daemons,         \* coordinators alive
    MaxMoves,        \* bound: pushes to the branch
    MaxRetries,      \* bound: times producers ask again
    MaxGeneration,   \* bound: scheduler pauses and resumes
    MaxFaults,       \* bound: daemon crashes, failed reports, attempts lost
    MayFail,         \* whether runs may fail or be cancelled
    MayLoseFile,     \* whether a completed run may archive no database
    None

Specs == 1..Len(Requested)
Jobs == UNION {{<<s, i, r>> : s \in Subs, r \in 0..(Requested[i] - 1)} : i \in Specs}
Total == FoldLeft(LAMBDA sum, n : sum + n, 0, Requested)

\* Submissions an older release stored have an idempotency row each, which names
\* its submission uniquely.
ASSUME PlanAssumption ==
    /\ Requested \in Seq(Nat \ {0}) /\ Requested # <<>>
    /\ KeyOf \in [Producers -> Keys]
    /\ LegacyOf \in [DOMAIN LegacyOf -> Subs] /\ DOMAIN LegacyOf \subseteq Keys
    /\ \A k, l \in DOMAIN LegacyOf : LegacyOf[k] = LegacyOf[l] => k = l
    /\ {None, "conflict", "invalid"} \cap (Subs \cup Commits) = {}
    /\ \A s \in Subs, c \in Commits \cup {None} : None # [sub |-> s, digest |-> c]

VARIABLES
    ref,         \* the commit the branch points at
    producer,    \* each producer's request: step, commit asked for, answer
    idem,        \* task_submission_idempotency: [Keys -> row or None]
    frozen,      \* task_spec.git_commit_hash: [Subs -> [Specs -> commit or None]]
    job,         \* the job table, status "none" where there is no row
    carried,     \* the submission's shared database: the runs it holds
    policy,      \* the scheduler policy row
    pending,     \* completed, failed, cancelled runs whose terminal event is
                 \* not yet projected, in the order received
    coord,       \* each daemon's coordinator task
    seen,        \* history: commits the branch had in this generation
    spent        \* moves, retries and faults used up, against their bounds

vars == <<ref, producer, idem, frozen, job, carried, policy, pending, coord,
          seen, spent>>

-----------------------------------------------------------------------------
(* The plan.                                                               *)

SubOf(j) == j[1]
SpecOf(j) == j[2]
RunOf(j) == j[3]
Before(k, j) == /\ SubOf(k) = SubOf(j)
                /\ \/ SpecOf(k) < SpecOf(j)
                   \/ SpecOf(k) = SpecOf(j) /\ RunOf(k) < RunOf(j)
Earlier(j) == {k \in Jobs : Before(k, j)}
Exists(j) == job[j].status # "none"
Active(j) == job[j].status \in {"queued", "running"}

\* Only a submission of several measured runs shares calibration and file.
uses_shared_calibration == Total > 1
sqlite_seed_key(j) == uses_shared_calibration /\ Earlier(j) # {}

\* The run append_next_benchmark_run would insert after j, if any.
NextRun(j) ==
    IF RunOf(j) + 1 < Requested[SpecOf(j)]
    THEN {<<SubOf(j), SpecOf(j), RunOf(j) + 1>>}
    ELSE {k \in Jobs : /\ SubOf(k) = SubOf(j) /\ RunOf(k) = 0
                       /\ SpecOf(k) = SpecOf(j) + 1}

\* The submission's state as its report shows it.
aggregate_state(s) ==
    LET statuses == {job[j].status : j \in {k \in Jobs : SubOf(k) = s}}
    IN  CASE "running" \in statuses -> "running"
          [] "running" \notin statuses /\ "failed" \in statuses -> "failed"
          [] statuses \cap {"running", "failed"} = {} /\ "cancelled" \in statuses -> "cancelled"
          [] statuses = {"completed"} -> "completed"
          [] OTHER -> "queued"

Agrees(outcome, state) ==
    IF outcome = "completed" THEN state \in {"queued", "running", "completed"}
                             ELSE state = outcome

Idle == [pc |-> "idle", job |-> None, generation |-> 0, sources |-> None, batch |-> <<>>]

Init ==
    /\ ref \in Commits
    /\ producer = [p \in Producers |-> [pc |-> "idle", commit |-> None, answer |-> None]]
    /\ idem = [k \in Keys |-> IF k \in DOMAIN LegacyOf
                              THEN [sub |-> LegacyOf[k], digest |-> None] ELSE None]
    /\ frozen = [s \in Subs |-> [i \in Specs |-> None]]
    /\ job = [j \in Jobs |->
         [status |-> IF Earlier(j) = {} /\ SubOf(j) \in Range(LegacyOf) THEN "queued" ELSE "none",
          commit |-> None, prepared |-> FALSE, rows |-> {}]]
    /\ carried = [s \in Subs |-> {}]
    /\ policy = [paused |-> FALSE, generation |-> 0]
    /\ pending = <<>>
    /\ coord = [d \in Daemons |-> Idle]
    /\ seen = {ref}
    /\ spent = [moves |-> 0, retries |-> 0, faults |-> 0]

-----------------------------------------------------------------------------
(* Producers and the submission store.                                     *)

\* A producer composes its request: it resolves the branch, tag or pull
\* request to a commit, which becomes part of the request's digest.
Prepare(p) ==
    /\ producer[p].pc = "idle"
    /\ producer' = [producer EXCEPT ![p] =
         [pc |-> "validate", commit |-> ref, answer |-> None]]
    /\ UNCHANGED <<ref, idem, frozen, job, carried, policy, pending, coord, seen, spent>>

\* The command is refused before it reaches the store when its key, axes,
\* sources, calibration or scenario are malformed.
Validate(p) ==
    /\ producer[p].pc = "validate"
    /\ producer' = [producer EXCEPT ![p].pc = "lookup"]
    /\ UNCHANGED <<ref, idem, frozen, job, carried, policy, pending, coord, seen, spent>>

Refuse(p) ==
    /\ producer[p].pc = "validate"
    /\ producer' = [producer EXCEPT ![p].pc = "done", ![p].answer = "invalid"]
    /\ UNCHANGED <<ref, idem, frozen, job, carried, policy, pending, coord, seen, spent>>

\* The receipt of the submission already stored under the key, or a conflict
\* when it was made from another request.  A row from before digests were
\* stored matches any.
request_digest(p) == producer[p].commit
Receipt(p) ==
    LET row == idem[KeyOf[p]]
    IN  IF row.digest \in {None, request_digest(p)} THEN row.sub ELSE "conflict"

Answer(p) == [producer EXCEPT ![p].pc = "done", ![p].answer = Receipt(p)]

ExistingReceipt(p) ==
    /\ producer[p].pc = "lookup"
    /\ producer' = IF idem[KeyOf[p]] = None THEN [producer EXCEPT ![p].pc = "insert"]
                                            ELSE Answer(p)
    /\ UNCHANGED <<ref, idem, frozen, job, carried, policy, pending, coord, seen, spent>>

\* Every spec row of the plan records the commit resolved for it, and the
\* first spec's run 0 is queued without an execution payload.
SpecRows(commit) == [i \in Specs |-> commit]
QueuedJob(commit) == [status |-> "queued", commit |-> commit, prepared |-> FALSE, rows |-> {}]

\* One transaction: submission, specs, first job, and the idempotency row that
\* elects a winner; a loser rolls everything back and answers for the winner.
PersistSubmission(p) ==
    /\ producer[p].pc = "insert"
    /\ IF idem[KeyOf[p]] # None
       THEN producer' = Answer(p) /\ UNCHANGED <<idem, frozen, job>>
       ELSE \E s \in Subs :
              /\ \A j \in Jobs : SubOf(j) = s => ~Exists(j)
              /\ idem' = [idem EXCEPT ![KeyOf[p]] = [sub |-> s, digest |-> request_digest(p)]]
              /\ frozen' = [frozen EXCEPT ![s] = SpecRows(producer[p].commit)]
              /\ job' = [job EXCEPT ![<<s, 1, 0>>] = QueuedJob(producer[p].commit)]
              /\ producer' = [producer EXCEPT ![p].pc = "done", ![p].answer = s]
    /\ UNCHANGED <<ref, carried, policy, pending, coord, seen, spent>>

\* The delivery is processed again: a crash before the answer was recorded, a
\* redelivery, a retry.
Resubmit(p) ==
    /\ producer[p].pc # "idle"
    /\ spent.retries < MaxRetries
    /\ producer' = [producer EXCEPT ![p] = [pc |-> "idle", commit |-> None, answer |-> None]]
    /\ spent' = [spent EXCEPT !.retries = @ + 1]
    /\ UNCHANGED <<ref, idem, frozen, job, carried, policy, pending, coord, seen>>

\* Somebody pushes to the branch.
MoveRef ==
    /\ spent.moves < MaxMoves
    /\ \E c \in Commits \ {ref} : ref' = c /\ seen' = seen \cup {c}
    /\ spent' = [spent EXCEPT !.moves = @ + 1]
    /\ UNCHANGED <<producer, idem, frozen, job, carried, policy, pending, coord>>

-----------------------------------------------------------------------------
(* Preparing queued jobs.                                                  *)

\* An operator pauses or resumes the scheduler: a new generation either way.
ChangeScheduler ==
    /\ policy.generation < MaxGeneration
    /\ policy' = [paused |-> ~policy.paused, generation |-> policy.generation + 1]
    /\ seen' = {ref}
    /\ UNCHANGED <<ref, producer, idem, frozen, job, carried, pending, coord, spent>>

InForce(d) == ~policy.paused /\ policy.generation = coord[d].generation

\* The coordinator takes a queued job up and notes the generation.
PrepareJob(d, j) ==
    /\ coord[d].pc = "idle"
    /\ job[j].status = "queued"
    /\ ~policy.paused
    /\ coord' = [coord EXCEPT ![d] = [Idle EXCEPT !.pc = "resolve", !.job = j,
                                                  !.generation = policy.generation]]
    /\ UNCHANGED <<ref, producer, idem, frozen, job, carried, policy, pending, seen, spent>>

\* It reads the commits the submission's specs have on record.
submission_specs(d) ==
    /\ coord[d].pc = "resolve"
    /\ coord' = [coord EXCEPT ![d].pc = "freeze", ![d].sources = frozen[SubOf(coord[d].job)]]
    /\ UNCHANGED <<ref, producer, idem, frozen, job, carried, policy, pending, seen, spent>>

\* The specs that name no commit are resolved in turn, each over the network.
ResolveSource(d) ==
    /\ coord[d].pc = "freeze"
    /\ \E i \in Specs :
         /\ coord[d].sources[i] = None
         /\ \A k \in 1..(i - 1) : coord[d].sources[k] # None
         /\ coord' = [coord EXCEPT ![d].sources = [@ EXCEPT ![i] = ref]]
    /\ UNCHANGED <<ref, producer, idem, frozen, job, carried, policy, pending, seen, spent>>

\* No spec or job of the submission has another commit on record.
MutUnconflicted(s, sources) == TRUE
Unconflicted(s, sources) ==
    /\ \A i \in Specs : frozen[s][i] \in {None, sources[i]}
    /\ \A j \in Jobs : SubOf(j) = s => job[j].commit \in {None, sources[SpecOf(j)]}

\* The store accepts the resolved commits only in the generation they were
\* resolved for, and never against a commit already recorded.
freeze_submission_sources(d) ==
    LET s == SubOf(coord[d].job)
        sources == coord[d].sources
    IN  /\ coord[d].pc = "freeze"
        /\ \A i \in Specs : sources[i] # None
        /\ IF InForce(d) /\ Unconflicted(s, sources)
           THEN /\ frozen' = [frozen EXCEPT ![s] = sources]
                /\ job' = [j \in Jobs |->
                     IF SubOf(j) = s /\ job[j].status = "queued" /\ job[j].commit = None
                     THEN [job[j] EXCEPT !.commit = sources[SpecOf(j)]] ELSE job[j]]
                /\ coord' = [coord EXCEPT ![d].pc = "prepare"]
           ELSE coord' = [coord EXCEPT ![d] = Idle] /\ UNCHANGED <<frozen, job>>
        /\ UNCHANGED <<ref, producer, idem, carried, policy, pending, seen, spent>>

\* The job gets its immutable payload, once, while it is still queued.
prepare_execution(d) ==
    LET j == coord[d].job
    IN  /\ coord[d].pc = "prepare"
        /\ job' = IF InForce(d) /\ job[j].status = "queued" /\ ~job[j].prepared
                  THEN [job EXCEPT ![j].prepared = TRUE,
                                   ![j].commit = coord[d].sources[SpecOf(j)]]
                  ELSE job
        /\ coord' = [coord EXCEPT ![d] = Idle]
        /\ UNCHANGED <<ref, producer, idem, frozen, carried, policy, pending, seen, spent>>

-----------------------------------------------------------------------------
(* Running.                                                                *)

\* A worker takes a prepared job; a later run of a shared submission starts
\* from a copy of the submission's database.
Start(j) ==
    /\ job[j].status = "queued" /\ job[j].prepared
    /\ ~policy.paused
    /\ job' = [job EXCEPT ![j].status = "running",
                          ![j].rows = IF sqlite_seed_key(j) THEN carried[SubOf(j)] ELSE {}]
    /\ UNCHANGED <<ref, producer, idem, frozen, carried, policy, pending, coord, seen, spent>>

\* The run ends.  A completed one archives a database with its own rows added
\* to those it was seeded with; its terminal event joins the projection queue.
Finish(j, outcome) ==
    /\ job[j].status = "running"
    /\ outcome # "completed" => MayFail
    /\ \E rows \in {job[j].rows \cup {j}} \cup (IF MayLoseFile THEN {{}} ELSE {}) :
         job' = [job EXCEPT ![j].status = outcome,
                            ![j].rows = IF outcome = "completed" THEN rows ELSE {}]
    /\ pending' = Append(pending, j)
    /\ UNCHANGED <<ref, producer, idem, frozen, carried, policy, coord, seen, spent>>

\* A worker that lost its attempt, with its lease or its session, reports the host
\* clean: the run is queued again, with the payload it has, or cancelled when that
\* was asked for.  The lost attempt's events are never projected.
complete_cleanup(j) ==
    /\ job[j].status = "running"
    /\ spent.faults < MaxFaults
    /\ \E to \in {"queued", "cancelled"} :
         /\ to = "cancelled" => MayFail
         /\ job' = [job EXCEPT ![j].status = to, ![j].rows = {}]
    /\ spent' = [spent EXCEPT !.faults = @ + 1]
    /\ UNCHANGED <<ref, producer, idem, frozen, carried, policy, pending, coord, seen>>

\* A queued run no worker has yet ends without an event: an operator cancels it
\* (request_cancel), or it is a Slack run whose reporting message never became
\* durable or whose connector is gone (fail_locked_queued_jobs).
EndQueued(j, to) ==
    /\ MayFail
    /\ job[j].status = "queued"
    /\ job' = [job EXCEPT ![j].status = to]
    /\ UNCHANGED <<ref, producer, idem, frozen, carried, policy, pending, coord, seen, spent>>

request_cancel(j) == EndQueued(j, "cancelled")
fail_locked_queued_jobs(j) == EndQueued(j, "failed")

-----------------------------------------------------------------------------
(* Projecting terminal events: promote, append, report, mark.              *)

Tick(d) ==
    /\ coord[d].pc = "idle"
    /\ pending # <<>>
    /\ coord' = [coord EXCEPT ![d] = [Idle EXCEPT !.pc = "plan", !.batch = pending]]
    /\ UNCHANGED <<ref, producer, idem, frozen, job, carried, policy, pending, seen, spent>>

\* The run's archived database becomes the submission's.  A missing file is an
\* error that ends the whole tick.
plan_next_repeat(d) ==
    LET j == Head(coord[d].batch)
        repeats == uses_shared_calibration /\ job[j].status = "completed"
        missing == repeats /\ job[j].rows = {}
    IN  /\ coord[d].pc = "plan"
        /\ carried' = IF repeats /\ ~missing THEN [carried EXCEPT ![SubOf(j)] = job[j].rows]
                                             ELSE carried
        /\ coord' = IF missing THEN [coord EXCEPT ![d] = Idle]
                    ELSE [coord EXCEPT ![d].pc = IF repeats THEN "append" ELSE "report"]
        /\ UNCHANGED <<ref, producer, idem, frozen, job, policy, pending, seen, spent>>

\* Nothing of the submission is active, j is the newest run of its spec, and
\* the next spec, when n begins it, has no run yet.
MutAppendable(j, n) == \A k \in Jobs : SubOf(k) = SubOf(j) => ~Active(k)
Appendable(j, n) ==
    \A k \in Jobs : SubOf(k) = SubOf(j) /\ Exists(k) =>
        /\ ~Active(k)
        /\ SpecOf(k) = SpecOf(j) => RunOf(k) <= RunOf(j)
        /\ SpecOf(n) # SpecOf(j) => SpecOf(k) # SpecOf(n)

\* A repeat copies the commit of the run before it, the first run of a spec
\* takes the one its spec records.
InsertedRun(j, k) ==
    QueuedJob(IF SpecOf(k) = SpecOf(j) THEN job[j].commit ELSE frozen[SubOf(k)][SpecOf(k)])

\* The next run is inserted once.
append_next_benchmark_run(d) ==
    LET j == Head(coord[d].batch)
    IN  /\ coord[d].pc = "append"
        /\ job' = [k \in Jobs |->
                     IF k \in NextRun(j) /\ Appendable(j, k)
                     THEN InsertedRun(j, k) ELSE job[k]]
        /\ coord' = [coord EXCEPT ![d].pc = "report"]
        /\ UNCHANGED <<ref, producer, idem, frozen, carried, policy, pending, seen, spent>>

Rest(d) ==
    [coord EXCEPT ![d] =
       IF Len(coord[d].batch) = 1 THEN Idle
       ELSE [coord[d] EXCEPT !.pc = "plan", !.batch = Tail(coord[d].batch)]]

\* The terminal report succeeds only when the submission's state agrees with
\* the run's outcome; then the event is marked projected.
report_fleet_terminal(d) ==
    LET j == Head(coord[d].batch)
    IN  /\ coord[d].pc = "report"
        /\ Agrees(job[j].status, aggregate_state(SubOf(j)))
        /\ pending' = RemoveFirst(pending, j)
        /\ coord' = Rest(d)
        /\ UNCHANGED <<ref, producer, idem, frozen, job, carried, policy, seen, spent>>

\* It disagrees, or the provider call fails: the event stays pending and the
\* tick goes on with the next attempt's.
ReportFails(d) ==
    /\ coord[d].pc = "report"
    /\ \/ /\ ~Agrees(job[Head(coord[d].batch)].status,
                     aggregate_state(SubOf(Head(coord[d].batch))))
          /\ UNCHANGED spent
       \/ /\ spent.faults < MaxFaults
          /\ spent' = [spent EXCEPT !.faults = @ + 1]
    /\ coord' = Rest(d)
    /\ UNCHANGED <<ref, producer, idem, frozen, job, carried, policy, pending, seen>>

\* The daemon stops between two steps; what it had in memory is gone.
Crash(d) ==
    /\ coord[d].pc # "idle"
    /\ spent.faults < MaxFaults
    /\ spent' = [spent EXCEPT !.faults = @ + 1]
    /\ coord' = [coord EXCEPT ![d] = Idle]
    /\ UNCHANGED <<ref, producer, idem, frozen, job, carried, policy, pending, seen>>

-----------------------------------------------------------------------------
Submitting(p) == Prepare(p) \/ Validate(p) \/ Refuse(p) \/ ExistingReceipt(p) \/ PersistSubmission(p)
Preparing(d) == \/ submission_specs(d) \/ ResolveSource(d)
                \/ freeze_submission_sources(d) \/ prepare_execution(d)
Projecting(d) == plan_next_repeat(d) \/ append_next_benchmark_run(d) \/ report_fleet_terminal(d)

Next ==
    \/ \E p \in Producers : Submitting(p) \/ Resubmit(p)
    \/ MoveRef \/ ChangeScheduler
    \/ \E d \in Daemons :
         \/ \E j \in Jobs : PrepareJob(d, j)
         \/ Preparing(d) \/ Tick(d) \/ Projecting(d) \/ ReportFails(d) \/ Crash(d)
    \/ \E j \in Jobs :
         \/ Start(j) \/ complete_cleanup(j) \/ request_cancel(j) \/ fail_locked_queued_jobs(j)
         \/ \E o \in {"completed", "failed", "cancelled"} : Finish(j, o)

Spec == Init /\ [][Next]_vars

-----------------------------------------------------------------------------
(* Properties.                                                             *)

\* However deliveries are duplicated and raced, a producer key has one
\* submission, no submission exists outside the idempotency table, and every
\* producer that got a receipt got the one made from exactly its request.
OneSubmissionPerKey ==
    /\ \A j \in Jobs : Exists(j) => \E k \in Keys : idem[k] # None /\ idem[k].sub = SubOf(j)
    /\ \A k, l \in Keys : k # l /\ idem[k] # None /\ idem[l] # None => idem[k].sub # idem[l].sub
    /\ \A p \in Producers : producer[p].answer \in Subs =>
         /\ idem[KeyOf[p]].sub = producer[p].answer
         /\ idem[KeyOf[p]].digest \in {None, producer[p].commit}

\* Every job that has a commit has the one recorded for its spec, and a job a
\* worker may take has one: repeats and replacement daemons measure one commit.
SourcesAgree ==
    \A j \in Jobs : /\ job[j].commit \in {None, frozen[SubOf(j)][SpecOf(j)]}
                    /\ job[j].prepared => job[j].commit # None

\* A recorded commit is never replaced, whatever the branch does.
FrozenForGood ==
    \A s \in Subs, i \in Specs : frozen[s][i] # None => frozen'[s][i] = frozen[s][i]

\* A ref resolved before a pause is never frozen after the resume: the commit
\* recorded is one the branch had in the generation in force.
FreshlyResolved ==
    \A d \in Daemons : freeze_submission_sources(d) =>
       \A i \in Specs : LET s == SubOf(coord[d].job)
                        IN  frozen[s][i] = None /\ frozen'[s][i] # None =>
                              ~policy.paused /\ frozen'[s][i] \in seen

\* A later run of a shared submission never starts from a fresh database: the
\* rows of the plan's first run are in every file archived after it.
SeededFromFirst ==
    \A j \in Jobs : /\ job[j].status = "completed" /\ job[j].rows # {}
                    /\ uses_shared_calibration
                    => <<SubOf(j), 1, 0>> \in job[j].rows

\* A request delivered twice, or by two daemons, makes one submission per key; every
\* run of a spec measures the commit recorded for it, which nothing replaces and which
\* was not resolved before a pause; and no later run starts from a fresh database.
SourcesFrozen ==
    /\ [](OneSubmissionPerKey /\ SourcesAgree /\ SeededFromFirst)
    /\ [][FrozenForGood /\ FreshlyResolved]_vars

\* The runs of a submission are one sequential program, though projections are
\* retried, daemons crash and two run at once.
Serial == INSTANCE SerialPlan WITH
    Runs <- Jobs, Preceding <- [j \in Jobs |-> Earlier(j)],
    status <- [j \in Jobs |-> job[j].status]
ImplementsSerialPlan == Serial!Spec
=============================================================================
