----------------------------- MODULE QueueRunner -----------------------------
(***************************************************************************)
(* The single-host runner over the job store: a coordinator that claims    *)
(* queued jobs into execution slots, one job task per slot with its        *)
(* reporter and its machine, the sweep of stuck claims, the recovery of    *)
(* jobs a dead daemon left running, and the chain of repeated runs that    *)
(* carry one database forward.                                             *)
(*                                                                         *)
(* Claims are fenced by a token.  A store write can fail, a task can panic *)
(* or hang past its lease, and the daemon can die or be told to drain or   *)
(* abort at any moment.                                                    *)
(***************************************************************************)
EXTENDS Integers, Sequences, FiniteSets

CONSTANTS
    Subs,        \* submissions, each a chain of runs
    Runs,        \* runs of a submission
    Slots,       \* execution slots: max_concurrent_jobs
    MaxClaims,   \* bound: claims handed out
    MaxFaults,   \* bound: failed calls, hung claims and panics
    MaxCrashes,  \* bound: deaths of the daemon
    MaxStops     \* bound: drains and aborts

RunIds == 0..(Runs - 1)
Jobs == Subs \X RunIds

ASSUME RunnerAssumption ==
    IsFiniteSet(Subs) /\ Runs \in Nat \ {0} /\ Slots \in Nat \ {0} /\ MaxClaims \in Nat

VARIABLES
    jobs,      \* the rows: status, claim token, age of the claim, terminal events, database
    carry,     \* the database carried for each submission, as the runs in it
    vms,       \* jobs with a machine on the host
    tasks,     \* what runs in each slot
    free,      \* the queue of free slots
    daemon,    \* the coordinator
    shown,     \* the last word of each job's report
    spent      \* claims, faults, crashes and stops used up

vars == <<jobs, carry, vms, tasks, free, daemon, shown, spent>>

NoTask == [job |-> <<>>, token |-> 0, pc |-> "none", terminal |-> "none", seed |-> {}]
Absent == [status |-> "absent", token |-> 0, old |-> FALSE, ends |-> 0, db |-> {}, created |-> 0]
Queued == [Absent EXCEPT !.status = "queued"]
Terminals == {"completed", "failed", "cancelled"}

Init ==
    /\ jobs = [j \in Jobs |-> IF j[2] = 0 THEN Queued ELSE Absent]
    /\ carry = [s \in Subs |-> {}]
    /\ vms = {}
    /\ tasks = [s \in 1..Slots |-> NoTask]
    /\ free = [i \in 1..Slots |-> i]
    /\ daemon = [pc |-> "boot", todo |-> {}, draining |-> FALSE, aborting |-> FALSE]
    /\ shown = [j \in Jobs |-> "none"]
    /\ spent = [claims |-> 0, faults |-> 0, crashes |-> 0, stops |-> 0]

Fault == spent.faults < MaxFaults /\ spent' = [spent EXCEPT !.faults = @ + 1]

-----------------------------------------------------------------------------
(* The store's transitions.  Each is one statement or one transaction.     *)

claim_next_queued(j, token) == [jobs EXCEPT ![j].status = "claimed", ![j].token = token, ![j].old = FALSE]

Holds(j, token, from) == jobs[j].token = token /\ jobs[j].status \in from

mark_running(j) == [jobs EXCEPT ![j].status = "running"]

\* The terminal row, its result and its event are one transaction.
Ended(j, status) == [jobs EXCEPT ![j].status = status, ![j].ends = @ + 1]
complete_job(j, db) == [jobs EXCEPT ![j].status = "completed", ![j].ends = @ + 1, ![j].db = db]

\* Failing and cancelling also end a job that is only claimed.
FromClaimed == {"claimed", "running"}
fail_job(j, token) == IF Holds(j, token, FromClaimed) THEN Ended(j, "failed") ELSE jobs
cancel_job(j, token) == IF Holds(j, token, FromClaimed) THEN Ended(j, "cancelled") ELSE jobs
cancel_orphan(j) == IF jobs[j].status = "running" THEN Ended(j, "cancelled") ELSE jobs

\* Claims past their lease go back to the queue; running rows never do.
Requeued(j) == [jobs[j] EXCEPT !.status = "queued", !.token = 0, !.old = FALSE]
MutSweptNever == jobs
MutSwept == [j \in Jobs |-> IF jobs[j].old \/ jobs[j].status = "running" THEN Requeued(j) ELSE jobs[j]]
Swept ==
    [j \in Jobs |-> IF jobs[j].status = "claimed" /\ jobs[j].old THEN Requeued(j) ELSE jobs[j]]

\* The latest run of a submission is completed, nothing of it is active and
\* another run is wanted.
NextRun(j) == <<j[1], j[2] + 1>>
Pending(j) ==
    /\ jobs[j].status = "completed" /\ j[2] + 1 < Runs
    /\ jobs[NextRun(j)].status = "absent"

append_next_benchmark_run(j) == 
    IF Pending(j)
    THEN [jobs EXCEPT ![NextRun(j)] =
            [Queued EXCEPT !.created = Cardinality({k \in Jobs : jobs[k].status # "absent"})]]
    ELSE jobs

-----------------------------------------------------------------------------
(* Starting: orphans first, then repeats that a dead daemon left pending.  *)

Up == daemon.pc # "down"

\* Without the list of running rows the daemon must not claim: it exits.
recover_orphans ==
    /\ daemon.pc = "boot"
    /\ \/ /\ daemon' = [daemon EXCEPT !.pc = "orphans", !.todo = {j \in Jobs : jobs[j].status = "running"}]
          /\ UNCHANGED spent
       \/ Fault /\ daemon' = [daemon EXCEPT !.pc = "down"]
    /\ UNCHANGED <<jobs, carry, vms, tasks, free, shown>>

\* The machine goes before the row: an incomplete cleanup leaves the row to the
\* next boot.
RecoverOrphan(j) ==
    /\ daemon.pc = "orphans" /\ j \in daemon.todo
    /\ daemon' = [daemon EXCEPT !.todo = @ \ {j}]
    /\ \/ /\ vms' = vms \ {j} /\ jobs' = cancel_orphan(j)
          /\ shown' \in {shown, [shown EXCEPT ![j] = "cancelled"]} /\ UNCHANGED spent
       \/ Fault /\ vms' = vms \ {j} /\ UNCHANGED <<jobs, shown>>
       \/ Fault /\ UNCHANGED <<vms, jobs, shown>>
    /\ UNCHANGED <<carry, tasks, free>>

\* The completed run's archive becomes the submission's database.
MutCarried(j) == [carry EXCEPT ![j[1]] = @]
Carried(j) == [carry EXCEPT ![j[1]] = jobs[j].db]

OrphansDone ==
    /\ daemon.pc = "orphans" /\ daemon.todo = {}
    /\ daemon' = [daemon EXCEPT !.pc = "repeats", !.todo = {j \in Jobs : Pending(j)}]
    /\ UNCHANGED <<jobs, carry, vms, tasks, free, shown, spent>>

resume_pending_repeats(j) ==
    /\ daemon.pc = "repeats" /\ j \in daemon.todo
    /\ daemon' = [daemon EXCEPT !.todo = @ \ {j}]
    /\ \/ carry' = Carried(j) /\ jobs' = append_next_benchmark_run(j) /\ UNCHANGED spent
       \/ Fault /\ carry' \in {carry, Carried(j)} /\ UNCHANGED jobs
    /\ UNCHANGED <<vms, tasks, free, shown>>

RepeatsDone ==
    /\ daemon.pc = "repeats" /\ daemon.todo = {}
    /\ daemon' = [daemon EXCEPT !.pc = "sweep"]
    /\ UNCHANGED <<jobs, carry, vms, tasks, free, shown, spent>>

-----------------------------------------------------------------------------
(* The coordinator's loop.                                                 *)

sweep ==
    /\ daemon.pc = "sweep"
    /\ daemon' = [daemon EXCEPT !.pc = "fill"]
    /\ \/ jobs' = Swept /\ UNCHANGED spent
       \/ Fault /\ UNCHANGED jobs
    /\ UNCHANGED <<carry, vms, tasks, free, shown>>

InFlight == {s \in 1..Slots : tasks[s].pc # "none"}
QueuedJobs == {j \in Jobs : jobs[j].status = "queued"}
Oldest == {j \in QueuedJobs : \A k \in QueuedJobs : jobs[j].created <= jobs[k].created}

\* The oldest queued job into the slot at the head of the free queue.  A claim
\* whose job cannot be assembled keeps the row claimed, and gives the slot back.
SlotBack == free

fill_slots ==
    /\ daemon.pc = "fill" /\ ~daemon.draining
    /\ \/ /\ free # <<>> /\ spent.claims < MaxClaims
          /\ \E j \in Oldest :
               \/ /\ jobs' = claim_next_queued(j, spent.claims + 1)
                  /\ tasks' = [tasks EXCEPT ![Head(free)] =
                                 [NoTask EXCEPT !.job = j, !.token = spent.claims + 1, !.pc = "prepare"]]
                  /\ free' = Tail(free)
                  /\ spent' = [spent EXCEPT !.claims = @ + 1] /\ UNCHANGED daemon
               \/ /\ spent.faults < MaxFaults
                  /\ spent' = [spent EXCEPT !.claims = @ + 1, !.faults = @ + 1]
                  /\ jobs' = claim_next_queued(j, spent.claims + 1)
                  /\ free' = SlotBack /\ daemon' = [daemon EXCEPT !.pc = "wait"] /\ UNCHANGED tasks
       \/ /\ free = <<>> \/ QueuedJobs = {} \/ spent.claims = MaxClaims
          /\ daemon' = [daemon EXCEPT !.pc = "wait"] /\ UNCHANGED <<jobs, tasks, free, spent>>
    /\ UNCHANGED <<carry, vms, shown>>

\* Draining: no new work, and the end once nothing is in flight.
drained ==
    /\ daemon.pc = "fill" /\ daemon.draining
    /\ daemon' = [daemon EXCEPT !.pc = IF InFlight = {} THEN "down" ELSE "wait"]
    /\ UNCHANGED <<jobs, carry, vms, tasks, free, shown, spent>>

\* A finished task, the poll interval or the drain wakes the loop.
Freed(s) == [free |-> Append(free, s), tasks |-> [tasks EXCEPT ![s] = NoTask]]

reap(s) ==
    /\ daemon.pc = "wait" /\ tasks[s].pc = "ended"
    /\ free' = Freed(s).free /\ tasks' = Freed(s).tasks
    /\ daemon' = [daemon EXCEPT !.pc = "sweep"]
    /\ UNCHANGED <<jobs, carry, vms, shown, spent>>

wait_for_progress ==
    /\ daemon.pc = "wait"
    /\ daemon' = [daemon EXCEPT !.pc = "sweep"]
    /\ UNCHANGED <<jobs, carry, vms, tasks, free, shown, spent>>

-----------------------------------------------------------------------------
(* A job task and its reporter.                                            *)

Job(s) == tasks[s].job
Step(s, pc) == [tasks EXCEPT ![s].pc = pc]

\* The commit is resolved before the row runs; failing that ends the job, so
\* that a bad reference does not go round through the sweep.
resolve_commit(s) ==
    /\ tasks[s].pc = "prepare"
    /\ \/ tasks' = Step(s, "start") /\ UNCHANGED <<jobs, spent>>
       \/ Fault /\ tasks' = Step(s, "ended") /\ jobs' = fail_job(Job(s), tasks[s].token)
    /\ UNCHANGED <<carry, vms, free, daemon, shown>>

\* A claim that was lost to the sweep is left alone.
StartFrom == {"claimed"}

start_running(s) ==
    /\ tasks[s].pc = "start"
    /\ \/ /\ Holds(Job(s), tasks[s].token, StartFrom) /\ UNCHANGED spent
          /\ jobs' = mark_running(Job(s)) /\ tasks' = Step(s, "gate")
       \/ /\ ~Holds(Job(s), tasks[s].token, StartFrom) /\ UNCHANGED <<jobs, spent>>
          /\ tasks' = Step(s, "ended")
       \/ Fault /\ tasks' = Step(s, "ended") /\ UNCHANGED jobs
    /\ UNCHANGED <<carry, vms, free, daemon, shown>>

\* The worker boots the machine on the database carried so far.
sqlite_seed_key_for(j) == IF j[2] > 0 THEN carry[j[1]] ELSE {}

worker_run(s) ==
    /\ tasks[s].pc = "gate"
    /\ vms' = vms \cup {Job(s)}
    /\ tasks' = [tasks EXCEPT ![s].pc = "vm", ![s].seed = sqlite_seed_key_for(Job(s))]
    /\ UNCHANGED <<jobs, carry, free, daemon, shown, spent>>

\* The machine is torn down before the outcome is reported.  When that fails it
\* stays, the run counts as failed whatever it did, or as aborted on a shutdown.
MutKeptOutcomes == {"completed", "failed", "aborted"}
KeptOutcomes == {"failed", "aborted"}

worker_finishes(s) ==
    /\ tasks[s].pc = "vm"
    /\ \E t \in (IF daemon.aborting THEN {"aborted"} ELSE {}) \cup {"completed", "failed", "setup"},
          kept \in BOOLEAN :
         /\ kept => t \in KeptOutcomes
         /\ vms' = IF kept THEN vms ELSE vms \ {Job(s)}
         /\ IF kept \/ t \in {"failed", "setup"} THEN Fault ELSE UNCHANGED spent
         /\ tasks' = [tasks EXCEPT ![s].pc = "finish", ![s].terminal = t]
    /\ UNCHANGED <<jobs, carry, free, daemon, shown>>

\* The worker dies without a word: the reporter sees the channel close.
worker_panics(s) ==
    /\ tasks[s].pc \in {"gate", "vm"} /\ Fault
    /\ tasks' = [tasks EXCEPT ![s].pc = "finish", ![s].terminal = "abandoned"]
    /\ UNCHANGED <<jobs, carry, vms, free, daemon, shown>>

Written(s) ==
    LET j == Job(s)
    IN  CASE tasks[s].terminal = "completed" ->
               IF Holds(j, tasks[s].token, {"running"})
               THEN complete_job(j, tasks[s].seed \cup {j[2]}) ELSE jobs
          [] tasks[s].terminal = "aborted" -> cancel_job(j, tasks[s].token)
          [] OTHER -> fail_job(j, tasks[s].token)

Word(s) ==
    CASE tasks[s].terminal = "completed" -> "completed"
      [] tasks[s].terminal = "aborted" -> "cancelled"
      [] OTHER -> "failed"

\* The row first, then the report.  A failed write stops there, except that a
\* setup error and an abandoned run are reported whatever the store said.
ReportsUnwritten == {"setup", "abandoned"}

finish(s) ==
    /\ tasks[s].pc = "finish"
    /\ \/ /\ jobs' = Written(s) /\ shown' = [shown EXCEPT ![Job(s)] = Word(s)]
          /\ tasks' = Step(s, IF tasks[s].terminal = "completed" THEN "append" ELSE "ended")
          /\ UNCHANGED spent
       \/ /\ Fault /\ UNCHANGED jobs /\ tasks' = Step(s, "ended")
          /\ shown' = IF tasks[s].terminal \in ReportsUnwritten
                      THEN [shown EXCEPT ![Job(s)] = Word(s)] ELSE shown
    /\ UNCHANGED <<carry, vms, free, daemon>>

\* The database is carried before the next run is queued, or the group stalls.
append_next_repeat_after_terminal(s) ==
    /\ tasks[s].pc = "append"
    /\ tasks' = Step(s, "ended")
    /\ \/ /\ carry' = Carried(Job(s)) /\ jobs' = append_next_benchmark_run(Job(s))
          /\ UNCHANGED <<shown, spent>>
       \/ /\ Fault /\ UNCHANGED <<jobs, carry>>
          /\ shown' = IF Job(s)[2] + 1 < Runs THEN [shown EXCEPT ![Job(s)] = "stalled"] ELSE shown
       \/ Fault /\ carry' = Carried(Job(s)) /\ UNCHANGED <<jobs, shown>>
    /\ UNCHANGED <<vms, free, daemon>>

\* A task that panics before its machine is gated.
task_panics(s) ==
    /\ tasks[s].pc \in {"prepare", "start"} /\ Fault
    /\ tasks' = Step(s, "ended")
    /\ UNCHANGED <<jobs, carry, vms, free, daemon, shown>>

JobTask(s) ==
    \/ resolve_commit(s) \/ start_running(s) \/ worker_run(s) \/ worker_finishes(s) \/ finish(s)
    \/ append_next_repeat_after_terminal(s)

-----------------------------------------------------------------------------
(* Time, stops and crashes.                                                *)

\* A claim outlives its lease: its owner died, or is only slow.
LeasePasses(j) ==
    /\ jobs[j].status = "claimed" /\ ~jobs[j].old
    /\ IF \E s \in InFlight : Job(s) = j /\ tasks[s].token = jobs[j].token /\ tasks[s].pc # "ended"
       THEN Fault ELSE UNCHANGED spent
    /\ jobs' = [jobs EXCEPT ![j].old = TRUE]
    /\ UNCHANGED <<carry, vms, tasks, free, daemon, shown>>

Stop(abort) ==
    /\ Up /\ spent.stops < MaxStops /\ spent' = [spent EXCEPT !.stops = @ + 1]
    /\ daemon' = [daemon EXCEPT !.draining = TRUE, !.aborting = @ \/ abort]
    /\ UNCHANGED <<jobs, carry, vms, tasks, free, shown>>

Crash ==
    /\ Up /\ spent.crashes < MaxCrashes /\ spent' = [spent EXCEPT !.crashes = @ + 1]
    /\ daemon' = [daemon EXCEPT !.pc = "down"]
    /\ UNCHANGED <<jobs, carry, vms, tasks, free, shown>>

\* Nothing in memory survives the process.
Boot ==
    /\ ~Up
    /\ daemon' = [pc |-> "boot", todo |-> {}, draining |-> FALSE, aborting |-> FALSE]
    /\ tasks' = [s \in 1..Slots |-> NoTask] /\ free' = [i \in 1..Slots |-> i]
    /\ UNCHANGED <<jobs, carry, vms, shown, spent>>

-----------------------------------------------------------------------------
Coordinator ==
    \/ recover_orphans \/ OrphansDone \/ RepeatsDone \/ sweep \/ fill_slots \/ drained
    \/ \E j \in Jobs : RecoverOrphan(j) \/ resume_pending_repeats(j)

Wakes == wait_for_progress \/ \E s \in 1..Slots : reap(s)

Next ==
    \/ Coordinator \/ Wakes \/ Boot \/ Crash
    \/ \E s \in 1..Slots : Up /\ (JobTask(s) \/ worker_panics(s) \/ task_panics(s))
    \/ \E j \in Jobs : LeasePasses(j)
    \/ \E abort \in BOOLEAN : Stop(abort)

Spec == Init /\ [][Next]_vars

-----------------------------------------------------------------------------
(* Properties.                                                             *)

\* However slow or dead its claimers are, no job ever runs in two slots at once.
OneMachinePerJob ==
    \A s, t \in 1..Slots : (Up /\ s # t /\ tasks[s].pc \in {"gate", "vm", "finish"}
                            /\ tasks[t].pc \in {"gate", "vm", "finish"}) => Job(s) # Job(t)

\* A job ends once: it has one terminal event exactly when its row is terminal.
EndsOnce == \A j \in Jobs : jobs[j].ends = (IF jobs[j].status \in Terminals THEN 1 ELSE 0)

\* A job that completed, and one that may still be started, has no machine on the
\* host, whatever panicked, crashed or failed to be torn down: what is left behind is
\* of a row that runs, which the next boot's recovery finds, or that failed or was
\* cancelled, and its name is never used again.
NoMachineInTheWay == \A j \in vms : jobs[j].status \in {"running", "failed", "cancelled"}

\* Every run of a chain starts from the database of all the runs before it.
DatabaseComplete == \A j \in Jobs : jobs[j].status = "completed" => jobs[j].db = 0..j[2]

\* A report says completed or cancelled only when the store does.
ReportFollowsStore ==
    \A j \in Jobs : shown[j] \in {"completed", "cancelled"} => jobs[j].status = shown[j]

\* Every slot is either free or taken by one task, so no two share a cpuset.
SlotsConserved ==
    Up => /\ \A s \in 1..Slots : (\E i \in DOMAIN free : free[i] = s) <=> tasks[s].pc = "none"
          /\ \A i, k \in DOMAIN free : free[i] = free[k] => i = k

\* A job and its machine are one task's alone, and so is the slot they run in.
MachinesExclusive == OneMachinePerJob /\ SlotsConserved

\* What rows and reports say is true: a job ends once, with what its report says,
\* and a completed run stands on all the runs before it.
OutcomesTrue == EndsOnce /\ ReportFollowsStore /\ DatabaseComplete

\* A row that runs without a task: its terminal write or its cleanup failed, and
\* only the next boot can end it.
Stranded(j) ==
    jobs[j].status = "running"
    /\ ~\E s \in InFlight : Job(s) = j /\ tasks[s].pc \in {"gate", "vm", "finish"}
=============================================================================
