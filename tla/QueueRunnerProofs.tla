-------------------------- MODULE QueueRunnerProofs --------------------------
(***************************************************************************)
(* The single-host runner (QueueRunner) for any number of submissions,     *)
(* runs, slots, claims, faults, crashes and stops.                         *)
(*                                                                         *)
(* The argument: every claim has a token of its own, so a task whose token *)
(* its row still carries is the only one that may change that row; a row   *)
(* that runs is only ever ended, by its task or, when the daemon starts    *)
(* again and no task exists, by recovery.  The runs of a submission follow *)
(* one another: while one is queued, claimed or running every earlier one  *)
(* is completed and the carried database holds exactly those.              *)
(***************************************************************************)
EXTENDS QueueRunner, FiniteSetTheorems, SequenceTheorems, TLAPS

Statuses == {"absent", "queued", "claimed", "running"} \cup Terminals
Unended == {"queued", "claimed", "running"}
Outcomes == {"none", "completed", "aborted", "failed", "setup", "abandoned"}
Places == {"none", "prepare", "start", "gate", "vm", "finish", "append", "ended"}
Executing == {"gate", "vm", "finish"}

Row == [status : Statuses, token : Nat, old : BOOLEAN, ends : Nat, db : SUBSET Int, created : Nat]
TaskRow == [job : Jobs \cup {<<>>}, token : Nat, pc : Places, terminal : Outcomes, seed : SUBSET Int]

Coordinators == [pc : {"down", "boot", "orphans", "repeats", "sweep", "fill", "wait"},
                 todo : SUBSET Jobs, draining : BOOLEAN, aborting : BOOLEAN]
Words == {"none", "completed", "failed", "cancelled", "stalled"}
Bounds == [claims : Nat, faults : Nat, crashes : Nat, stops : Nat]

Typed ==
    /\ jobs \in [Jobs -> Row]
    /\ carry \in [Subs -> SUBSET Int]
    /\ vms \subseteq Jobs
    /\ tasks \in [1..Slots -> TaskRow]
    /\ free \in Seq(1..Slots)
    /\ daemon \in Coordinators
    /\ shown \in [Jobs -> Words]
    /\ spent \in Bounds
    /\ \A s \in 1..Slots : tasks[s].pc # "none" => Job(s) \in Jobs

\* Tokens are never handed out twice.
TokensFresh ==
    /\ \A j \in Jobs : jobs[j].token <= spent.claims
    /\ \A s \in 1..Slots : tasks[s].pc # "none" => tasks[s].token \in 1..spent.claims
    /\ \A s, t \in 1..Slots : s # t /\ tasks[s].pc # "none" /\ tasks[t].pc # "none" =>
                                  tasks[s].token # tasks[t].token

\* A task before its start may have lost its claim; one after it has not.
Claimed(s) == jobs[Job(s)].token = tasks[s].token
TasksHold ==
    Up => \A s \in 1..Slots :
        /\ tasks[s].pc \in {"prepare", "start"} /\ Claimed(s) => jobs[Job(s)].status = "claimed"
        /\ tasks[s].pc \in Executing => Claimed(s) /\ jobs[Job(s)].status = "running"
        /\ tasks[s].pc = "append" => Claimed(s) /\ jobs[Job(s)].status = "completed"

\* Recovery runs before any task exists, over rows that are still as it read them.
Recovering ==
    /\ daemon.pc \in {"boot", "orphans", "repeats"} => \A s \in 1..Slots : tasks[s].pc = "none"
    /\ daemon.pc = "orphans" => \A j \in daemon.todo : jobs[j].status = "running"
    /\ daemon.pc = "repeats" => \A j \in daemon.todo : Pending(j)

\* The runs of a submission follow one another, and while one is not ended the
\* carried database holds those before it.
InOrder ==
    \A j, k \in Jobs : j[1] = k[1] /\ j[2] < k[2] /\ jobs[k].status # "absent" =>
                          jobs[j].status = "completed"

CarryCurrent ==
    \A j \in Jobs : j[2] > 0 /\ jobs[j].status \in Unended => carry[j[1]] = 0..(j[2] - 1)

\* So does the database a task works on, and what follows a completed run is not
\* there before its task has appended it.
Seeded(s) == tasks[s].pc = "vm" \/ (tasks[s].pc = "finish" /\ tasks[s].terminal = "completed")
SeedCurrent ==
    Up => \A s \in 1..Slots : Seeded(s) => tasks[s].seed = 0..(Job(s)[2] - 1)

AppendDue ==
    Up => \A s \in 1..Slots : tasks[s].pc = "append" /\ Job(s)[2] + 1 < Runs =>
                                  jobs[NextRun(Job(s))].status = "absent"

\* A task that reports a completed run has torn its machine down.
TornDown ==
    Up => \A s \in 1..Slots :
        tasks[s].pc = "finish" /\ tasks[s].terminal = "completed" => Job(s) \notin vms

IInv ==
    /\ Typed /\ TokensFresh /\ TasksHold /\ Recovering /\ InOrder /\ CarryCurrent
    /\ SeedCurrent /\ AppendDue /\ TornDown
    /\ EndsOnce /\ NoMachineInTheWay /\ DatabaseComplete /\ ReportFollowsStore /\ SlotsConserved

-----------------------------------------------------------------------------
(* What the updates of the model do, field by field.                       *)

\* Rows keep their number: a count of jobs is a number.
LEMMA CountNat == \A S \in SUBSET Jobs : Cardinality(S) \in Nat
<1>1. IsFiniteSet(RunIds)
  BY FS_Interval, RunnerAssumption DEF RunIds
<1>2. IsFiniteSet(Jobs)
  BY <1>1, FS_Product, RunnerAssumption DEF Jobs
<1> QED
  BY <1>2, FS_Subset, FS_CardinalityType

\* A job is its submission and its place in it.
LEMMA JobIs ==
    /\ \A j \in Jobs : j[1] \in Subs /\ j[2] \in Nat
    /\ \A j, k \in Jobs : j[1] = k[1] /\ j[2] = k[2] => j = k
    /\ \A j \in Jobs : j[2] + 1 < Runs => NextRun(j) \in Jobs
    /\ \A j \in Jobs : NextRun(j)[1] = j[1] /\ NextRun(j)[2] = j[2] + 1
    /\ \A j, k \in Jobs : NextRun(j) = NextRun(k) => j = k
  BY RunnerAssumption DEF Jobs, RunIds, NextRun

\* The row of one job changes, its others do not.
Changes(j, status, token) ==
    /\ jobs' \in [Jobs -> Row]
    /\ \A k \in Jobs : k # j => jobs'[k] = jobs[k]
    /\ jobs'[j].status = status
    /\ jobs'[j].token = token

\* One task moves on, with the job it has.
Moves(s, pc) ==
    /\ tasks' \in [1..Slots -> TaskRow]
    /\ \A t \in 1..Slots : t # s => tasks'[t] = tasks[t]
    /\ tasks'[s].pc = pc
    /\ tasks'[s].job = tasks[s].job
    /\ tasks'[s].token = tasks[s].token

\* Tasks stay as they are, or end.
Trails ==
    /\ tasks' \in [1..Slots -> TaskRow]
    /\ \A t \in 1..Slots :
         \/ tasks'[t] = tasks[t]
         \/ /\ tasks[t].pc # "none" /\ tasks'[t].pc = "ended"
            /\ tasks'[t].job = tasks[t].job /\ tasks'[t].token = tasks[t].token

LEMMA Claiming ==
    ASSUME Typed, NEW j \in Jobs, NEW n \in Nat, jobs' = claim_next_queued(j, n)
    PROVE  /\ Changes(j, "claimed", n)
           /\ jobs'[j].ends = jobs[j].ends /\ jobs'[j].db = jobs[j].db
  BY DEF Typed, Row, Statuses, claim_next_queued, Changes

LEMMA Running ==
    ASSUME Typed, NEW j \in Jobs, jobs' = mark_running(j)
    PROVE  /\ Changes(j, "running", jobs[j].token)
           /\ jobs'[j].ends = jobs[j].ends /\ jobs'[j].db = jobs[j].db
  BY DEF Typed, Row, Statuses, mark_running, Changes

LEMMA Ending ==
    ASSUME Typed, NEW j \in Jobs, NEW status \in Terminals, jobs' = Ended(j, status)
    PROVE  /\ Changes(j, status, jobs[j].token)
           /\ jobs'[j].ends = jobs[j].ends + 1 /\ jobs'[j].db = jobs[j].db
<1>1. jobs[j] \in Row /\ jobs[j].ends + 1 \in Nat
  BY DEF Typed, Row
<1>2. PICK n \in Nat : n = jobs[j].ends + 1
  BY <1>1
<1> DEFINE row == [jobs[j] EXCEPT !.status = status, !.ends = n]
<1>3. jobs' = [jobs EXCEPT ![j] = row]
  BY <1>1, <1>2 DEF Typed, Ended
<1>4. row \in Row
  BY <1>1 DEF Row, Statuses, Terminals
<1>5. row.status = status /\ row.token = jobs[j].token /\ row.ends = n /\ row.db = jobs[j].db
  BY <1>1 DEF Row
<1> HIDE DEF row
<1> QED
  BY <1>2, <1>3, <1>4, <1>5 DEF Typed, Changes

LEMMA Completing ==
    ASSUME Typed, NEW j \in Jobs, NEW db \in SUBSET Int, jobs' = complete_job(j, db)
    PROVE  /\ Changes(j, "completed", jobs[j].token)
           /\ jobs'[j].ends = jobs[j].ends + 1 /\ jobs'[j].db = db
<1>1. jobs[j] \in Row /\ jobs[j].ends + 1 \in Nat
  BY DEF Typed, Row
<1>2. PICK n \in Nat : n = jobs[j].ends + 1
  BY <1>1
<1> DEFINE row == [jobs[j] EXCEPT !.status = "completed", !.ends = n, !.db = db]
<1>3. jobs' = [jobs EXCEPT ![j] = row]
  BY <1>1, <1>2 DEF Typed, complete_job
<1>4. row \in Row
  BY <1>1 DEF Row, Statuses, Terminals
<1>5. row.status = "completed" /\ row.token = jobs[j].token /\ row.ends = n /\ row.db = db
  BY <1>1 DEF Row
<1> HIDE DEF row
<1> QED
  BY <1>2, <1>3, <1>4, <1>5 DEF Typed, Changes

LEMMA Appending ==
    ASSUME Typed, NEW j \in Jobs, Pending(j), jobs' = append_next_benchmark_run(j)
    PROVE  /\ NextRun(j) \in Jobs
           /\ Changes(NextRun(j), "queued", 0)
           /\ jobs'[NextRun(j)].ends = 0
<1>1. NextRun(j) \in Jobs
  BY RunnerAssumption DEF Pending, NextRun, Jobs, RunIds
<1>2. DEFINE row == [Queued EXCEPT !.created = Cardinality({k \in Jobs : jobs[k].status # "absent"})]
<1>3. row \in Row /\ row.status = "queued" /\ row.token = 0 /\ row.ends = 0
  BY CountNat DEF Row, Statuses, Queued, Absent
<1>4. jobs' = [jobs EXCEPT ![NextRun(j)] = row]
  BY DEF append_next_benchmark_run
<1> HIDE DEF row
<1> QED
  BY <1>1, <1>3, <1>4 DEF Typed, Changes

LEMMA Sweeping ==
    ASSUME Typed, jobs' = Swept
    PROVE  /\ jobs' \in [Jobs -> Row]
           /\ \A k \in Jobs : jobs[k].status # "claimed" => jobs'[k] = jobs[k]
           /\ \A k \in Jobs : jobs'[k] # jobs[k] =>
                 /\ jobs'[k].status = "queued" /\ jobs'[k].token = 0
                 /\ jobs'[k].ends = jobs[k].ends /\ jobs'[k].db = jobs[k].db
  BY DEF Typed, Row, Statuses, Swept, Requeued

LEMMA Moving ==
    ASSUME Typed, NEW s \in 1..Slots, NEW pc \in Places, tasks' = Step(s, pc)
    PROVE  /\ Moves(s, pc)
           /\ tasks'[s].terminal = tasks[s].terminal /\ tasks'[s].seed = tasks[s].seed
  BY DEF Typed, TaskRow, Step, Moves

\* A run completes with a database of itself and all the runs before it.
LEMMA CompletedWhole ==
    ASSUME IInv, Up, NEW s \in 1..Slots, tasks[s].pc = "finish",
           tasks[s].terminal = "completed",
           jobs' = complete_job(Job(s), tasks[s].seed \cup {Job(s)[2]})
    PROVE  /\ Changes(Job(s), "completed", jobs[Job(s)].token)
           /\ jobs'[Job(s)].ends = jobs[Job(s)].ends + 1
           /\ DatabaseComplete'
<1>1. Typed /\ Job(s) \in Jobs /\ tasks[s] \in TaskRow
  BY DEF IInv, Typed
<1>2. Job(s)[2] \in Nat /\ tasks[s].seed \in SUBSET Int
  BY <1>1, JobIs DEF TaskRow
<1>3. tasks[s].seed = 0..(Job(s)[2] - 1)
  BY DEF IInv, SeedCurrent, Seeded
<1>4. PICK db \in SUBSET Int : db = tasks[s].seed \cup {Job(s)[2]}
  BY <1>2
<1>5. \A n \in Nat : 0..(n - 1) \cup {n} = 0..n
  OBVIOUS
<1>6. db = 0..Job(s)[2]
  BY <1>2, <1>3, <1>4, <1>5
<1>7. jobs' = complete_job(Job(s), db)
  BY <1>4, Zenon
<1>8. /\ Changes(Job(s), "completed", jobs[Job(s)].token)
      /\ jobs'[Job(s)].ends = jobs[Job(s)].ends + 1 /\ jobs'[Job(s)].db = db
  BY <1>1, <1>7, Completing, Zenon
<1>9. DatabaseComplete'
  <2> SUFFICES ASSUME NEW k \in Jobs, jobs'[k].status = "completed" PROVE jobs'[k].db = 0..k[2]
    BY DEF DatabaseComplete
  <2>1. CASE k = Job(s)
    BY <1>6, <1>8, <2>1
  <2>2. CASE k # Job(s)
    BY <1>8, <2>2 DEF IInv, DatabaseComplete, Changes
  <2> QED
    BY <2>1, <2>2
<1> QED
  BY <1>8, <1>9

-----------------------------------------------------------------------------
(* What each kind of step keeps.                                           *)

\* The coordinator moves on and nothing else changes.
LEMMA QuietKeeps ==
    ASSUME IInv, UNCHANGED <<jobs, carry, vms, tasks, free, shown>>,
           daemon' \in Coordinators, spent' \in Bounds, spent'.claims = spent.claims,
           Up' => Up, Recovering'
    PROVE  IInv'
<1>1. Typed'
  BY DEF IInv, Typed, Job
<1>2. TokensFresh'
  BY DEF IInv, TokensFresh
<1>3. TasksHold'
  BY DEF IInv, TasksHold, Claimed, Job
<1>4. Recovering'
  OBVIOUS
<1>5. InOrder'
  BY DEF IInv, Typed, InOrder
<1>6. CarryCurrent'
  BY DEF IInv, CarryCurrent
<1>7. SeedCurrent'
  BY DEF IInv, SeedCurrent, Seeded, Job
<1>8. AppendDue'
  BY DEF IInv, AppendDue, Job
<1>9. TornDown'
  BY DEF IInv, TornDown, Job
<1>10. EndsOnce'
  BY DEF IInv, EndsOnce
<1>11. NoMachineInTheWay'
  BY DEF IInv, TasksHold, NoMachineInTheWay, Executing
<1>12. DatabaseComplete'
  BY DEF IInv, Typed, DatabaseComplete
<1>13. ReportFollowsStore'
  BY DEF IInv, ReportFollowsStore
<1>14. SlotsConserved'
  BY DEF IInv, SlotsConserved
<1> QED
  BY <1>1, <1>2, <1>3, <1>4, <1>5, <1>6, <1>7, <1>8, <1>9, <1>10, <1>11, <1>12, <1>13, <1>14
     DEF IInv

\* A task moves on, or ends, and nothing else changes.
LEMMA StepKeeps ==
    ASSUME IInv, Up, NEW s \in 1..Slots, NEW p \in {"start", "ended"}, tasks[s].pc # "none",
           p = "start" => tasks[s].pc = "prepare", tasks' = Step(s, p),
           UNCHANGED <<jobs, carry, vms, free, daemon>>, shown' \in [Jobs -> Words],
           \A k \in Jobs : shown'[k] = shown[k] \/ shown'[k] \in {"failed", "stalled"},
           spent' \in Bounds, spent'.claims = spent.claims
    PROVE  IInv'
<1>1. Moves(s, p) /\ tasks'[s].terminal = tasks[s].terminal /\ tasks'[s].seed = tasks[s].seed
  BY Moving DEF IInv, Places
<1>2. Typed'
  BY <1>1 DEF IInv, Typed, Job, Moves
<1>3. TokensFresh'
  BY <1>1 DEF IInv, TokensFresh, Moves
<1>4. TasksHold'
  BY <1>1 DEF IInv, TasksHold, Claimed, Job, Executing, Moves
<1>5. Recovering'
  BY DEF IInv, Recovering
<1>6. InOrder'
  BY DEF IInv, InOrder
<1>7. CarryCurrent'
  BY DEF IInv, CarryCurrent
<1>8. SeedCurrent'
  BY <1>1 DEF IInv, SeedCurrent, Seeded, Job, Moves
<1>9. AppendDue'
  BY <1>1 DEF IInv, AppendDue, Job, Moves
<1>10. TornDown'
  BY <1>1 DEF IInv, TornDown, Job, Moves
<1>11. EndsOnce'
  BY DEF IInv, EndsOnce
<1>12. NoMachineInTheWay'
  BY DEF IInv, Typed, TasksHold, NoMachineInTheWay, Executing
<1>13. DatabaseComplete'
  BY DEF IInv, DatabaseComplete
<1>14. ReportFollowsStore'
  BY DEF IInv, ReportFollowsStore
<1>15. SlotsConserved'
  BY <1>1 DEF IInv, SlotsConserved, Moves
<1> QED
  BY <1>2, <1>3, <1>4, <1>5, <1>6, <1>7, <1>8, <1>9, <1>10, <1>11, <1>12, <1>13, <1>14, <1>15
     DEF IInv

\* A claim outlives its lease.
LEMMA AgeKeeps ==
    ASSUME IInv, NEW j \in Jobs, jobs[j].status = "claimed",
           jobs' = [jobs EXCEPT ![j].old = TRUE],
           UNCHANGED <<carry, vms, tasks, free, daemon, shown>>, spent' \in Bounds,
           spent'.claims = spent.claims
    PROVE  IInv'
<1>1. Changes(j, "claimed",
        jobs[j].token) /\ jobs'[j].ends = jobs[j].ends /\ jobs'[j].db = jobs[j].db
  BY DEF IInv, Typed, Row, Changes
<1>2. \A k \in Jobs : jobs'[k].status = jobs[k].status
  BY <1>1 DEF Changes
<1>3. Typed'
  BY <1>1 DEF IInv, Typed, Job, Changes
<1>4. TokensFresh'
  BY DEF IInv, TokensFresh
<1>5. TasksHold'
  BY DEF IInv, TasksHold, Claimed, Job, Up
<1>6. Recovering'
  BY DEF IInv, Recovering, Pending
<1>7. InOrder'
  BY DEF IInv, InOrder
<1>8. CarryCurrent'
  BY DEF IInv, CarryCurrent
<1>9. SeedCurrent'
  BY DEF IInv, SeedCurrent, Seeded, Job, Up
<1>10. AppendDue'
  BY DEF IInv, AppendDue, Job, Up
<1>11. TornDown'
  BY DEF IInv, TornDown, Job, Up
<1>12. EndsOnce'
  BY DEF IInv, EndsOnce
<1>13. NoMachineInTheWay'
  BY DEF IInv, NoMachineInTheWay, Job, Up
<1>14. DatabaseComplete'
  BY DEF IInv, DatabaseComplete
<1>15. ReportFollowsStore'
  BY DEF IInv, ReportFollowsStore
<1>16. SlotsConserved'
  BY DEF IInv, SlotsConserved, Up
<1> QED
  BY <1>3, <1>4, <1>5, <1>6, <1>7, <1>8, <1>9, <1>10, <1>11, <1>12, <1>13, <1>14, <1>15,
     <1>16 DEF IInv

\* A new process: no task, every slot free, the rows as they were.
LEMMA BootKeeps ==
    ASSUME IInv, Boot
    PROVE  IInv'
<1>1. \A s \in 1..Slots : tasks'[s] = NoTask /\ NoTask.pc = "none"
  BY DEF Boot, NoTask
<1>2. UNCHANGED <<jobs, carry, vms, shown,
        spent>> /\ daemon'.pc = "boot" /\ daemon'.todo = {} /\ daemon' \in Coordinators
  BY <1>1 DEF Boot, Coordinators
<1>3. tasks' \in [1..Slots -> TaskRow]
  BY DEF Boot, NoTask, TaskRow, Places, Outcomes
<1>4. ~Up
  BY DEF Boot
<1>5. DOMAIN free' = 1..Slots /\ \A i \in 1..Slots : free'[i] = i
  BY DEF Boot
<1>6. free' \in Seq(1..Slots)
  BY RunnerAssumption DEF Boot
<1>7. Typed'
  BY <1>1, <1>2, <1>3, <1>6 DEF IInv, Typed
<1>8. TokensFresh'
  BY <1>1, <1>2 DEF IInv, TokensFresh
<1>9. TasksHold'
  BY <1>1 DEF TasksHold, Executing
<1>10. Recovering'
  BY <1>1, <1>2 DEF Recovering
<1>11. InOrder'
  BY <1>2 DEF IInv, InOrder
<1>12. CarryCurrent'
  BY <1>2 DEF IInv, CarryCurrent
<1>13. SeedCurrent'
  BY <1>1 DEF SeedCurrent, Seeded
<1>14. AppendDue'
  BY <1>1 DEF AppendDue
<1>15. TornDown'
  BY <1>1 DEF TornDown
<1>16. EndsOnce'
  BY <1>2 DEF IInv, EndsOnce
<1>17. NoMachineInTheWay'
  BY <1>2, <1>4 DEF IInv, NoMachineInTheWay
<1>18. DatabaseComplete'
  BY <1>2 DEF IInv, DatabaseComplete
<1>19. ReportFollowsStore'
  BY <1>2 DEF IInv, ReportFollowsStore
<1>20. SlotsConserved'
  BY <1>1, <1>5 DEF SlotsConserved
<1> QED
  BY <1>7, <1>8, <1>9, <1>10, <1>11, <1>12, <1>13, <1>14, <1>15, <1>16, <1>17, <1>18, <1>19,
     <1>20 DEF IInv

\* Recovery takes an orphan's machine and cancels its row.
LEMMA RecoverKeeps ==
    ASSUME IInv, NEW j \in Jobs, daemon.pc = "orphans", j \in daemon.todo,
           daemon' = [daemon EXCEPT !.todo = @ \ {j}], vms' = vms \ {j},
           jobs' = cancel_orphan(j), shown' \in {shown, [shown EXCEPT ![j] = "cancelled"]},
           UNCHANGED <<carry, tasks, free, spent>>
    PROVE  IInv'
<1>1. jobs[j].status = "running"
  BY DEF IInv, Recovering
<1>2. Changes(j, "cancelled",
        jobs[j].token) /\ jobs'[j].ends = jobs[j].ends + 1 /\ jobs'[j].db = jobs[j].db
  BY <1>1, Ending DEF IInv, cancel_orphan, Terminals
<1>3. daemon' \in Coordinators /\ daemon'.pc = daemon.pc /\ daemon'.todo = daemon.todo \ {j}
  BY DEF IInv, Typed, Coordinators
<1>4. \A s \in 1..Slots : tasks[s].pc = "none"
  BY DEF IInv, Recovering
<1>5. shown' \in [Jobs -> Words] /\ (\A k \in Jobs : k # j =>
        shown'[k] = shown[k]) /\ shown'[j] \in {shown[j], "cancelled"}
  BY DEF IInv, Typed, Words
<1>6. Typed'
  BY <1>2, <1>3, <1>5 DEF IInv, Typed, Job, Changes
<1>7. TokensFresh'
  BY <1>2 DEF IInv, TokensFresh, Changes
<1>8. TasksHold'
  BY <1>4 DEF TasksHold, Executing
<1>9. Recovering'
  BY <1>2 DEF IInv, Typed, Recovering, Coordinators, Changes
<1>10. InOrder'
  BY <1>1, <1>2, <1>3 DEF IInv, InOrder, Changes
<1>11. CarryCurrent'
  BY <1>2 DEF IInv, CarryCurrent, Unended, Changes
<1>12. SeedCurrent'
  BY DEF IInv, SeedCurrent, Seeded, Job, Up
<1>13. AppendDue'
  BY <1>4 DEF AppendDue
<1>14. TornDown'
  BY DEF IInv, TornDown, Job, Up
<1>15. EndsOnce'
  BY <1>1, <1>2, <1>5 DEF IInv, EndsOnce, Terminals, Changes
<1>16. NoMachineInTheWay'
  BY <1>2 DEF IInv, Typed, NoMachineInTheWay, Job, Up, Changes
<1>17. DatabaseComplete'
  BY <1>2 DEF IInv, DatabaseComplete, Changes
<1>18. ReportFollowsStore'
  BY <1>1, <1>2 DEF IInv, Typed, ReportFollowsStore, Changes
<1>19. SlotsConserved'
  BY DEF IInv, SlotsConserved, Up
<1> QED
  BY <1>6, <1>7, <1>8, <1>9, <1>10, <1>11, <1>12, <1>13, <1>14, <1>15, <1>16, <1>17, <1>18,
     <1>19 DEF IInv

\* An orphan whose cleanup or write failed waits for the next boot.
LEMMA RecoverLaterKeeps ==
    ASSUME IInv, NEW j \in Jobs, daemon.pc = "orphans", j \in daemon.todo,
           daemon' = [daemon EXCEPT !.todo = @ \ {j}], vms' \in {vms, vms \ {j}},
           UNCHANGED <<jobs, shown, carry, tasks, free>>, spent' \in Bounds,
           spent'.claims = spent.claims
    PROVE  IInv'
<1>1. daemon' \in Coordinators /\ daemon'.pc = daemon.pc /\ daemon'.todo = daemon.todo \ {j}
  BY DEF IInv, Typed, Coordinators
<1>2. Typed'
  BY <1>1 DEF IInv, Typed, Job
<1>3. TokensFresh'
  BY DEF IInv, TokensFresh
<1>4. TasksHold'
  BY DEF IInv, TasksHold, Claimed, Job, Up
<1>5. Recovering'
  BY DEF IInv, Recovering
<1>6. InOrder'
  BY DEF IInv, InOrder
<1>7. CarryCurrent'
  BY DEF IInv, CarryCurrent
<1>8. SeedCurrent'
  BY DEF IInv, SeedCurrent, Seeded, Job, Up
<1>9. AppendDue'
  BY DEF IInv, AppendDue, Job, Up
<1>10. TornDown'
  BY DEF IInv, TornDown, Job, Up
<1>11. EndsOnce'
  BY DEF IInv, EndsOnce
<1>12. NoMachineInTheWay'
  BY DEF IInv, NoMachineInTheWay, Job, Up
<1>13. DatabaseComplete'
  BY DEF IInv, DatabaseComplete
<1>14. ReportFollowsStore'
  BY DEF IInv, ReportFollowsStore
<1>15. SlotsConserved'
  BY DEF IInv, SlotsConserved, Up
<1> QED
  BY <1>2, <1>3, <1>4, <1>5, <1>6, <1>7, <1>8, <1>9, <1>10, <1>11, <1>12, <1>13, <1>14, <1>15
     DEF IInv

\* The database of a completed run is carried and the next run queued.
LEMMA AppendKeeps ==
    ASSUME IInv, NEW j \in Jobs, jobs[j].status = "completed",
           jobs' = append_next_benchmark_run(j), Pending(j), carry' = Carried(j),
           UNCHANGED <<vms, free, shown>>, spent' = spent, daemon' \in Coordinators, Trails,
           Up' = Up, Recovering', \A s \in 1..Slots : tasks'[s].pc = "append" => Job(s) # j
    PROVE  IInv'
<1>1. NextRun(j) \in Jobs /\ Changes(NextRun(j), "queued", 0) /\ jobs'[NextRun(j)].ends = 0
        /\ jobs[NextRun(j)].status = "absent"
  BY Appending DEF IInv, Pending
<1>2. (carry' \in [Subs -> SUBSET Int] /\ carry'[j[1]] = 0..j[2] /\ \A u \in Subs : u # j[1] =>
        carry'[u] = carry[u])
  BY DEF IInv, Typed, Carried, DatabaseComplete, Jobs, RunIds
<1>3. \A m \in Jobs : m[1] = j[1] => jobs[m].status \notin Unended
  BY <1>1, <1>2, JobIs DEF IInv, InOrder, Unended
<1>4. Typed'
  BY <1>1, <1>2 DEF IInv, Typed, Job, Changes, Trails
<1>5. TokensFresh'
  <2>1. \A k \in Jobs : jobs'[k].token <= spent'.claims
    BY <1>1 DEF IInv, Typed, TokensFresh, Bounds, Changes
  <2>2. \A s \in 1..Slots : tasks'[s].pc # "none" =>
          tasks[s].pc # "none" /\ tasks'[s].token = tasks[s].token
    BY DEF Trails
  <2> QED
    BY <2>1, <2>2 DEF IInv, TokensFresh
<1>6. TasksHold'
  <2> SUFFICES ASSUME Up, NEW t \in 1..Slots
        PROVE /\ tasks'[t].pc \in {"prepare", "start"}
                    /\ jobs'[tasks'[t].job].token = tasks'[t].token =>
                          jobs'[tasks'[t].job].status = "claimed"
              /\ tasks'[t].pc \in Executing =>
                    jobs'[tasks'[t].job].token = tasks'[t].token
                    /\ jobs'[tasks'[t].job].status = "running"
              /\ tasks'[t].pc = "append" =>
                    jobs'[tasks'[t].job].token = tasks'[t].token
                    /\ jobs'[tasks'[t].job].status = "completed"
    BY DEF TasksHold, Claimed, Job
  <2>1. CASE tasks'[t].pc \in {"none", "ended"}
    BY <2>1 DEF Executing
  <2>2. CASE tasks'[t].pc \notin {"none", "ended"}
    <3>1. tasks'[t] = tasks[t] /\ tasks[t].job \in Jobs /\ tasks[t].token # 0
      BY <2>2 DEF IInv, Typed, TokensFresh, Trails, Job
    <3>2. CASE tasks[t].job = NextRun(j)
      BY <1>1, <3>1 DEF IInv, TasksHold, Claimed, Job, Changes
    <3>3. CASE tasks[t].job # NextRun(j)
      BY <1>1, <3>1 DEF IInv, TasksHold, Claimed, Job, Changes
    <3> QED
      BY <3>2, <3>3
  <2> QED
    BY <2>1, <2>2
<1>7. Recovering'
  OBVIOUS
<1>8. InOrder'
  <2> SUFFICES ASSUME NEW i \in Jobs, NEW k \in Jobs, i[1] = k[1], i[2] < k[2],
                      jobs'[k].status # "absent"
               PROVE  jobs'[i].status = "completed"
    BY DEF InOrder
  <2>1. CASE k = NextRun(j)
    <3>1. i[1] = j[1] /\ (i[2] < j[2] \/ i = j) /\ i # NextRun(j)
      BY <2>1, JobIs
    <3> QED
      BY <1>1, <3>1 DEF IInv, InOrder, Changes
  <2>2. CASE k # NextRun(j)
    BY <1>1, <2>2 DEF IInv, InOrder, Changes
  <2> QED
    BY <2>1, <2>2
<1>9. CarryCurrent'
  <2> SUFFICES ASSUME NEW k \in Jobs, k[2] > 0, jobs'[k].status \in Unended
               PROVE  carry'[k[1]] = 0..(k[2] - 1)
    BY DEF CarryCurrent
  <2>1. CASE k = NextRun(j)
    BY <1>2, <2>1, JobIs
  <2>2. CASE k # NextRun(j)
    BY <1>1, <1>2, <1>3, <2>2, JobIs DEF IInv, CarryCurrent, Changes
  <2> QED
    BY <2>1, <2>2
<1>10. SeedCurrent'
  BY DEF IInv, SeedCurrent, Seeded, Job, Trails
<1>11. AppendDue'
  <2> SUFFICES ASSUME Up, NEW t \in 1..Slots, tasks'[t].pc = "append",
                      tasks'[t].job[2] + 1 < Runs
      PROVE  jobs'[NextRun(tasks'[t].job)].status = "absent"
    BY DEF AppendDue, Job
  <2>1. tasks'[t] = tasks[t] /\ Job(t) \in Jobs /\ Job(t) # j
    BY DEF IInv, Typed, Job, Trails
  <2>2. NextRun(Job(t)) \in Jobs /\ NextRun(Job(t)) # NextRun(j)
    BY <2>1, JobIs DEF Job
  <2>3. jobs[NextRun(Job(t))].status = "absent"
    BY <2>1 DEF IInv, AppendDue, Job
  <2> QED
    BY <1>1, <2>1, <2>2, <2>3 DEF Job, Changes
<1>12. TornDown'
  BY DEF IInv, TornDown, Job, Trails
<1>13. EndsOnce'
  BY <1>1 DEF IInv, EndsOnce, Terminals, Changes
<1>14. NoMachineInTheWay'
  BY <1>1 DEF IInv, Typed, TasksHold, NoMachineInTheWay, Executing, Changes
<1>15. DatabaseComplete'
  BY <1>1 DEF IInv, DatabaseComplete, Changes
<1>16. ReportFollowsStore'
  BY <1>1 DEF IInv, ReportFollowsStore, Changes
<1>17. SlotsConserved'
  BY DEF IInv, SlotsConserved, Trails
<1> QED
  BY <1>4, <1>5, <1>6, <1>7, <1>8, <1>9, <1>10, <1>11, <1>12, <1>13, <1>14, <1>15, <1>16,
     <1>17 DEF IInv

\* The database is carried but the next run is not, or not yet, queued.
LEMMA CarryKeeps ==
    ASSUME IInv, NEW j \in Jobs, jobs[j].status = "completed",
           j[2] + 1 < Runs => jobs[NextRun(j)].status = "absent", carry' = Carried(j),
           UNCHANGED <<jobs, vms, free, shown>>, spent' \in Bounds,
           spent'.claims = spent.claims, daemon' \in Coordinators, Trails, Up' = Up,
           Recovering'
    PROVE  IInv'
<1>1. (carry' \in [Subs -> SUBSET Int] /\ carry'[j[1]] = 0..j[2] /\ \A u \in Subs : u # j[1] =>
        carry'[u] = carry[u])
  BY DEF IInv, Typed, Carried, DatabaseComplete, Jobs, RunIds
<1>2. \A m \in Jobs : m[1] = j[1] => jobs[m].status \notin Unended
  <2> SUFFICES ASSUME NEW m \in Jobs, m[1] = j[1] PROVE jobs[m].status \notin Unended
    OBVIOUS
  <2>1. CASE m = j
    BY <2>1 DEF Unended
  <2>2. CASE m[2] < j[2]
    BY <2>2 DEF IInv, InOrder, Unended
  <2>3. CASE m[2] > j[2]
    <3>1. j[2] + 1 < Runs /\ NextRun(j) \in Jobs /\ NextRun(j)[1] = m[1] /\ (m = NextRun(j)
            \/ NextRun(j)[2] < m[2])
      BY <2>3, JobIs, RunnerAssumption DEF Jobs, RunIds
    <3> QED
      BY <3>1 DEF IInv, InOrder, Unended
  <2> QED
    BY <2>1, <2>2, <2>3, JobIs
<1>3. Typed'
  BY <1>1 DEF IInv, Typed, Job, Trails
<1>4. TokensFresh'
  BY DEF IInv, TokensFresh, Trails
<1>5. TasksHold'
  BY DEF IInv, TasksHold, Claimed, Job, Executing, Trails
<1>6. Recovering'
  OBVIOUS
<1>7. InOrder'
  BY DEF IInv, InOrder
<1>8. CarryCurrent'
  BY <1>1, <1>2, JobIs DEF IInv, CarryCurrent
<1>9. SeedCurrent'
  BY DEF IInv, SeedCurrent, Seeded, Job, Trails
<1>10. AppendDue'
  BY DEF IInv, AppendDue, Job, Trails
<1>11. TornDown'
  BY DEF IInv, TornDown, Job, Trails
<1>12. EndsOnce'
  BY DEF IInv, EndsOnce
<1>13. NoMachineInTheWay'
  BY DEF IInv, TasksHold, NoMachineInTheWay, Executing
<1>14. DatabaseComplete'
  BY DEF IInv, DatabaseComplete
<1>15. ReportFollowsStore'
  BY DEF IInv, ReportFollowsStore
<1>16. SlotsConserved'
  BY <1>1 DEF IInv, SlotsConserved, Trails
<1> QED
  BY <1>3, <1>4, <1>5, <1>6, <1>7, <1>8, <1>9, <1>10, <1>11, <1>12, <1>13, <1>14, <1>15,
     <1>16 DEF IInv

\* The sweep takes only claims back that never ran.
LEMMA SweepKeeps ==
    ASSUME IInv, daemon.pc = "sweep", daemon' = [daemon EXCEPT !.pc = "fill"],
           jobs' = Swept, UNCHANGED <<carry, vms, tasks, free, shown, spent>>
    PROVE  IInv'
<1>1. jobs' \in [Jobs -> Row] /\ (\A k \in Jobs : jobs'[k] = jobs[k]
        \/ (jobs[k].status = "claimed" /\ jobs'[k].status = "queued" /\ jobs'[k].token = 0
        /\ jobs'[k].ends = jobs[k].ends))
  BY Sweeping DEF IInv
<1>2. daemon' \in Coordinators /\ daemon'.pc = "fill" /\ Up' = Up
  BY DEF IInv, Typed, Coordinators, Up
<1>3. Typed'
  BY <1>1, <1>2 DEF IInv, Typed, Job
<1>4. TokensFresh'
  BY <1>1 DEF IInv, Typed, TokensFresh, Bounds
<1>5. TasksHold'
  BY <1>1 DEF IInv, Typed, TokensFresh, TasksHold, Claimed, Job, Up, Executing
<1>6. Recovering'
  BY DEF Recovering
<1>7. InOrder'
  BY <1>1 DEF IInv, InOrder
<1>8. CarryCurrent'
  BY <1>1 DEF IInv, CarryCurrent, Unended
<1>9. SeedCurrent'
  BY DEF IInv, SeedCurrent, Seeded, Job, Up
<1>10. AppendDue'
  <2> SUFFICES ASSUME Up, NEW t \in 1..Slots, tasks[t].pc = "append", Job(t)[2] + 1 < Runs
               PROVE  jobs'[NextRun(Job(t))].status = "absent"
    BY DEF AppendDue, Job, Up
  <2>1. Job(t) \in Jobs /\ NextRun(Job(t)) \in Jobs
    BY JobIs DEF IInv, Typed
  <2>2. jobs[NextRun(Job(t))].status = "absent"
    BY DEF IInv, AppendDue
  <2> QED
    BY <1>1, <1>2, <2>1, <2>2 DEF Changes
<1>11. TornDown'
  BY DEF IInv, TornDown, Job, Up
<1>12. EndsOnce'
  BY <1>1 DEF IInv, EndsOnce, Terminals
<1>13. NoMachineInTheWay'
  BY <1>1 DEF IInv, Typed, NoMachineInTheWay, Job, Up
<1>14. DatabaseComplete'
  BY <1>1 DEF IInv, DatabaseComplete
<1>15. ReportFollowsStore'
  BY <1>1 DEF IInv, ReportFollowsStore
<1>16. SlotsConserved'
  BY DEF IInv, SlotsConserved, Up
<1> QED
  BY <1>3, <1>4, <1>5, <1>6, <1>7, <1>8, <1>9, <1>10, <1>11, <1>12, <1>13, <1>14, <1>15,
     <1>16 DEF IInv

\* A claim whose job cannot be assembled: the row waits for the sweep.
LEMMA ClaimKeeps ==
    ASSUME IInv, Up, NEW j \in Jobs, jobs[j].status = "queued",
           jobs' = claim_next_queued(j, spent.claims + 1), spent' \in Bounds,
           spent'.claims = spent.claims + 1, UNCHANGED <<carry, vms, tasks, free, shown>>,
           daemon' \in Coordinators, Up', Recovering'
    PROVE  IInv'
<1>1. spent.claims \in Nat /\ spent.claims + 1 \in Nat
  BY DEF IInv, Typed, Bounds
<1>2. Changes(j, "claimed",
        spent.claims + 1) /\ jobs'[j].ends = jobs[j].ends /\ jobs'[j].db = jobs[j].db
  BY <1>1, Claiming DEF IInv
<1>3. spent.claims < spent.claims + 1 /\ \A n \in Int : n <= spent.claims =>
        n <= spent.claims + 1 /\ n # spent.claims + 1
  BY DEF IInv, Typed, Bounds
<1>4. Typed'
  BY <1>2 DEF IInv, Typed, Job, Changes
<1>5. TokensFresh'
  <2>1. \A k \in Jobs : jobs'[k].token <= spent'.claims
    <3>1. \A k \in Jobs : jobs[k].token \in Int /\ jobs[k].token <= spent.claims
      BY DEF IInv, Typed, Row, TokensFresh
    <3>2. \A k \in Jobs : jobs[k].token <= spent.claims + 1
      BY <1>3, <3>1
    <3>3. spent.claims + 1 <= spent.claims + 1
      BY <1>1
    <3> QED
      BY <1>2, <3>2, <3>3 DEF Changes
  <2>2. \A t \in 1..Slots : tasks[t].pc # "none" => tasks[t].token \in 1..spent'.claims
    <3>1. \A n \in Int : n \in 1..spent.claims => n \in 1..spent'.claims
      BY <1>1
    <3> QED
      BY <3>1 DEF IInv, TokensFresh
  <2> QED
    BY <2>1, <2>2 DEF IInv, TokensFresh
<1>6. TasksHold'
  BY <1>2 DEF IInv, Typed, TokensFresh, TasksHold, Claimed, Job, Executing, Changes
<1>7. Recovering'
  OBVIOUS
<1>8. InOrder'
  BY <1>2 DEF IInv, InOrder, Changes
<1>9. CarryCurrent'
  BY <1>2 DEF IInv, CarryCurrent, Unended, Changes
<1>10. SeedCurrent'
  BY DEF IInv, SeedCurrent, Seeded, Job
<1>11. AppendDue'
  <2> SUFFICES ASSUME Up, NEW t \in 1..Slots, tasks[t].pc = "append", Job(t)[2] + 1 < Runs
               PROVE  jobs'[NextRun(Job(t))].status = "absent"
    BY DEF AppendDue, Job
  <2>1. Job(t) \in Jobs /\ NextRun(Job(t)) \in Jobs
    BY JobIs DEF IInv, Typed
  <2>2. jobs[NextRun(Job(t))].status = "absent"
    BY DEF IInv, AppendDue
  <2> QED
    BY <1>2, <2>1, <2>2 DEF Changes
<1>12. TornDown'
  BY DEF IInv, TornDown, Job
<1>13. EndsOnce'
  BY <1>2 DEF IInv, EndsOnce, Terminals, Changes
<1>14. NoMachineInTheWay'
  BY <1>2 DEF IInv, Typed, NoMachineInTheWay, Job, Changes
<1>15. DatabaseComplete'
  BY <1>2 DEF IInv, DatabaseComplete, Changes
<1>16. ReportFollowsStore'
  BY <1>2 DEF IInv, ReportFollowsStore, Changes
<1>17. SlotsConserved'
  BY DEF IInv, SlotsConserved
<1> QED
  BY <1>4, <1>5, <1>6, <1>7, <1>8, <1>9, <1>10, <1>11, <1>12, <1>13, <1>14, <1>15, <1>16,
     <1>17 DEF IInv

\* A claim with a task, in the slot at the head of the queue.
LEMMA TakeKeeps ==
    ASSUME IInv, daemon.pc = "fill", free # <<>>, NEW j \in Jobs, jobs[j].status = "queued",
           jobs' = claim_next_queued(j, spent.claims + 1),
           tasks' = [tasks EXCEPT ![Head(free)] = [NoTask EXCEPT !.job = j, !.token = spent.claims + 1, !.pc = "prepare"]],
           free' = Tail(free), spent' \in Bounds, spent'.claims = spent.claims + 1,
           UNCHANGED <<carry, vms, shown, daemon>>
    PROVE  IInv'
<1>1. Up /\ Up'
  BY DEF Up
<1>2. spent.claims \in Nat /\ spent.claims + 1 \in Nat
  BY DEF IInv, Typed, Bounds
<1>3. Changes(j, "claimed",
        spent.claims + 1) /\ jobs'[j].ends = jobs[j].ends /\ jobs'[j].db = jobs[j].db
  BY <1>2, Claiming DEF IInv
<1>4. spent.claims < spent.claims + 1 /\ \A n \in Int : n <= spent.claims =>
        n <= spent.claims + 1 /\ n # spent.claims + 1
  BY DEF IInv, Typed, Bounds
<1>5. PICK s \in 1..Slots : s = Head(free) /\ tasks[s].pc = "none"
  <2>1. free \in Seq(1..Slots) /\ free # <<>>
    BY DEF IInv, Typed
  <2>a. 1 \in DOMAIN free /\ Head(free) = free[1]
    BY <2>1
  <2>2. Head(free) \in 1..Slots /\ Head(free) = free[1] /\ 1 \in DOMAIN free
    <3>1. \A q \in Seq(1..Slots) : q # <<>> => Head(q) \in 1..Slots
      BY HeadTailProperties
    <3> QED
      BY <2>1, <2>a, <3>1
  <2> QED
    BY <1>1, <2>2 DEF IInv, SlotsConserved
<1>6. /\ tasks' \in [1..Slots -> TaskRow] /\ tasks'[s].job = j
        /\ tasks'[s].token = spent.claims + 1
     /\ tasks'[s].pc = "prepare" /\ \A t \in 1..Slots : t # s => tasks'[t] = tasks[t]
  <2>1. PICK n \in Nat : n = spent.claims + 1
    BY <1>2
  <2> DEFINE task == [NoTask EXCEPT !.job = j, !.token = n, !.pc = "prepare"]
  <2>2. task \in TaskRow /\ task.job = j /\ task.token = n /\ task.pc = "prepare"
    BY DEF NoTask, TaskRow, Places, Outcomes
  <2>3. tasks' = [tasks EXCEPT ![s] = task]
    BY <1>5, <2>1
  <2> HIDE DEF task
  <2> QED
    BY <2>1, <2>2, <2>3 DEF IInv, Typed
<1>7. free' \in Seq(1..Slots) /\ DOMAIN free' = 1..(Len(free) - 1)
        /\ \A i \in 1..(Len(free) - 1) : free'[i] = free[i + 1]
  BY DEF IInv, Typed
<1>8. Typed'
  BY <1>3, <1>6 DEF IInv, Typed, Job, Changes
<1>9. TokensFresh'
  <2>1. \A k \in Jobs : jobs'[k].token <= spent'.claims
    <3>1. \A k \in Jobs : jobs[k].token \in Int /\ jobs[k].token <= spent.claims
      BY DEF IInv, Typed, Row, TokensFresh
    <3>2. \A k \in Jobs : jobs[k].token <= spent.claims + 1
      BY <1>4, <3>1
    <3>3. spent.claims + 1 <= spent.claims + 1
      BY <1>2
    <3> QED
      BY <1>3, <3>2, <3>3 DEF Changes
  <2>2. \A t \in 1..Slots : tasks'[t].pc # "none" => tasks'[t].token \in 1..spent'.claims
    <3>1. \A n \in Int : n \in 1..spent.claims => n \in 1..spent'.claims
      BY <1>2
    <3>2. spent.claims + 1 \in 1..spent'.claims
      BY <1>2
    <3> QED
      BY <3>1, <3>2 DEF IInv, TokensFresh
  <2>3. \A t \in 1..Slots : t # s /\ tasks[t].pc # "none" => tasks[t].token # spent.claims + 1
    BY <1>2 DEF IInv, TokensFresh
  <2>4. ASSUME NEW u \in 1..Slots, NEW t \in 1..Slots, u # t, tasks'[u].pc # "none",
          tasks'[t].pc # "none"
        PROVE  tasks'[u].token # tasks'[t].token
    <3>1. CASE u = s
      BY <1>6, <2>3, <2>4, <3>1
    <3>3. CASE t = s
      BY <1>6, <2>3, <2>4, <3>3
    <3>2. CASE u # s /\ t # s
      BY <1>6, <2>4, <3>2 DEF IInv, TokensFresh
    <3> QED
      BY <3>1, <3>2, <3>3
  <2> QED
    BY <2>1, <2>2, <2>4 DEF TokensFresh
<1>10. TasksHold'
  <2> SUFFICES ASSUME NEW t \in 1..Slots
        PROVE /\ tasks'[t].pc \in {"prepare", "start"}
                    /\ jobs'[tasks'[t].job].token = tasks'[t].token =>
                          jobs'[tasks'[t].job].status = "claimed"
              /\ tasks'[t].pc \in Executing =>
                    jobs'[tasks'[t].job].token = tasks'[t].token
                    /\ jobs'[tasks'[t].job].status = "running"
              /\ tasks'[t].pc = "append" =>
                    jobs'[tasks'[t].job].token = tasks'[t].token
                    /\ jobs'[tasks'[t].job].status = "completed"
    BY DEF TasksHold, Claimed, Job
  <2>1. CASE t = s
    BY <1>3, <1>6, <2>1 DEF Changes, Executing
  <2>2. CASE t # s /\ tasks[t].pc # "none"
    <3>1. tasks'[t] = tasks[t] /\ tasks[t].job \in Jobs /\ tasks[t].token # spent.claims + 1
      BY <1>2, <1>6, <2>2 DEF IInv, Typed, TokensFresh, Job
    <3> QED
      BY <1>1, <1>3, <3>1 DEF IInv, TasksHold, Claimed, Job, Changes, Executing
  <2>3. CASE t # s /\ tasks[t].pc = "none"
    BY <1>6, <2>3 DEF Executing
  <2> QED
    BY <2>1, <2>2, <2>3
<1>11. Recovering'
  BY DEF Recovering
<1>12. InOrder'
  BY <1>3, <1>6 DEF IInv, InOrder, Changes
<1>13. CarryCurrent'
  BY <1>3 DEF IInv, CarryCurrent, Unended, Changes
<1>14. SeedCurrent'
  BY DEF IInv, SeedCurrent, Seeded, Job, Up
<1>15. AppendDue'
  <2> SUFFICES ASSUME NEW t \in 1..Slots, tasks'[t].pc = "append", tasks'[t].job[2] + 1 < Runs
               PROVE  jobs'[NextRun(tasks'[t].job)].status = "absent"
    BY DEF AppendDue, Job
  <2>0. t # s /\ tasks'[t] = tasks[t]
    BY <1>6
  <2>1. Job(t) \in Jobs /\ NextRun(Job(t)) \in Jobs
    BY JobIs DEF IInv, Typed, Job
  <2>2. jobs[NextRun(Job(t))].status = "absent"
    BY <1>1 DEF IInv, AppendDue, Job
  <2> QED
    BY <1>3, <2>1, <2>2 DEF Changes, Job
<1>16. TornDown'
  BY DEF IInv, TornDown, Job, Up
<1>17. EndsOnce'
  BY <1>1, <1>3, <1>4 DEF IInv, EndsOnce, Terminals, Changes
<1>18. NoMachineInTheWay'
  BY <1>1, <1>3 DEF IInv, Typed, NoMachineInTheWay, Changes
<1>19. DatabaseComplete'
  BY <1>1, <1>2, <1>3 DEF IInv, DatabaseComplete, Changes
<1>20. ReportFollowsStore'
  BY <1>3, <1>4 DEF IInv, ReportFollowsStore, Changes
<1>21. SlotsConserved'
  <2>1. Len(free) \in Nat /\ Len(free) > 0 /\ DOMAIN free = 1..Len(free) /\ free[1] = s
    BY <1>5 DEF IInv, Typed
  <2>2. \A i \in 1..(Len(free) - 1) : i + 1 \in DOMAIN free /\ i + 1 # 1
    BY <2>1
  <2>3. \A i \in DOMAIN free : i = 1 \/ (i - 1 \in 1..(Len(free) - 1) /\ free'[i - 1] = free[i])
    BY <1>7, <2>1
  <2>4. \A i, k \in DOMAIN free : free[i] = free[k] => i = k
    BY <1>1 DEF IInv, SlotsConserved
  <2>5. \A t \in 1..Slots : (\E i \in DOMAIN free : free[i] = t) <=> tasks[t].pc = "none"
    BY <1>1 DEF IInv, SlotsConserved
  <2>6. \A i, k \in DOMAIN free' : free'[i] = free'[k] => i = k
    <3> SUFFICES ASSUME NEW i \in 1..(Len(free) - 1), NEW k \in 1..(Len(free) - 1),
                        free'[i] = free'[k]
                 PROVE  i = k
      BY <1>7
    <3>1. i + 1 = k + 1
      BY <1>7, <2>2, <2>4
    <3> QED
      BY <2>1, <3>1
  <2>7. ASSUME NEW t \in 1..Slots
        PROVE  (\E i \in DOMAIN free' : free'[i] = t) <=> tasks'[t].pc = "none"
    <3>1. CASE t = s
      <4>1. \A i \in DOMAIN free' : free'[i] # s
        BY <2>1, <2>4
      <4> QED
        BY <1>6, <3>1, <4>1
    <3>2. CASE t # s
      <4>1. (\E i \in DOMAIN free' : free'[i] = t) <=> (\E i \in DOMAIN free : free[i] = t)
        <5>1. ASSUME NEW i \in DOMAIN free,
                free[i] = t PROVE \E k \in DOMAIN free' : free'[k] = t
          BY <1>7, <2>1, <2>3, <3>2, <5>1
        <5>2. ASSUME NEW i \in DOMAIN free',
                free'[i] = t PROVE \E k \in DOMAIN free : free[k] = t
          BY <1>7, <2>2, <5>2
        <5> QED
          BY <5>1, <5>2
      <4> QED
        BY <1>6, <2>5, <3>2, <4>1
    <3> QED
      BY <3>1, <3>2
  <2> QED
    BY <2>6, <2>7 DEF SlotsConserved
<1> QED
  BY <1>8, <1>9, <1>10, <1>11, <1>12, <1>13, <1>14, <1>15, <1>16, <1>17, <1>18, <1>19, <1>20,
     <1>21 DEF IInv

\* An ended task gives its slot back.
LEMMA ReapKeeps ==
    ASSUME IInv, NEW s \in 1..Slots, daemon.pc = "wait", tasks[s].pc = "ended",
           free' = Append(free, s), tasks' = [tasks EXCEPT ![s] = NoTask],
           daemon' = [daemon EXCEPT !.pc = "sweep"],
           UNCHANGED <<jobs, carry, vms, shown, spent>>
    PROVE  IInv'
<1>1. Up /\ Up' /\ daemon' \in Coordinators /\ daemon'.pc = "sweep"
  BY DEF IInv, Typed, Up, Coordinators
<1>2. /\ tasks' \in [1..Slots -> TaskRow] /\ tasks'[s].pc = "none"
     /\ \A t \in 1..Slots : t # s => tasks'[t] = tasks[t]
  BY DEF IInv, Typed, NoTask, TaskRow, Places, Outcomes
<1>3. /\ free' \in Seq(1..Slots) /\ Len(free) \in Nat /\ DOMAIN free = 1..Len(free)
        /\ DOMAIN free' = 1..(Len(free) + 1)
     /\ free'[Len(free) + 1] = s /\ \A i \in 1..Len(free) : free'[i] = free[i]
  BY DEF IInv, Typed
<1>4. Typed'
  BY <1>1, <1>2 DEF IInv, Typed, Job
<1>5. TokensFresh'
  BY <1>2 DEF IInv, TokensFresh
<1>6. TasksHold'
  BY <1>2 DEF IInv, TasksHold, Claimed, Job, Up, Executing
<1>7. Recovering'
  BY DEF Recovering
<1>8. InOrder'
  BY DEF IInv, InOrder
<1>9. CarryCurrent'
  BY DEF IInv, CarryCurrent
<1>10. SeedCurrent'
  BY <1>2 DEF IInv, SeedCurrent, Seeded, Job, Up
<1>11. AppendDue'
  BY <1>2 DEF IInv, AppendDue, Job, Up
<1>12. TornDown'
  BY <1>2 DEF IInv, TornDown, Job, Up
<1>13. EndsOnce'
  BY DEF IInv, EndsOnce
<1>14. NoMachineInTheWay'
  BY DEF IInv, NoMachineInTheWay, Job, Up
<1>15. DatabaseComplete'
  BY DEF IInv, DatabaseComplete
<1>16. ReportFollowsStore'
  BY DEF IInv, ReportFollowsStore
<1>17. SlotsConserved'
  <2>1. \A i, k \in DOMAIN free : free[i] = free[k] => i = k
    BY <1>1 DEF IInv, SlotsConserved
  <2>2. \A t \in 1..Slots : (\E i \in DOMAIN free : free[i] = t) <=> tasks[t].pc = "none"
    BY <1>1 DEF IInv, SlotsConserved
  <2>3. \A i \in DOMAIN free : free[i] # s
    BY <2>2
  <2>4. \A i \in DOMAIN free' : i \in DOMAIN free \/ i = Len(free) + 1
    BY <1>3
  <2>5. \A i, k \in DOMAIN free' : free'[i] = free'[k] => i = k
    BY <2>1, <2>3
  <2>6. Len(free) + 1 \in DOMAIN free' /\ DOMAIN free \subseteq DOMAIN free'
    BY <1>3
  <2>7. ASSUME NEW t \in 1..Slots
        PROVE  (\E i \in DOMAIN free' : free'[i] = t) <=> tasks'[t].pc = "none"
    <3>1. CASE t = s
      BY <1>2, <3>1
    <3>2. CASE t # s
      <4>1. (\E i \in DOMAIN free' : free'[i] = t) <=> (\E i \in DOMAIN free : free[i] = t)
        BY <3>2
      <4> QED
        BY <1>2, <2>2, <3>2, <4>1
    <3> QED
      BY <3>1, <3>2
  <2> QED
    BY <2>5, <2>7 DEF SlotsConserved
<1> QED
  BY <1>4, <1>5, <1>6, <1>7, <1>8, <1>9, <1>10, <1>11, <1>12, <1>13, <1>14, <1>15, <1>16,
     <1>17 DEF IInv

\* A task that holds its claim fails or cancels its job, and ends.
LEMMA EndKeeps ==
    ASSUME IInv, Up, NEW s \in 1..Slots, NEW st \in {"failed", "cancelled"}, Claimed(s),
           jobs' = Ended(Job(s), st), tasks' = Step(s, "ended"),
           UNCHANGED <<carry, vms, free, daemon>>, spent' \in Bounds,
           spent'.claims = spent.claims, tasks[s].pc \in {"prepare", "finish"},
           shown' = IF tasks[s].pc = "finish" THEN [shown EXCEPT ![Job(s)] = st] ELSE shown,
           tasks[s].terminal = "abandoned" => st = "failed"
    PROVE  IInv'
<1>1. daemon.pc \notin {"boot", "orphans", "repeats"} /\ tasks[s].pc # "none" /\ Job(s) \in Jobs
  BY DEF IInv, Typed, Recovering
<1>2. Changes(Job(s), st,
        jobs[Job(s)].token) /\ jobs'[Job(s)].ends = jobs[Job(s)].ends + 1
        /\ jobs'[Job(s)].db = jobs[Job(s)].db
  BY <1>1, Ending DEF IInv, Terminals
<1>3. Moves(s, "ended") /\ tasks'[s].terminal = tasks[s].terminal
        /\ tasks'[s].seed = tasks[s].seed
  BY Moving DEF IInv, Places
<1>4. \A t \in 1..Slots : t # s /\ tasks[t].pc # "none" => tasks[t].token # jobs[Job(s)].token
  BY DEF IInv, TokensFresh, Claimed
<1>5. jobs[Job(s)].status \in {"claimed", "running"}
  BY DEF IInv, TasksHold, Executing
<1>6. shown' \in [Jobs -> Words] /\ (\A k \in Jobs : k # Job(s) =>
        shown'[k] = shown[k]) /\ shown'[Job(s)] \in {shown[Job(s)], st}
     /\ (tasks[s].pc = "finish" => shown'[Job(s)] = st)
  BY DEF IInv, Typed, Words
<1>7. Typed'
  BY <1>2, <1>3, <1>6 DEF IInv, Typed, Job, Changes, Moves
<1>8. TokensFresh'
  BY <1>2, <1>3 DEF IInv, TokensFresh, Changes, Moves
<1>9. TasksHold'
  <2> SUFFICES ASSUME NEW t \in 1..Slots
        PROVE /\ tasks'[t].pc \in {"prepare", "start"}
                    /\ jobs'[tasks'[t].job].token = tasks'[t].token =>
                          jobs'[tasks'[t].job].status = "claimed"
              /\ tasks'[t].pc \in Executing =>
                    jobs'[tasks'[t].job].token = tasks'[t].token
                    /\ jobs'[tasks'[t].job].status = "running"
              /\ tasks'[t].pc = "append" =>
                    jobs'[tasks'[t].job].token = tasks'[t].token
                    /\ jobs'[tasks'[t].job].status = "completed"
    BY DEF TasksHold, Claimed, Job
  <2>1. CASE t = s
    BY <1>3, <2>1 DEF Executing, Moves
  <2>2. CASE t # s /\ tasks[t].pc # "none"
    <3>1. tasks'[t] = tasks[t] /\ tasks[t].job \in Jobs /\ tasks[t].token # jobs[Job(s)].token
      BY <1>3, <1>4, <2>2 DEF IInv, Typed, Job, Moves
    <3> QED
      BY <1>2, <3>1 DEF IInv, TasksHold, Claimed, Job, Changes
  <2>3. CASE t # s /\ tasks[t].pc = "none"
    BY <1>3, <2>3 DEF Executing, Moves
  <2> QED
    BY <2>1, <2>2, <2>3
<1>10. Recovering'
  BY DEF IInv, Recovering
<1>11. InOrder'
  BY <1>2, <1>5 DEF IInv, InOrder, Changes
<1>12. CarryCurrent'
  BY <1>2 DEF IInv, CarryCurrent, Unended, Changes
<1>13. SeedCurrent'
  BY <1>3 DEF IInv, SeedCurrent, Seeded, Job, Moves
<1>14. AppendDue'
  <2> SUFFICES ASSUME NEW t \in 1..Slots, tasks'[t].pc = "append", tasks'[t].job[2] + 1 < Runs
               PROVE  jobs'[NextRun(tasks'[t].job)].status = "absent"
    BY DEF AppendDue, Job
  <2>0. t # s /\ tasks'[t] = tasks[t]
    BY <1>3 DEF Moves
  <2>1. Job(t) \in Jobs /\ NextRun(Job(t)) \in Jobs
    BY <2>0, JobIs DEF IInv, Typed, Job
  <2>2. jobs[NextRun(Job(t))].status = "absent"
    BY <2>0 DEF IInv, AppendDue, Job
  <2> QED
    BY <1>2, <1>5, <2>0, <2>1, <2>2 DEF Changes, Job
<1>15. TornDown'
  BY <1>3 DEF IInv, TornDown, Job, Moves
<1>16. EndsOnce'
  BY <1>1, <1>2, <1>5 DEF IInv, EndsOnce, Terminals, Changes
<1>17. NoMachineInTheWay'
  BY <1>2 DEF IInv, Typed, NoMachineInTheWay, Changes
<1>18. DatabaseComplete'
  BY <1>2 DEF IInv, DatabaseComplete, Changes
<1>19. ReportFollowsStore'
  BY <1>2, <1>5 DEF IInv, ReportFollowsStore, Changes
<1>20. SlotsConserved'
  BY <1>3 DEF IInv, SlotsConserved, Moves
<1> QED
  BY <1>7, <1>8, <1>9, <1>10, <1>11, <1>12, <1>13, <1>14, <1>15, <1>16, <1>17, <1>18, <1>19,
     <1>20 DEF IInv

\* A task that still holds its claim marks the row running.
LEMMA StartKeeps ==
    ASSUME IInv, Up, NEW s \in 1..Slots, tasks[s].pc = "start", Claimed(s),
           jobs[Job(s)].status = "claimed", jobs' = mark_running(Job(s)),
           tasks' = Step(s, "gate"), UNCHANGED <<carry, vms, free, daemon, shown, spent>>
    PROVE  IInv'
<1>1. daemon.pc \notin {"boot", "orphans", "repeats"} /\ tasks[s].pc # "none" /\ Job(s) \in Jobs
  BY DEF IInv, Typed, Recovering
<1>2. Changes(Job(s), "running",
        jobs[Job(s)].token) /\ jobs'[Job(s)].ends = jobs[Job(s)].ends
        /\ jobs'[Job(s)].db = jobs[Job(s)].db
  BY <1>1, Running DEF IInv
<1>3. Moves(s, "gate") /\ tasks'[s].terminal = tasks[s].terminal
        /\ tasks'[s].seed = tasks[s].seed
  BY Moving DEF IInv, Places
<1>4. \A t \in 1..Slots : t # s /\ tasks[t].pc # "none" => tasks[t].token # jobs[Job(s)].token
  BY DEF IInv, TokensFresh, Claimed
<1>5. Typed'
  BY <1>2, <1>3 DEF IInv, Typed, Job, Changes, Moves
<1>6. TokensFresh'
  <2>1. \A k \in Jobs : jobs'[k].token = jobs[k].token
    BY <1>2 DEF Changes
  <2>2. \A t \in 1..Slots : tasks'[t].token = tasks[t].token /\ (tasks'[t].pc # "none" =>
          tasks[t].pc # "none")
    BY <1>3 DEF Moves
  <2> QED
    BY <2>1, <2>2 DEF IInv, TokensFresh
<1>7. TasksHold'
  <2> SUFFICES ASSUME NEW t \in 1..Slots
        PROVE /\ tasks'[t].pc \in {"prepare", "start"}
                    /\ jobs'[tasks'[t].job].token = tasks'[t].token =>
                          jobs'[tasks'[t].job].status = "claimed"
              /\ tasks'[t].pc \in Executing =>
                    jobs'[tasks'[t].job].token = tasks'[t].token
                    /\ jobs'[tasks'[t].job].status = "running"
              /\ tasks'[t].pc = "append" =>
                    jobs'[tasks'[t].job].token = tasks'[t].token
                    /\ jobs'[tasks'[t].job].status = "completed"
    BY DEF TasksHold, Claimed, Job
  <2>1. CASE t = s
    BY <1>2, <1>3, <2>1 DEF Changes, Moves, Job, Claimed
  <2>2. CASE t # s /\ tasks[t].pc # "none"
    <3>1. tasks'[t] = tasks[t] /\ tasks[t].job \in Jobs /\ tasks[t].token # jobs[Job(s)].token
      BY <1>3, <1>4, <2>2 DEF IInv, Typed, Job, Moves
    <3> QED
      BY <1>2, <3>1 DEF IInv, TasksHold, Claimed, Job, Changes
  <2>3. CASE t # s /\ tasks[t].pc = "none"
    BY <1>3, <2>3 DEF Executing, Moves
  <2> QED
    BY <2>1, <2>2, <2>3
<1>8. Recovering'
  BY DEF IInv, Recovering
<1>9. InOrder'
  BY <1>2 DEF IInv, InOrder, Changes
<1>10. CarryCurrent'
  BY <1>2 DEF IInv, CarryCurrent, Unended, Changes
<1>11. SeedCurrent'
  BY <1>3 DEF IInv, SeedCurrent, Seeded, Job, Moves
<1>12. AppendDue'
  <2> SUFFICES ASSUME NEW t \in 1..Slots, tasks'[t].pc = "append", tasks'[t].job[2] + 1 < Runs
               PROVE  jobs'[NextRun(tasks'[t].job)].status = "absent"
    BY DEF AppendDue, Job
  <2>0. t # s /\ tasks'[t] = tasks[t]
    BY <1>3 DEF Moves
  <2>1. Job(t) \in Jobs /\ NextRun(Job(t)) \in Jobs
    BY <2>0, JobIs DEF IInv, Typed, Job
  <2>2. jobs[NextRun(Job(t))].status = "absent"
    BY <2>0 DEF IInv, AppendDue, Job
  <2> QED
    BY <1>2, <2>0, <2>1, <2>2 DEF Changes, Job
<1>13. TornDown'
  BY <1>3 DEF IInv, TornDown, Job, Moves
<1>14. EndsOnce'
  BY <1>1, <1>2 DEF IInv, EndsOnce, Terminals, Changes
<1>15. NoMachineInTheWay'
  BY <1>2 DEF IInv, Typed, NoMachineInTheWay, Changes
<1>16. DatabaseComplete'
  BY <1>2 DEF IInv, DatabaseComplete, Changes
<1>17. ReportFollowsStore'
  BY <1>2 DEF IInv, ReportFollowsStore, Changes
<1>18. SlotsConserved'
  BY <1>3 DEF IInv, SlotsConserved, Moves
<1> QED
  BY <1>5, <1>6, <1>7, <1>8, <1>9, <1>10, <1>11, <1>12, <1>13, <1>14, <1>15, <1>16, <1>17,
     <1>18 DEF IInv

\* The machine boots on the database of all the runs before.
LEMMA RunKeeps ==
    ASSUME IInv, Up, NEW s \in 1..Slots, worker_run(s)
    PROVE  IInv'
<1>1. tasks[s].pc = "gate" /\ vms' = vms \cup {Job(s)} /\ UNCHANGED <<jobs, carry, free,
        daemon, shown, spent>>
  BY DEF worker_run
<1>2. daemon.pc \notin {"boot", "orphans", "repeats"} /\ tasks[s].pc # "none" /\ Job(s) \in Jobs
  BY <1>1 DEF IInv, Typed, Recovering
<1>3. Claimed(s) /\ jobs[Job(s)].status = "running"
  BY <1>1 DEF IInv, TasksHold, Executing
<1>4. sqlite_seed_key_for(Job(s)) = 0..(Job(s)[2] - 1)
  <2>1. Job(s)[1] \in Subs /\ Job(s)[2] \in Nat
    BY <1>2, JobIs
  <2>2. CASE Job(s)[2] > 0
    BY <1>2, <1>3, <2>2 DEF IInv, CarryCurrent, Unended, sqlite_seed_key_for
  <2>3. CASE Job(s)[2] = 0
    BY <2>3 DEF sqlite_seed_key_for
  <2> QED
    BY <2>1, <2>2, <2>3
<1>5. Moves(s, "vm") /\ tasks'[s].terminal = tasks[s].terminal
        /\ tasks'[s].seed = 0..(Job(s)[2] - 1)
  <2>1. 0..(Job(s)[2] - 1) \in SUBSET Int /\ tasks[s] \in TaskRow
    BY DEF IInv, Typed
  <2>2. tasks' = [tasks EXCEPT ![s].pc = "vm", ![s].seed = 0..(Job(s)[2] - 1)]
    BY <1>4 DEF worker_run
  <2> QED
    BY <2>1, <2>2 DEF IInv, Typed, TaskRow, Places, Moves
<1>6. \A t \in 1..Slots : t # s /\ tasks[t].pc # "none" => tasks[t].token # jobs[Job(s)].token
  BY <1>2, <1>3 DEF IInv, TokensFresh, Claimed
<1>7. \A t \in 1..Slots : t # s /\ tasks[t].pc \in Executing \cup {"append"} => Job(t) # Job(s)
  BY <1>6 DEF IInv, TasksHold, Executing, Claimed
<1>8. Typed'
  BY <1>1, <1>5 DEF IInv, Typed, Job, Moves
<1>9. TokensFresh'
  BY <1>1, <1>2, <1>5 DEF IInv, TokensFresh, Moves
<1>10. TasksHold'
  <2> SUFFICES ASSUME NEW t \in 1..Slots
        PROVE /\ tasks'[t].pc \in {"prepare", "start"}
                    /\ jobs'[tasks'[t].job].token = tasks'[t].token =>
                          jobs'[tasks'[t].job].status = "claimed"
              /\ tasks'[t].pc \in Executing =>
                    jobs'[tasks'[t].job].token = tasks'[t].token
                    /\ jobs'[tasks'[t].job].status = "running"
              /\ tasks'[t].pc = "append" =>
                    jobs'[tasks'[t].job].token = tasks'[t].token
                    /\ jobs'[tasks'[t].job].status = "completed"
    BY DEF TasksHold, Claimed, Job
  <2>1. CASE t = s
    BY <1>1, <1>5 DEF IInv, TasksHold, Executing, Moves, Job, Claimed
  <2>2. CASE t # s /\ tasks[t].pc # "none"
    <3>1. tasks'[t] = tasks[t] /\ tasks[t].job \in Jobs /\ tasks[t].token # jobs[Job(s)].token
      BY <1>5, <1>6, <2>2 DEF IInv, Typed, Job, Moves
    <3> QED
      BY <1>1, <3>1 DEF IInv, TasksHold, Claimed, Job
  <2>3. CASE t # s /\ tasks[t].pc = "none"
    BY <1>5, <2>3 DEF Executing, Moves
  <2> QED
    BY <2>1, <2>2, <2>3
<1>11. Recovering'
  BY <1>1 DEF IInv, Recovering
<1>12. InOrder'
  BY <1>1 DEF IInv, InOrder
<1>13. CarryCurrent'
  BY <1>1 DEF IInv, CarryCurrent
<1>14. SeedCurrent'
  BY <1>5 DEF IInv, SeedCurrent, Seeded, Job, Moves
<1>15. AppendDue'
  <2> SUFFICES ASSUME NEW t \in 1..Slots, tasks'[t].pc = "append", tasks'[t].job[2] + 1 < Runs
               PROVE  jobs'[NextRun(tasks'[t].job)].status = "absent"
    BY DEF AppendDue, Job
  <2>0. t # s /\ tasks'[t] = tasks[t]
    BY <1>5 DEF Moves
  <2>1. Job(t) \in Jobs /\ NextRun(Job(t)) \in Jobs
    BY <2>0, JobIs DEF IInv, Typed, Job
  <2>2. jobs[NextRun(Job(t))].status = "absent"
    BY <2>0 DEF IInv, AppendDue, Job
  <2> QED
    BY <1>1, <1>2, <1>3, <1>4, <1>5, <1>6, <1>7, <2>0, <2>1, <2>2 DEF Job
<1>16. TornDown'
  BY <1>1, <1>5, <1>7 DEF IInv, TornDown, Job, Executing, Moves
<1>17. EndsOnce'
  BY <1>1 DEF IInv, EndsOnce
<1>18. NoMachineInTheWay'
  BY <1>1 DEF IInv, Typed, TasksHold, NoMachineInTheWay, Executing
<1>19. DatabaseComplete'
  BY <1>1 DEF IInv, DatabaseComplete
<1>20. ReportFollowsStore'
  BY <1>1 DEF IInv, ReportFollowsStore
<1>21. SlotsConserved'
  BY <1>1, <1>5 DEF IInv, SlotsConserved, Moves
<1> QED
  BY <1>8, <1>9, <1>10, <1>11, <1>12, <1>13, <1>14, <1>15, <1>16, <1>17, <1>18, <1>19, <1>20,
     <1>21 DEF IInv

\* The machine is torn down, with an outcome.
LEMMA FinishKeeps ==
    ASSUME IInv, Up, NEW s \in 1..Slots,
           NEW o \in {"aborted", "completed", "failed", "setup"}, tasks[s].pc = "vm",
           vms' \in {vms, vms \ {Job(s)}}, o = "completed" => vms' = vms \ {Job(s)},
           tasks' = [tasks EXCEPT ![s].pc = "finish", ![s].terminal = o],
           UNCHANGED <<jobs, carry, free, daemon, shown>>, spent' \in Bounds,
           spent'.claims = spent.claims
    PROVE  IInv'
<1>1. daemon.pc \notin {"boot", "orphans", "repeats"} /\ tasks[s].pc # "none" /\ Job(s) \in Jobs
  BY DEF IInv, Typed, Recovering
<1>2. Claimed(s) /\ jobs[Job(s)].status = "running"
  BY DEF IInv, TasksHold, Executing
<1>3. Moves(s, "finish") /\ tasks'[s].terminal = o /\ tasks'[s].seed = tasks[s].seed
  BY DEF IInv, Typed, TaskRow, Places, Outcomes, Moves
<1>4. \A t \in 1..Slots : t # s /\ tasks[t].pc # "none" => tasks[t].token # jobs[Job(s)].token
  BY <1>2 DEF IInv, TokensFresh, Claimed
<1>5. Typed'
  BY <1>3 DEF IInv, Typed, Job, Moves
<1>6. TokensFresh'
  BY DEF IInv, Typed, TokensFresh
<1>7. TasksHold'
  <2> SUFFICES ASSUME NEW t \in 1..Slots
        PROVE /\ tasks'[t].pc \in {"prepare", "start"}
                    /\ jobs'[tasks'[t].job].token = tasks'[t].token =>
                          jobs'[tasks'[t].job].status = "claimed"
              /\ tasks'[t].pc \in Executing =>
                    jobs'[tasks'[t].job].token = tasks'[t].token
                    /\ jobs'[tasks'[t].job].status = "running"
              /\ tasks'[t].pc = "append" =>
                    jobs'[tasks'[t].job].token = tasks'[t].token
                    /\ jobs'[tasks'[t].job].status = "completed"
    BY DEF TasksHold, Claimed, Job
  <2>1. CASE t = s
    BY <1>3 DEF IInv, TasksHold, Executing, Moves, Job, Claimed
  <2>2. CASE t # s /\ tasks[t].pc # "none"
    <3>1. tasks'[t] = tasks[t] /\ tasks[t].job \in Jobs /\ tasks[t].token # jobs[Job(s)].token
      BY <1>4, <2>2 DEF IInv, Typed, Job
    <3> QED
      BY <3>1 DEF IInv, TasksHold, Claimed, Job
  <2>3. CASE t # s /\ tasks[t].pc = "none"
    BY <1>3, <2>3 DEF Executing, Moves
  <2> QED
    BY <2>1, <2>2, <2>3
<1>8. Recovering'
  BY DEF IInv, Recovering
<1>9. InOrder'
  BY DEF IInv, InOrder
<1>10. CarryCurrent'
  BY DEF IInv, CarryCurrent
<1>11. SeedCurrent'
  BY DEF IInv, Typed, SeedCurrent, Seeded, Job
<1>12. AppendDue'
  <2> SUFFICES ASSUME NEW t \in 1..Slots, tasks'[t].pc = "append", tasks'[t].job[2] + 1 < Runs
               PROVE  jobs'[NextRun(tasks'[t].job)].status = "absent"
    BY DEF AppendDue, Job
  <2>0. t # s /\ tasks'[t] = tasks[t]
    BY <1>3 DEF Moves
  <2>1. Job(t) \in Jobs /\ NextRun(Job(t)) \in Jobs
    BY JobIs DEF IInv, Typed, Job
  <2>2. jobs[NextRun(Job(t))].status = "absent"
    BY <2>0 DEF IInv, AppendDue, Job
  <2> QED
    BY <1>1, <1>2, <1>3, <1>4, <2>0, <2>1, <2>2 DEF Job
<1>13. TornDown'
  BY DEF IInv, Typed, TornDown, Job
<1>14. EndsOnce'
  BY DEF IInv, EndsOnce
<1>15. NoMachineInTheWay'
  BY DEF IInv, NoMachineInTheWay
<1>16. DatabaseComplete'
  BY DEF IInv, DatabaseComplete
<1>17. ReportFollowsStore'
  BY DEF IInv, ReportFollowsStore
<1>18. SlotsConserved'
  BY DEF IInv, Typed, SlotsConserved
<1> QED
  BY <1>5, <1>6, <1>7, <1>8, <1>9, <1>10, <1>11, <1>12, <1>13, <1>14, <1>15, <1>16, <1>17,
     <1>18 DEF IInv

\* The worker dies and leaves its machine.
LEMMA PanicKeeps ==
    ASSUME IInv, Up, NEW s \in 1..Slots, tasks[s].pc \in {"gate", "vm"},
           tasks' = [tasks EXCEPT ![s].pc = "finish", ![s].terminal = "abandoned"],
           UNCHANGED <<jobs, vms, carry, free, daemon, shown>>, spent' \in Bounds,
           spent'.claims = spent.claims
    PROVE  IInv'
<1>1. daemon.pc \notin {"boot", "orphans", "repeats"} /\ tasks[s].pc # "none" /\ Job(s) \in Jobs
  BY DEF IInv, Typed, Recovering
<1>2. Claimed(s) /\ jobs[Job(s)].status = "running"
  BY DEF IInv, TasksHold, Executing
<1>3. Moves(s, "finish") /\ tasks'[s].terminal = "abandoned" /\ tasks'[s].seed = tasks[s].seed
  BY DEF IInv, Typed, TaskRow, Places, Outcomes, Moves
<1>4. \A t \in 1..Slots : t # s /\ tasks[t].pc # "none" => tasks[t].token # jobs[Job(s)].token
  BY <1>2 DEF IInv, TokensFresh, Claimed
<1>5. Typed'
  BY <1>3 DEF IInv, Typed, Job, Moves
<1>6. TokensFresh'
  BY DEF IInv, Typed, TokensFresh
<1>7. TasksHold'
  <2> SUFFICES ASSUME NEW t \in 1..Slots
        PROVE /\ tasks'[t].pc \in {"prepare", "start"}
                    /\ jobs'[tasks'[t].job].token = tasks'[t].token =>
                          jobs'[tasks'[t].job].status = "claimed"
              /\ tasks'[t].pc \in Executing =>
                    jobs'[tasks'[t].job].token = tasks'[t].token
                    /\ jobs'[tasks'[t].job].status = "running"
              /\ tasks'[t].pc = "append" =>
                    jobs'[tasks'[t].job].token = tasks'[t].token
                    /\ jobs'[tasks'[t].job].status = "completed"
    BY DEF TasksHold, Claimed, Job
  <2>1. CASE t = s
    BY <1>3 DEF IInv, TasksHold, Executing, Moves, Job, Claimed
  <2>2. CASE t # s /\ tasks[t].pc # "none"
    <3>1. tasks'[t] = tasks[t] /\ tasks[t].job \in Jobs /\ tasks[t].token # jobs[Job(s)].token
      BY <1>4, <2>2 DEF IInv, Typed, Job
    <3> QED
      BY <3>1 DEF IInv, TasksHold, Claimed, Job
  <2>3. CASE t # s /\ tasks[t].pc = "none"
    BY <1>3, <2>3 DEF Executing, Moves
  <2> QED
    BY <2>1, <2>2, <2>3
<1>8. Recovering'
  BY DEF IInv, Recovering
<1>9. InOrder'
  BY DEF IInv, InOrder
<1>10. CarryCurrent'
  BY DEF IInv, CarryCurrent
<1>11. SeedCurrent'
  BY DEF IInv, Typed, SeedCurrent, Seeded, Job
<1>12. AppendDue'
  <2> SUFFICES ASSUME NEW t \in 1..Slots, tasks'[t].pc = "append", tasks'[t].job[2] + 1 < Runs
               PROVE  jobs'[NextRun(tasks'[t].job)].status = "absent"
    BY DEF AppendDue, Job
  <2>0. t # s /\ tasks'[t] = tasks[t]
    BY <1>3 DEF Moves
  <2>1. Job(t) \in Jobs /\ NextRun(Job(t)) \in Jobs
    BY JobIs DEF IInv, Typed, Job
  <2>2. jobs[NextRun(Job(t))].status = "absent"
    BY <2>0 DEF IInv, AppendDue, Job
  <2> QED
    BY <1>1, <1>2, <1>3, <1>4, <2>0, <2>1, <2>2 DEF Job
<1>13. TornDown'
  BY DEF IInv, Typed, TornDown, Job
<1>14. EndsOnce'
  BY DEF IInv, EndsOnce
<1>15. NoMachineInTheWay'
  BY DEF IInv, NoMachineInTheWay
<1>16. DatabaseComplete'
  BY DEF IInv, DatabaseComplete
<1>17. ReportFollowsStore'
  BY DEF IInv, ReportFollowsStore
<1>18. SlotsConserved'
  BY DEF IInv, Typed, SlotsConserved
<1> QED
  BY <1>5, <1>6, <1>7, <1>8, <1>9, <1>10, <1>11, <1>12, <1>13, <1>14, <1>15, <1>16, <1>17,
     <1>18 DEF IInv

\* A run completes: its database holds itself and all before it.
LEMMA CompleteKeeps ==
    ASSUME IInv, Up, NEW s \in 1..Slots, tasks[s].pc = "finish",
           tasks[s].terminal = "completed",
           Changes(Job(s), "completed", jobs[Job(s)].token),
           jobs'[Job(s)].ends = jobs[Job(s)].ends + 1, DatabaseComplete',
           shown' = [shown EXCEPT ![Job(s)] = "completed"], tasks' = Step(s, "append"),
           UNCHANGED <<carry, vms, free, daemon, spent>>
    PROVE  IInv'
<1>1. daemon.pc \notin {"boot", "orphans", "repeats"} /\ tasks[s].pc # "none" /\ Job(s) \in Jobs
  BY DEF IInv, Typed, Recovering
<1>2. Claimed(s) /\ jobs[Job(s)].status = "running"
  BY DEF IInv, TasksHold, Executing
<1>3. Moves(s, "append") /\ tasks'[s].terminal = tasks[s].terminal
        /\ tasks'[s].seed = tasks[s].seed
  BY Moving DEF IInv, Places
<1>4. \A t \in 1..Slots : t # s /\ tasks[t].pc # "none" => tasks[t].token # jobs[Job(s)].token
  BY <1>2 DEF IInv, TokensFresh, Claimed
<1>5. shown' \in [Jobs -> Words] /\ (\A k \in Jobs : k # Job(s) =>
        shown'[k] = shown[k]) /\ shown'[Job(s)] = "completed"
  BY DEF IInv, Typed, Words
<1>6. Job(s)[2] + 1 < Runs => jobs[NextRun(Job(s))].status = "absent"
  <2> SUFFICES ASSUME Job(s)[2] + 1 < Runs PROVE jobs[NextRun(Job(s))].status = "absent"
    OBVIOUS
  <2>1. NextRun(Job(s)) \in Jobs /\ NextRun(Job(s))[1] = Job(s)[1]
          /\ Job(s)[2] < NextRun(Job(s))[2]
    BY <1>1, JobIs
  <2> QED
    BY <1>1, <1>2, <2>1 DEF IInv, InOrder
<1>7. Typed'
  BY <1>3, <1>5 DEF IInv, Typed, Job, Changes, Moves
<1>8. TokensFresh'
  <2>1. \A k \in Jobs : jobs'[k].token = jobs[k].token
    BY DEF Changes
  <2>2. \A t \in 1..Slots : tasks'[t].token = tasks[t].token /\ (tasks'[t].pc # "none" =>
          tasks[t].pc # "none")
    BY <1>3 DEF Moves
  <2> QED
    BY <2>1, <2>2 DEF IInv, TokensFresh
<1>9. TasksHold'
  <2> SUFFICES ASSUME NEW t \in 1..Slots
        PROVE /\ tasks'[t].pc \in {"prepare", "start"}
                    /\ jobs'[tasks'[t].job].token = tasks'[t].token =>
                          jobs'[tasks'[t].job].status = "claimed"
              /\ tasks'[t].pc \in Executing =>
                    jobs'[tasks'[t].job].token = tasks'[t].token
                    /\ jobs'[tasks'[t].job].status = "running"
              /\ tasks'[t].pc = "append" =>
                    jobs'[tasks'[t].job].token = tasks'[t].token
                    /\ jobs'[tasks'[t].job].status = "completed"
    BY DEF TasksHold, Claimed, Job
  <2>1. CASE t = s
    BY <1>2, <1>3, <2>1 DEF Changes, Executing, Moves, Job, Claimed
  <2>2. CASE t # s /\ tasks[t].pc # "none"
    <3>1. tasks'[t] = tasks[t] /\ tasks[t].job \in Jobs /\ tasks[t].token # jobs[Job(s)].token
      BY <1>3, <1>4, <2>2 DEF IInv, Typed, Job, Moves
    <3> QED
      BY <3>1 DEF IInv, TasksHold, Claimed, Job, Changes
  <2>3. CASE t # s /\ tasks[t].pc = "none"
    BY <1>3, <2>3 DEF Executing, Moves
  <2> QED
    BY <2>1, <2>2, <2>3
<1>10. Recovering'
  BY DEF IInv, Recovering
<1>11. InOrder'
  BY <1>2 DEF IInv, InOrder, Changes
<1>12. CarryCurrent'
  BY DEF IInv, CarryCurrent, Unended, Changes
<1>13. SeedCurrent'
  BY <1>3 DEF IInv, SeedCurrent, Seeded, Job, Moves
<1>14. AppendDue'
  <2> SUFFICES ASSUME NEW t \in 1..Slots, tasks'[t].pc = "append", tasks'[t].job[2] + 1 < Runs
               PROVE  jobs'[NextRun(tasks'[t].job)].status = "absent"
    BY DEF AppendDue, Job
  <2>1. tasks'[t].job = Job(t) /\ Job(t) \in Jobs /\ NextRun(Job(t)) \in Jobs
    BY <1>3, JobIs DEF IInv, Typed, Job, Moves
  <2>2. jobs[NextRun(Job(t))].status = "absent"
    BY <1>3, <1>6 DEF IInv, AppendDue, Job, Moves
  <2> QED
    BY <1>1, <1>2, <1>3, <1>4, <1>5, <1>6, <2>1, <2>2 DEF Changes
<1>15. TornDown'
  BY <1>3 DEF IInv, TornDown, Job, Moves
<1>16. EndsOnce'
  BY <1>2 DEF IInv, EndsOnce, Terminals, Changes
<1>17. NoMachineInTheWay'
  BY DEF IInv, Typed, TornDown, NoMachineInTheWay, Changes
<1>18. DatabaseComplete'
  OBVIOUS
<1>19. ReportFollowsStore'
  BY DEF IInv, Typed, ReportFollowsStore, Changes
<1>20. SlotsConserved'
  BY <1>3 DEF IInv, SlotsConserved, Moves
<1> QED
  BY <1>7, <1>8, <1>9, <1>10, <1>11, <1>12, <1>13, <1>14, <1>15, <1>16, <1>17, <1>18, <1>19,
     <1>20 DEF IInv

-----------------------------------------------------------------------------
(* The actions, each by the lemma of its kind of step.                     *)

\* A fault, or none, hands out no claim.
LEMMA Budget ==
    ASSUME Typed, Fault \/ UNCHANGED spent
    PROVE  spent' \in Bounds /\ spent'.claims = spent.claims
<1>1. spent \in Bounds /\ spent.faults + 1 \in Nat
  BY DEF Typed, Bounds
<1>2. PICK n \in Nat : n = spent.faults + 1
  BY <1>1
<1>3. spent' = spent \/ spent' = [spent EXCEPT !.faults = n]
  BY <1>2 DEF Fault
<1> QED
  BY <1>1, <1>3 DEF Bounds

\* Nothing runs and nothing is claimed when the store is created.
LEMMA InitHolds == Init => IInv
<1> SUFFICES ASSUME Init PROVE IInv
  OBVIOUS
<1>1. jobs \in [Jobs -> Row] /\ \A j \in Jobs :
        /\ jobs[j].status = (IF j[2] = 0 THEN "queued" ELSE "absent")
        /\ jobs[j].token = 0 /\ jobs[j].ends = 0
  BY DEF Init, Row, Statuses, Queued, Absent
<1>2. tasks \in [1..Slots -> TaskRow] /\ \A s \in 1..Slots : tasks[s].pc = "none"
  BY DEF Init, TaskRow, NoTask, Places, Outcomes
<1>3. daemon \in Coordinators /\ daemon.pc = "boot"
  BY DEF Init, Coordinators
<1>4. spent \in Bounds /\ spent.claims = 0 /\ spent.faults = 0
  BY DEF Init, Bounds
<1>5. free \in Seq(1..Slots) /\ DOMAIN free = 1..Slots /\ \A i \in 1..Slots : free[i] = i
  BY RunnerAssumption DEF Init
<1>6. carry \in [Subs -> SUBSET Int] /\ vms = {} /\ shown \in [Jobs -> Words]
      /\ \A j \in Jobs : shown[j] = "none"
  BY DEF Init, Words
<1>7. Typed /\ TokensFresh
  BY <1>1, <1>2, <1>3, <1>4, <1>5, <1>6 DEF Typed, TokensFresh, Bounds
<1>8. TasksHold /\ Recovering /\ SeedCurrent /\ AppendDue /\ TornDown
  BY <1>2, <1>3 DEF TasksHold, Recovering, SeedCurrent, Seeded, AppendDue, TornDown, Executing
<1>9. InOrder /\ CarryCurrent
  BY <1>1, JobIs DEF InOrder, CarryCurrent, Unended
<1>10. EndsOnce /\ DatabaseComplete
  BY <1>1 DEF EndsOnce, DatabaseComplete, Terminals
<1>11. NoMachineInTheWay /\ ReportFollowsStore
  BY <1>6 DEF NoMachineInTheWay, ReportFollowsStore
<1>12. SlotsConserved
  BY <1>2, <1>5 DEF SlotsConserved
<1> QED
  BY <1>7, <1>8, <1>9, <1>10, <1>11, <1>12 DEF IInv

\* Recovery, before any task exists.
LEMMA StartingKeeps ==
    ASSUME IInv, \/ recover_orphans \/ OrphansDone \/ RepeatsDone
                 \/ \E j \in Jobs : RecoverOrphan(j) \/ resume_pending_repeats(j)
    PROVE  IInv'
<1>1. Typed /\ Recovering
  BY DEF IInv
<1>2. ASSUME recover_orphans PROVE IInv'
  <2>1. UNCHANGED <<jobs, carry, vms, tasks, free, shown>> /\ Up /\ (Fault \/ UNCHANGED spent)
    BY <1>2 DEF recover_orphans, Up
  <2>2. daemon' \in Coordinators /\ Recovering'
    <3>1. PICK T \in SUBSET Jobs : T = {j \in Jobs : jobs[j].status = "running"}
      OBVIOUS
    <3>2. daemon' = [daemon EXCEPT !.pc = "orphans", !.todo = T]
            \/ daemon' = [daemon EXCEPT !.pc = "down"]
      BY <1>2, <3>1 DEF recover_orphans
    <3>3. /\ daemon' \in Coordinators
          /\ daemon'.pc = "down" \/ (daemon'.pc = "orphans" /\ daemon'.todo = T)
      BY <1>1, <3>2 DEF Typed, Coordinators
    <3>4. \A s \in 1..Slots : tasks[s].pc = "none"
      BY <1>1, <1>2 DEF Recovering, recover_orphans
    <3> QED
      BY <2>1, <3>1, <3>3, <3>4 DEF Recovering
  <2> QED
    BY <1>1, <2>1, <2>2, Budget, QuietKeeps
<1>3. ASSUME OrphansDone \/ RepeatsDone PROVE IInv'
  <2>1. UNCHANGED <<jobs, carry, vms, tasks, free, shown, spent>> /\ Up
    BY <1>3 DEF OrphansDone, RepeatsDone, Up
  <2>2. daemon' \in Coordinators /\ Recovering'
    <3>1. PICK T \in SUBSET Jobs : T = {j \in Jobs : Pending(j)}
      OBVIOUS
    <3>2. daemon' = [daemon EXCEPT !.pc = "repeats", !.todo = T]
            \/ daemon' = [daemon EXCEPT !.pc = "sweep"]
      BY <1>3, <3>1 DEF OrphansDone, RepeatsDone
    <3>3. /\ daemon' \in Coordinators
          /\ daemon'.pc = "sweep" \/ (daemon'.pc = "repeats" /\ daemon'.todo = T)
      BY <1>1, <3>2 DEF Typed, Coordinators
    <3>4. \A s \in 1..Slots : tasks[s].pc = "none"
      BY <1>1, <1>3 DEF Recovering, OrphansDone, RepeatsDone
    <3>5. \A j \in T : Pending(j)'
      BY <2>1, <3>1 DEF Pending
    <3> QED
      BY <2>1, <3>3, <3>4, <3>5 DEF Recovering
  <2> QED
    BY <1>1, <2>1, <2>2, Budget, QuietKeeps
<1>4. ASSUME NEW j \in Jobs, RecoverOrphan(j) PROVE IInv'
  <2>1. /\ daemon.pc = "orphans" /\ j \in daemon.todo
        /\ daemon' = [daemon EXCEPT !.todo = @ \ {j}] /\ UNCHANGED <<carry, tasks, free>>
    BY <1>4 DEF RecoverOrphan
  <2>2. CASE /\ vms' = vms \ {j} /\ jobs' = cancel_orphan(j)
             /\ shown' \in {shown, [shown EXCEPT ![j] = "cancelled"]} /\ UNCHANGED spent
    BY <2>1, <2>2, RecoverKeeps
  <2>3. CASE Fault /\ vms' \in {vms, vms \ {j}} /\ UNCHANGED <<jobs, shown>>
    BY <1>1, <2>1, <2>3, Budget, RecoverLaterKeeps
  <2> QED
    BY <1>4, <2>2, <2>3 DEF RecoverOrphan
<1>5. ASSUME NEW j \in Jobs, resume_pending_repeats(j) PROVE IInv'
  <2>1. /\ daemon.pc = "repeats" /\ j \in daemon.todo
        /\ daemon' = [daemon EXCEPT !.todo = @ \ {j}] /\ UNCHANGED <<vms, tasks, free, shown>>
    BY <1>5 DEF resume_pending_repeats
  <2>2. Pending(j) /\ \A s \in 1..Slots : tasks[s].pc = "none"
    BY <1>1, <2>1 DEF Recovering
  <2>3. daemon' \in Coordinators /\ daemon'.pc = "repeats" /\ daemon'.todo = daemon.todo \ {j}
        /\ Up' /\ Up
    BY <1>1, <2>1 DEF Typed, Coordinators, Up
  <2>4. Trails
    BY <1>1, <2>1 DEF Trails, Typed
  <2>5. CASE carry' = Carried(j) /\ jobs' = append_next_benchmark_run(j) /\ UNCHANGED spent
    <3>1. NextRun(j) \in Jobs /\ Changes(NextRun(j), "queued", 0)
            /\ jobs[NextRun(j)].status = "absent"
      BY <1>1, <2>2, <2>5, Appending DEF Pending
    <3>2. ASSUME NEW k \in daemon'.todo PROVE Pending(k)'
      <4>1. k \in Jobs /\ k # j /\ Pending(k)
        BY <1>1, <2>1, <2>3, <3>2 DEF Recovering, Typed, Coordinators
      <4>2. NextRun(k) \in Jobs /\ NextRun(k) # NextRun(j) /\ k # NextRun(j)
        BY <3>1, <4>1, JobIs DEF Pending
      <4> QED
        BY <3>1, <4>1, <4>2 DEF Pending, Changes
    <3>3. Recovering'
      BY <2>1, <2>2, <2>3, <3>2 DEF Recovering
    <3>4. jobs[j].status = "completed" /\ \A s \in 1..Slots : tasks'[s].pc = "append" =>
            Job(s) # j
      BY <2>1, <2>2 DEF Pending
    <3> QED
      BY <2>1, <2>2, <2>3, <2>4, <2>5, <3>3, <3>4, AppendKeeps
  <2>6. CASE Fault /\ carry' \in {carry, Carried(j)} /\ UNCHANGED jobs
    <3>1. Recovering' /\ spent' \in Bounds /\ spent'.claims = spent.claims
      BY <1>1, <2>1, <2>2, <2>3, <2>6, Budget DEF Recovering, Pending
    <3>2. CASE carry' = carry
      BY <2>1, <2>3, <2>6, <3>1, <3>2, QuietKeeps
    <3>3. CASE carry' = Carried(j)
      <4>1. jobs[j].status = "completed" /\ jobs[NextRun(j)].status = "absent" /\ Up' = Up
        BY <2>2, <2>3 DEF Pending
      <4> QED
        BY <2>1, <2>3, <2>4, <2>6, <3>1, <3>3, <4>1, CarryKeeps
    <3> QED
      BY <2>6, <3>2, <3>3
  <2> QED
    BY <1>5, <2>5, <2>6 DEF resume_pending_repeats
<1> QED
  BY <1>2, <1>3, <1>4, <1>5

\* The coordinator's loop.
LEMMA LoopKeeps ==
    ASSUME IInv, sweep \/ fill_slots \/ drained \/ Wakes
    PROVE  IInv'
<1>1. Typed
  BY DEF IInv
<1>2. ASSUME NEW p \in {"down", "sweep", "fill", "wait"}, Up,
        daemon' = [daemon EXCEPT !.pc = p],
             UNCHANGED <<jobs, carry, vms, tasks, free, shown>>, Fault \/ UNCHANGED spent
      PROVE  IInv'
  <2>1. daemon' \in Coordinators /\ Recovering'
    BY <1>1, <1>2 DEF Typed, Coordinators, Recovering
  <2> QED
    BY <1>1, <1>2, <2>1, Budget, QuietKeeps
<1>3. ASSUME sweep PROVE IInv'
  BY <1>2, <1>3, SweepKeeps DEF sweep, Up
<1>4. ASSUME fill_slots PROVE IInv'
  <2>1. daemon.pc = "fill" /\ Up /\ UNCHANGED <<carry, vms, shown>>
    BY <1>4, Zenon DEF fill_slots, Up
  <2>2. ASSUME free # <<>>, NEW j \in Oldest, jobs' = claim_next_queued(j, spent.claims + 1),
               \/ /\ tasks' = [tasks EXCEPT ![Head(free)] =
                                [NoTask EXCEPT !.job = j, !.token = spent.claims + 1, !.pc = "prepare"]]
                  /\ free' = Tail(free)
                  /\ spent' = [spent EXCEPT !.claims = @ + 1] /\ UNCHANGED daemon
               \/ /\ spent' = [spent EXCEPT !.claims = @ + 1, !.faults = @ + 1]
                  /\ free' = free /\ daemon' = [daemon EXCEPT !.pc = "wait"] /\ UNCHANGED tasks
        PROVE  IInv'
    <3>1. j \in Jobs /\ jobs[j].status = "queued"
      BY <2>2 DEF Oldest, QueuedJobs
    <3>2. spent' \in Bounds /\ spent'.claims = spent.claims + 1
      <4>1. spent \in Bounds /\ spent.claims + 1 \in Nat /\ spent.faults + 1 \in Nat
        BY <1>1 DEF Typed, Bounds
      <4>2. PICK n \in Nat, m \in Nat : n = spent.claims + 1 /\ m = spent.faults + 1
        BY <4>1
      <4>3. spent' = [spent EXCEPT !.claims = n]
              \/ spent' = [spent EXCEPT !.claims = n, !.faults = m]
        BY <2>2, <4>2
      <4> QED
        BY <4>1, <4>2, <4>3 DEF Bounds
    <3>3. CASE free' = free /\ daemon' = [daemon EXCEPT !.pc = "wait"] /\ UNCHANGED tasks
      <4>1. daemon' \in Coordinators /\ Recovering' /\ Up'
        BY <1>1, <3>3 DEF Typed, Coordinators, Recovering, Up
      <4> QED
        BY <2>1, <2>2, <3>1, <3>2, <3>3, <4>1, ClaimKeeps
    <3>4. CASE /\ tasks' = [tasks EXCEPT ![Head(free)] =
                             [NoTask EXCEPT !.job = j, !.token = spent.claims + 1, !.pc = "prepare"]]
               /\ free' = Tail(free) /\ UNCHANGED daemon
      BY <2>1, <2>2, <3>1, <3>2, <3>4, TakeKeeps, Zenon
    <3> QED
      BY <2>2, <3>3, <3>4
  <2>3. CASE daemon' = [daemon EXCEPT !.pc = "wait"] /\ UNCHANGED <<jobs, tasks, free, spent>>
    BY <1>2, <2>1, <2>3
  <2> QED
    BY <1>4, <2>2, <2>3, Zenon DEF fill_slots, SlotBack
<1>5. ASSUME drained PROVE IInv'
  BY <1>2, <1>5 DEF drained, Up
<1>6. ASSUME Wakes PROVE IInv'
  <2>1. CASE wait_for_progress
    BY <1>2, <2>1 DEF wait_for_progress, Up
  <2>2. ASSUME NEW s \in 1..Slots, reap(s) PROVE IInv'
    BY <2>2, ReapKeeps DEF reap, Freed
  <2> QED
    BY <1>6, <2>1, <2>2 DEF Wakes
<1> QED
  BY <1>3, <1>4, <1>5, <1>6

\* A job task and its reporter.
LEMMA TaskKeeps ==
    ASSUME IInv, Up, NEW s \in 1..Slots, JobTask(s) \/ worker_panics(s) \/ task_panics(s)
    PROVE  IInv'
<1>1. Typed /\ shown \in [Jobs -> Words]
  BY DEF IInv, Typed
<1>2. ASSUME NEW p \in {"start", "ended"}, tasks[s].pc # "none", p = "start" =>
        tasks[s].pc = "prepare",
             tasks' = Step(s, p), UNCHANGED <<jobs, carry, vms, free, daemon, shown>>,
             Fault \/ UNCHANGED spent
      PROVE  IInv'
  BY <1>1, <1>2, Budget, StepKeeps
<1>3. ASSUME resolve_commit(s) PROVE IInv'
  <2>1. tasks[s].pc = "prepare" /\ UNCHANGED <<carry, vms, free, daemon, shown>>
    BY <1>3 DEF resolve_commit
  <2>2. CASE tasks' = Step(s, "start") /\ UNCHANGED <<jobs, spent>>
    BY <1>2, <2>1, <2>2
  <2>3. CASE Fault /\ tasks' = Step(s, "ended") /\ jobs' = fail_job(Job(s), tasks[s].token)
    <3>1. CASE Holds(Job(s), tasks[s].token, FromClaimed)
      <4>1. Claimed(s) /\ jobs' = Ended(Job(s), "failed")
        BY <2>3, <3>1 DEF fail_job, Holds, Claimed
      <4> QED
        BY <1>1, <2>1, <2>3, <4>1, Budget, EndKeeps
    <3>2. CASE ~Holds(Job(s), tasks[s].token, FromClaimed)
      BY <1>2, <2>1, <2>3, <3>2 DEF fail_job
    <3> QED
      BY <3>1, <3>2
  <2> QED
    BY <1>3, <2>2, <2>3 DEF resolve_commit
<1>4. ASSUME start_running(s) PROVE IInv'
  <2>1. tasks[s].pc = "start" /\ UNCHANGED <<carry, vms, free, daemon, shown>>
    BY <1>4 DEF start_running
  <2>2. CASE /\ Holds(Job(s), tasks[s].token, StartFrom) /\ UNCHANGED spent
             /\ jobs' = mark_running(Job(s)) /\ tasks' = Step(s, "gate")
    <3>1. Claimed(s) /\ jobs[Job(s)].status = "claimed"
      BY <2>2 DEF Holds, StartFrom, Claimed
    <3> QED
      BY <2>1, <2>2, <3>1, StartKeeps
  <2>3. CASE tasks' = Step(s, "ended") /\ UNCHANGED jobs /\ (Fault \/ UNCHANGED spent)
    BY <1>2, <2>1, <2>3
  <2> QED
    BY <1>4, <2>2, <2>3 DEF start_running
<1>5. ASSUME worker_finishes(s) PROVE IInv'
  <2>1. /\ tasks[s].pc = "vm" /\ (Fault \/ UNCHANGED spent)
        /\ UNCHANGED <<jobs, carry, free, daemon, shown>>
    BY <1>5 DEF worker_finishes
  <2>2. PICK o \in {"aborted", "completed", "failed", "setup"} :
                /\ tasks' = [tasks EXCEPT ![s].pc = "finish", ![s].terminal = o]
                /\ vms' \in {vms, vms \ {Job(s)}}
                /\ o = "completed" => vms' = vms \ {Job(s)}
    BY <1>5 DEF worker_finishes, KeptOutcomes
  <2> QED
    BY <1>1, <2>1, <2>2, Budget, FinishKeeps
<1>6. ASSUME worker_panics(s) PROVE IInv'
  BY <1>1, <1>6, Budget, PanicKeeps DEF worker_panics
<1>7. ASSUME finish(s) PROVE IInv'
  <2>1. tasks[s].pc = "finish" /\ UNCHANGED <<carry, vms, free, daemon>>
    BY <1>7 DEF finish
  <2>2. Claimed(s) /\ jobs[Job(s)].status = "running" /\ Job(s) \in Jobs
    BY <2>1 DEF IInv, Typed, TasksHold, Executing
  <2>3. Holds(Job(s), tasks[s].token, {"running"}) /\ Holds(Job(s), tasks[s].token, FromClaimed)
    BY <2>2 DEF Holds, Claimed, FromClaimed
  <2>4. CASE /\ jobs' = Written(s) /\ shown' = [shown EXCEPT ![Job(s)] = Word(s)]
          /\ UNCHANGED spent
             /\ tasks' = Step(s, IF tasks[s].terminal = "completed" THEN "append" ELSE "ended")
    <3>1. CASE tasks[s].terminal = "completed"
      <4>1. /\ jobs' = complete_job(Job(s), tasks[s].seed \cup {Job(s)[2]})
            /\ shown' = [shown EXCEPT ![Job(s)] = "completed"] /\ tasks' = Step(s, "append")
        BY <2>3, <2>4, <3>1 DEF Written, Word
      <4>2. /\ Changes(Job(s), "completed", jobs[Job(s)].token)
            /\ jobs'[Job(s)].ends = jobs[Job(s)].ends + 1 /\ DatabaseComplete'
        BY <2>1, <3>1, <4>1, CompletedWhole, Zenon
      <4> QED
        BY <2>1, <2>4, <3>1, <4>1, <4>2, CompleteKeeps
    <3>2. CASE tasks[s].terminal = "aborted"
      <4>1. /\ jobs' = Ended(Job(s), "cancelled") /\ tasks' = Step(s, "ended")
            /\ shown' = [shown EXCEPT ![Job(s)] = "cancelled"]
        BY <2>3, <2>4, <3>2 DEF Written, Word, cancel_job
      <4> QED
        BY <1>1, <2>1, <2>2, <2>4, <3>2, <4>1, Budget, EndKeeps
    <3>3. CASE tasks[s].terminal \notin {"completed", "aborted"}
      <4>1. /\ jobs' = Ended(Job(s), "failed") /\ tasks' = Step(s, "ended")
            /\ shown' = [shown EXCEPT ![Job(s)] = "failed"]
        BY <2>3, <2>4, <3>3 DEF Written, Word, fail_job
      <4> QED
        BY <1>1, <2>1, <2>2, <2>4, <4>1, Budget, EndKeeps
    <3> QED
      BY <3>1, <3>2, <3>3
  <2>5. CASE /\ Fault /\ UNCHANGED jobs /\ tasks' = Step(s, "ended")
             /\ shown' = IF tasks[s].terminal \in ReportsUnwritten
                         THEN [shown EXCEPT ![Job(s)] = Word(s)] ELSE shown
    <3>1. tasks[s].terminal \in ReportsUnwritten => Word(s) = "failed"
      BY DEF ReportsUnwritten, Word
    <3>2. shown' \in [Jobs -> Words] /\ \A k \in Jobs : shown'[k] = shown[k]
            \/ shown'[k] = "failed"
      BY <1>1, <2>2, <2>5, <3>1 DEF Words
    <3> QED
      BY <1>1, <2>1, <2>5, <3>2, Budget, StepKeeps
  <2> QED
    BY <1>7, <2>4, <2>5 DEF finish
<1>8. ASSUME append_next_repeat_after_terminal(s) PROVE IInv'
  <2>1. tasks[s].pc = "append" /\ tasks' = Step(s, "ended") /\ UNCHANGED <<vms, free, daemon>>
    BY <1>8 DEF append_next_repeat_after_terminal
  <2>2. /\ Job(s) \in Jobs /\ jobs[Job(s)].status = "completed" /\ Claimed(s)
        /\ Job(s)[2] + 1 < Runs => jobs[NextRun(Job(s))].status = "absent"
    BY <2>1 DEF IInv, Typed, TasksHold, AppendDue
  <2>3. Moves(s, "ended")
    BY <1>1, <2>1, Moving DEF Places
  <2>4. Trails /\ Up' = Up /\ daemon' \in Coordinators
    BY <1>1, <2>1, <2>3 DEF Trails, Moves, Typed, Up
  <2>5. daemon.pc \notin {"boot", "orphans", "repeats"}
    BY <2>1 DEF IInv, Recovering
  <2>6. Recovering'
    BY <2>1, <2>5 DEF Recovering
  <2>7. \A t \in 1..Slots : tasks'[t].pc = "append" => Job(t) # Job(s)
    BY <2>1, <2>2, <2>3 DEF IInv, TasksHold, TokensFresh, Claimed, Moves
  <2>8. CASE /\ carry' = Carried(Job(s)) /\ jobs' = append_next_benchmark_run(Job(s))
             /\ UNCHANGED <<shown, spent>>
    <3>1. CASE Pending(Job(s))
      BY <2>1, <2>2, <2>4, <2>6, <2>7, <2>8, <3>1, AppendKeeps
    <3>2. CASE ~Pending(Job(s))
      <4>1. UNCHANGED jobs
        BY <2>8, <3>2 DEF append_next_benchmark_run
      <4> QED
        BY <1>1, <2>1, <2>2, <2>4, <2>6, <2>8, <4>1, Budget, CarryKeeps
    <3> QED
      BY <3>1, <3>2
  <2>9. CASE /\ Fault /\ UNCHANGED <<jobs, carry>>
              /\ shown' = IF Job(s)[2] + 1 < Runs THEN [shown EXCEPT ![Job(s)] = "stalled"] ELSE shown
    <3>1. /\ shown' \in [Jobs -> Words]
          /\ \A k \in Jobs : shown'[k] = shown[k] \/ shown'[k] = "stalled"
      BY <1>1, <2>2, <2>9 DEF Words
    <3> QED
      BY <1>1, <2>1, <2>9, <3>1, Budget, StepKeeps
  <2>10. CASE Fault /\ carry' = Carried(Job(s)) /\ UNCHANGED <<jobs, shown>>
    BY <1>1, <2>1, <2>2, <2>4, <2>6, <2>10, Budget, CarryKeeps
  <2> QED
    BY <1>8, <2>8, <2>9, <2>10 DEF append_next_repeat_after_terminal
<1>9. ASSUME task_panics(s) PROVE IInv'
  BY <1>2, <1>9 DEF task_panics
<1> QED
  BY <1>3, <1>4, <1>5, <1>6, <1>7, <1>8, <1>9, RunKeeps DEF JobTask

\* Time passes, and the daemon is stopped, dies and starts again.
LEMMA OutsideKeeps ==
    ASSUME IInv, \/ Boot \/ Crash \/ (\E j \in Jobs : LeasePasses(j))
                 \/ (\E abort \in BOOLEAN : Stop(abort)) \/ UNCHANGED vars
    PROVE  IInv'
<1>1. Typed /\ Recovering
  BY DEF IInv
<1>2. ASSUME NEW j \in Jobs, LeasePasses(j) PROVE IInv'
  BY <1>1, <1>2, Budget, AgeKeeps DEF LeasePasses
<1>3. ASSUME Crash \/ (\E abort \in BOOLEAN : Stop(abort)) PROVE IInv'
  <2>1. /\ UNCHANGED <<jobs, carry, vms, tasks, free, shown>> /\ Up
        /\ \/ spent' = [spent EXCEPT !.crashes = @ + 1]
           \/ spent' = [spent EXCEPT !.stops = @ + 1]
    BY <1>3, Zenon DEF Crash, Stop
  <2>2. spent' \in Bounds /\ spent'.claims = spent.claims
    <3>1. spent \in Bounds /\ spent.crashes + 1 \in Nat /\ spent.stops + 1 \in Nat
      BY <1>1 DEF Typed, Bounds
    <3>2. PICK n \in Nat, m \in Nat : n = spent.crashes + 1 /\ m = spent.stops + 1
      BY <3>1
    <3>3. spent' = [spent EXCEPT !.crashes = n] \/ spent' = [spent EXCEPT !.stops = m]
      BY <2>1, <3>2
    <3> QED
      BY <3>1, <3>3 DEF Bounds
  <2>3. /\ daemon' \in Coordinators
        /\ daemon'.pc = "down" \/ (daemon'.pc = daemon.pc /\ daemon'.todo = daemon.todo)
    <3>1. CASE Crash
      BY <1>1, <3>1 DEF Typed, Coordinators, Crash
    <3>2. ASSUME NEW abort \in BOOLEAN, Stop(abort)
          PROVE  /\ daemon' \in Coordinators
                 /\ daemon'.pc = daemon.pc /\ daemon'.todo = daemon.todo
      <4>1. PICK b \in BOOLEAN : b = (daemon.aborting \/ abort)
        BY <1>1 DEF Typed, Coordinators
      <4>2. daemon' = [daemon EXCEPT !.draining = TRUE, !.aborting = b]
        BY <3>2, <4>1, Zenon DEF Stop
      <4> QED
        BY <1>1, <4>2 DEF Typed, Coordinators
    <3> QED
      BY <1>3, <3>1, <3>2
  <2>4. Recovering'
    BY <1>1, <2>1, <2>3 DEF Recovering, Pending
  <2> QED
    BY <2>1, <2>2, <2>3, <2>4, QuietKeeps
<1>4. ASSUME UNCHANGED vars PROVE IInv'
  <2>1. UNCHANGED <<jobs, carry, vms, tasks, free, shown, daemon, spent>>
    BY <1>4 DEF vars
  <2>2. daemon' \in Coordinators /\ Recovering' /\ Up' = Up
    BY <1>1, <2>1 DEF Typed, Recovering, Pending, Up
  <2> QED
    BY <1>1, <2>1, <2>2, Budget, QuietKeeps
<1> QED
  BY <1>2, <1>3, <1>4, BootKeeps

\* The invariant is inductive.
THEOREM RunnerInvariant == Spec => []IInv
<1>1. Init => IInv
  BY InitHolds
<1>2. IInv /\ [Next]_vars => IInv'
  BY StartingKeeps, LoopKeeps, TaskKeeps, OutsideKeeps DEF Next, Coordinator, Wakes
<1> QED
  BY <1>1, <1>2, PTL DEF Spec

\* Whatever is claimed twice, swept, recovered or restarted, a job and its machine
\* are one task's alone, and so is the slot they run in (the claim token that
\* mark_running checks, and the free-slot queue).
THEOREM MachinesExclusiveAlways == Spec => []MachinesExclusive
<1>1. IInv => OneMachinePerJob
  BY DEF IInv, OneMachinePerJob, TasksHold, TokensFresh, Executing, Claimed
<1>2. IInv => MachinesExclusive
  BY <1>1 DEF IInv, MachinesExclusive
<1> QED
  BY <1>2, RunnerInvariant, PTL

\* A job that completed or that may still be started has no machine on the host: a
\* machine left by a panic, a crash or a failed teardown is of a row that runs, so that
\* recovery finds it, or that failed or was cancelled.
THEOREM NoMachineInTheWayAlways == Spec => []NoMachineInTheWay
<1>1. IInv => NoMachineInTheWay
  BY DEF IInv
<1> QED
  BY <1>1, RunnerInvariant, PTL

\* A job ends once, with what its report says, and a completed run stands on all
\* the runs before it.
THEOREM OutcomesTrueAlways == Spec => []OutcomesTrue
<1>1. IInv => OutcomesTrue
  BY DEF IInv, OutcomesTrue
<1> QED
  BY <1>1, RunnerInvariant, PTL
=============================================================================
