---------------------------- MODULE RunPlanProofs ----------------------------
(***************************************************************************)
(* Proofs about RunPlan, for any number of producers, keys, submissions,   *)
(* specs, repeats and daemons, and any number of pushes, redeliveries,     *)
(* pauses, crashes and failed reports.                                     *)
(*                                                                         *)
(* The coordinator works in several transactions and remembers what it     *)
(* read in earlier ones, while another daemon does the same.  The argument *)
(* is that this memory stays true.  No step takes back what the store      *)
(* recorded (Grows): a job, its end, a frozen commit, the first run's rows *)
(* in the shared database.  Everything a coordinator relies on (Fits) is   *)
(* such a fact, so it survives the steps of everybody else (CoordinatedOn) *)
(* and each action only has to account for the coordinator that takes it.  *)
(* In the same way a run is created after all earlier ones completed       *)
(* (InTurn), and completion is for good, so the runs stay in order.        *)
(*                                                                         *)
(* The lemmas named ...Keeps for a kind of change to the store come first, *)
(* then one lemma per group of actions, which reduces each action to one   *)
(* of these changes.                                                       *)
(***************************************************************************)
EXTENDS RunPlan, SequenceTheorems, WellFoundedInduction, TLAPS

Statuses == {"none", "queued", "running", "completed", "failed", "cancelled"}
Ended == {"completed", "failed", "cancelled"}

JobRow == [status : Statuses, commit : Commits \cup {None}, prepared : BOOLEAN,
           rows : SUBSET Jobs]
IdemRow == [sub : Subs, digest : Commits \cup {None}]
Request == [pc : {"idle", "validate", "lookup", "insert", "done"}, commit : Commits \cup {None},
            answer : Subs \cup {None, "conflict", "invalid"}]
Resolved == [Specs -> Commits \cup {None}]
Coordinator == [pc : {"idle", "resolve", "freeze", "prepare", "plan", "append", "report"},
                job : Jobs \cup {None}, generation : Nat, sources : Resolved \cup {None},
                batch : Seq(Jobs)]

\* The types of the rows and of what the processes hold.
Typed ==
    /\ ref \in Commits
    /\ producer \in [Producers -> Request]
    /\ \A p \in Producers : producer[p].pc # "idle" => producer[p].commit \in Commits
    /\ idem \in [Keys -> IdemRow \cup {None}]
    /\ frozen \in [Subs -> [Specs -> Commits \cup {None}]]
    /\ job \in [Jobs -> JobRow]
    /\ carried \in [Subs -> SUBSET Jobs]
    /\ policy \in [paused : BOOLEAN, generation : Nat]
    /\ pending \in Seq(Jobs)
    /\ coord \in [Daemons -> Coordinator]
    /\ seen \in SUBSET Commits

\* A submission that anything refers to has a run, and keeps it.
HasRun(s) == \E j \in Jobs : SubOf(j) = s /\ Exists(j)
RowsHaveRuns ==
    /\ \A k \in Keys : idem[k] # None => HasRun(idem[k].sub)
    /\ \A s \in Subs : \A i \in Specs : frozen[s][i] # None => HasRun(s)

\* A receipt is not given before its row is there.
AnswersHaveRows ==
    \A p \in Producers : producer[p].answer \in Subs => idem[KeyOf[p]] # None

\* Where there is no job there is nothing recorded for it.
AbsentBlank ==
    \A j \in Jobs : ~Exists(j) => job[j].commit = None /\ ~job[j].prepared

\* The branch's commit is one of this generation, and runs to be projected are over.
Current ==
    /\ ref \in seen
    /\ \A i \in 1..Len(pending) : job[pending[i]].status \in Ended

\* The runs before one that exists are completed.
Sequential ==
    \A j \in Jobs : Exists(j) => \A k \in Earlier(j) : job[k].status = "completed"

\* Past a submission's first run its shared database holds that run's rows, and so
\* does every run that started from it.
First(s) == <<s, 1, 0>>
Carrying(s) == First(s) \in carried[s]
Carries ==
    uses_shared_calibration =>
        \A j \in Jobs : j # First(SubOf(j)) =>
            /\ Exists(j) => Carrying(SubOf(j))
            /\ job[j].status = "running" => First(SubOf(j)) \in job[j].rows

\* What a coordinator holds from step to step is still true of the store: the job it
\* prepares exists, the commits it froze are recorded, the ones it has yet to freeze
\* are of this generation unless another has begun; and the runs it projects are over,
\* with the first run's rows in the shared database once it appends.
Preparation(c) ==
    /\ c.pc \in {"resolve", "freeze", "prepare"} => c.job \in Jobs /\ Exists(c.job)
    /\ c.pc \in {"freeze", "prepare"} => c.sources \in Resolved
    /\ c.pc = "prepare" => \A i \in Specs : /\ c.sources[i] # None
                                            /\ frozen[SubOf(c.job)][i] = c.sources[i]
Freshness(c) ==
    /\ c.generation <= policy.generation
    /\ c.pc = "freeze" /\ c.generation = policy.generation =>
         \A i \in Specs : \/ c.sources[i] \in seen \cup {None}
                          \/ frozen[SubOf(c.job)][i] = c.sources[i]
Projection(c) ==
    /\ \A i \in 1..Len(c.batch) : job[c.batch[i]].status \in Ended
    /\ c.pc \in {"plan", "append", "report"} => c.batch # <<>>
    /\ c.pc = "append" => job[Head(c.batch)].status = "completed"
    /\ c.pc = "append" /\ uses_shared_calibration => Carrying(SubOf(Head(c.batch)))
Fits(c) == Preparation(c) /\ Freshness(c) /\ Projection(c)
Coordinated == \A d \in Daemons : Fits(coord[d])

\* The inductive invariant.
IInv ==
    /\ Typed /\ RowsHaveRuns /\ AnswersHaveRows /\ AbsentBlank /\ Current
    /\ Sequential /\ Carries /\ Coordinated
    /\ OneSubmissionPerKey /\ SourcesAgree /\ SeededFromFirst

\* No step takes back what the store has recorded: a job, its end, a commit, or the
\* first run's rows; and a generation only forgets the commits of the one before.
Grows ==
    /\ \A j \in Jobs : job[j].status # "none" => job'[j].status # "none"
    /\ \A j \in Jobs : job[j].status \in Ended => job'[j].status = job[j].status
    /\ \A s \in Subs : \A i \in Specs : frozen[s][i] # None => frozen'[s][i] = frozen[s][i]
    /\ policy.generation <= policy'.generation
    /\ policy'.generation = policy.generation => seen \subseteq seen'
    /\ uses_shared_calibration =>
         \A s \in Subs : First(s) \in carried[s] => First(s) \in carried'[s]

\* At most one job's status changes, the way a plan's run may.
Turns(j) ==
    LET from == job[j].status
        to == job'[j].status
    IN  \/ /\ from = "none" /\ to = "queued"
           /\ \A k \in Earlier(j) : job[k].status = "completed"
        \/ from = "queued" /\ to \in {"running", "failed", "cancelled"}
        \/ from = "running" /\ to \in Ended \cup {"queued"}
InTurn ==
    \/ \A j \in Jobs : job'[j].status = job[j].status
    \/ \E j \in Jobs : /\ Turns(j)
                       /\ \A k \in Jobs : k # j => job'[k].status = job[k].status

Advances == Grows /\ InTurn

-----------------------------------------------------------------------------
(* Facts about the plan and about sequences.                               *)

\* A job is its submission, spec and repeat.
LEMMA JobIs ==
    /\ \A j \in Jobs : /\ SubOf(j) \in Subs /\ SpecOf(j) \in Specs
                       /\ RunOf(j) \in 0..(Requested[SpecOf(j)] - 1)
    /\ \A j \in Jobs : j = <<SubOf(j), SpecOf(j), RunOf(j)>>
    /\ \A s \in Subs, i \in Specs : \A r \in 0..(Requested[i] - 1) : <<s, i, r>> \in Jobs
  BY DEF Jobs, SubOf, SpecOf, RunOf

\* Exactly the first run of a submission has none before it.
LEMMA FirstIs ==
    /\ 1 \in Specs
    /\ \A s \in Subs : First(s) \in Jobs /\ SubOf(First(s)) = s
    /\ \A j \in Jobs : Earlier(j) = {} <=> j = First(SubOf(j))
<1>1. 1 \in Specs /\ 0 \in 0..(Requested[1] - 1)
  BY PlanAssumption DEF Specs
<1>2. \A s \in Subs : First(s) \in Jobs /\ SubOf(First(s)) = s
  BY <1>1, JobIs DEF First, SubOf
<1>3. ASSUME NEW j \in Jobs, j # First(SubOf(j))  PROVE First(SubOf(j)) \in Earlier(j)
  <2>1. SpecOf(j) > 1 \/ RunOf(j) > 0
    BY <1>3, JobIs, PlanAssumption DEF First, Specs
  <2> QED
    BY <1>2, <1>3, <2>1, JobIs, PlanAssumption
       DEF First, Earlier, Before, SubOf, SpecOf, RunOf, Specs
<1>4. ASSUME NEW j \in Jobs, j = First(SubOf(j))  PROVE Earlier(j) = {}
  <2> SUFFICES ASSUME NEW k \in Jobs, Before(k, j) PROVE FALSE
    BY DEF Earlier
  <2>1. SpecOf(j) = 1 /\ RunOf(j) = 0
    BY <1>4 DEF First, SpecOf, RunOf
  <2>2. SpecOf(k) \in Specs /\ RunOf(k) \in 0..(Requested[SpecOf(k)] - 1)
    BY JobIs
  <2>3. SpecOf(k) \in Nat \ {0} /\ RunOf(k) \in Nat
    BY <2>2, PlanAssumption DEF Specs
  <2> QED
    BY <2>1, <2>3 DEF Before
<1> QED
  BY <1>1, <1>2, <1>3, <1>4

\* The run after j comes right after it: nothing else is planned in between.
LEMMA NextIs ==
    ASSUME NEW j \in Jobs, NEW k \in Jobs, k \in NextRun(j)
    PROVE  /\ SubOf(k) = SubOf(j)
           /\ \/ SpecOf(k) = SpecOf(j) /\ RunOf(k) = RunOf(j) + 1
              \/ SpecOf(k) = SpecOf(j) + 1
           /\ Earlier(k) \subseteq Earlier(j) \cup {j}
<1>1. \A m \in Jobs : /\ SpecOf(m) \in Nat \ {0} /\ RunOf(m) \in Nat
                      /\ Requested[SpecOf(m)] \in Nat /\ RunOf(m) < Requested[SpecOf(m)]
  BY JobIs, PlanAssumption DEF Specs
<1>2. \/ k = <<SubOf(j), SpecOf(j), RunOf(j) + 1>>
      \/ /\ RunOf(j) + 1 >= Requested[SpecOf(j)]
         /\ SubOf(k) = SubOf(j) /\ RunOf(k) = 0 /\ SpecOf(k) = SpecOf(j) + 1
  BY <1>1 DEF NextRun
<1>3. /\ SubOf(k) = SubOf(j)
      /\ \/ SpecOf(k) = SpecOf(j) /\ RunOf(k) = RunOf(j) + 1
         \/ /\ RunOf(j) + 1 >= Requested[SpecOf(j)]
            /\ RunOf(k) = 0 /\ SpecOf(k) = SpecOf(j) + 1
  BY <1>2 DEF SubOf, SpecOf, RunOf
<1>4. ASSUME NEW m \in Jobs, Before(m, k)  PROVE Before(m, j) \/ m = j
  <2>1. \/ SpecOf(m) < SpecOf(j)
        \/ SpecOf(m) = SpecOf(j) /\ RunOf(m) <= RunOf(j)
    BY <1>1, <1>3, <1>4 DEF Before
  <2>2. SubOf(m) = SubOf(j)
    BY <1>3, <1>4 DEF Before
  <2>3. SpecOf(m) = SpecOf(j) /\ RunOf(m) = RunOf(j) => m = j
    BY <2>2, JobIs
  <2> QED
    BY <1>1, <2>1, <2>2, <2>3 DEF Before
<1> QED
  BY <1>3, <1>4 DEF Earlier

\* Removing an element of a sequence leaves others of it.
LEMMA RemoveType ==
    ASSUME NEW S, NEW s \in Seq(S), NEW e
    PROVE  /\ RemoveFirst(s, e) \in Seq(S)
           /\ \A i \in 1..Len(RemoveFirst(s, e)) :
                \E k \in 1..Len(s) : RemoveFirst(s, e)[i] = s[k]
<1> DEFINE I == {i \in 1..Len(s) : s[i] = e}
<1>1. CASE I = {}
  <2>1. RemoveFirst(s, e) = s
    BY <1>1 DEF RemoveFirst
  <2> QED
    BY <2>1
<1>2. CASE I # {}
  <2>1. PICK m \in I : \A y \in I : m <= y
    <3>1. I \subseteq Nat
      OBVIOUS
    <3>2. PICK m \in I : \A y \in I : ~(<<y, m>> \in OpToRel(<, Nat))
      BY <1>2, <3>1, NatLessThanWellFounded, WFMin, Zenon
    <3>3. ASSUME NEW y \in I, y < m  PROVE <<y, m>> \in OpToRel(<, Nat)
      <4>1. <<y, m>> \in Nat \X Nat /\ <<y, m>>[1] = y /\ <<y, m>>[2] = m
        BY <3>1
      <4>2. <<y, m>>[1] < <<y, m>>[2]
        BY <3>3, <4>1, Zenon
      <4> QED
        BY <4>1, <4>2, Zenon DEF OpToRel
    <3>4. \A y \in I : ~(y < m)
      BY <3>2, <3>3, Zenon
    <3> QED
      BY <3>1, <3>4
  <2>2. Min(I) \in I
    BY <2>1 DEF Min
  <2> DEFINE n == Min(I)
  <2>3. RemoveFirst(s, e) = SubSeq(s, 1, n - 1) \o SubSeq(s, n + 1, Len(s))
    BY <1>2 DEF RemoveFirst, RemoveAt, SelectInSeq
  <2>4. n \in 1..Len(s)
    BY <2>2
  <2> HIDE DEF n
  <2> DEFINE a == SubSeq(s, 1, n - 1)
             b == SubSeq(s, n + 1, Len(s))
  <2>5. /\ a \in Seq(S) /\ Len(a) = n - 1
        /\ \A i \in 1..Len(a) : a[i] = s[i]
    BY <2>4, SubSeqProperties
  <2>6. /\ b \in Seq(S) /\ Len(b) = Len(s) - n
        /\ \A i \in 1..Len(b) : b[i] = s[n + i]
    BY <2>4, SubSeqProperties
  <2> HIDE DEF a, b
  <2>7. a \o b \in Seq(S) /\ Len(a \o b) = Len(s) - 1
    BY <2>4, <2>5, <2>6
  <2>8. \A i \in 1..Len(a \o b) : (a \o b)[i] = IF i < n THEN s[i] ELSE s[i + 1]
    BY <2>4, <2>5, <2>6, <2>7
  <2>9. RemoveFirst(s, e) = a \o b
    BY <2>3 DEF a, b
  <2>10. ASSUME NEW i \in 1..Len(a \o b)  PROVE \E k \in 1..Len(s) : (a \o b)[i] = s[k]
    <3>1. i \in 1..Len(s) /\ i + 1 \in 1..Len(s)
      BY <2>4, <2>7
    <3> QED
      BY <2>8, <3>1
  <2> QED
    BY <2>7, <2>9, <2>10
<1> QED
  BY <1>1, <1>2

-----------------------------------------------------------------------------
(* What survives the steps of others.                                      *)

\* What a coordinator holds stays true while the store only grows.
LEMMA FitsOn ==
    ASSUME Typed, Typed', Grows, NEW c \in Coordinator, Fits(c)
    PROVE  Fits(c)'
<1>1. Preparation(c)'
  <2>1. c.job \in Jobs => SubOf(c.job) \in Subs
    BY JobIs
  <2> QED
    BY <2>1 DEF Typed, Grows, Fits, Preparation, Exists
<1>2. Freshness(c)'
  <2>1. c.generation \in Nat /\ policy.generation \in Nat /\ policy'.generation \in Nat
    BY DEF Typed, Coordinator
  <2>2. c.pc = "freeze" => SubOf(c.job) \in Subs /\ c.sources \in Resolved
    BY JobIs DEF Fits, Preparation
  <2> QED
    BY <2>1, <2>2 DEF Grows, Fits, Freshness
<1>3. Projection(c)'
  <2>1. c.batch \in Seq(Jobs)
    BY DEF Coordinator
  <2>2. c.batch # <<>> => Head(c.batch) \in Jobs
    BY <2>1
  <2>3. c.batch # <<>> => SubOf(Head(c.batch)) \in Subs
    BY <2>2, JobIs
  <2>4. \A i \in 1..Len(c.batch) : c.batch[i] \in Jobs
    BY <2>1
  <2> QED
    BY <2>2, <2>3, <2>4 DEF Grows, Fits, Projection, Carrying, Ended
<1> QED
  BY <1>1, <1>2, <1>3 DEF Fits

\* So a step has to account only for the coordinator it moves.
LEMMA CoordinatedOn ==
    ASSUME IInv, Typed', Grows,
           \A d \in Daemons : coord'[d] = coord[d] \/ Fits(coord[d])'
    PROVE  Coordinated'
<1> SUFFICES ASSUME NEW d \in Daemons, coord'[d] = coord[d]  PROVE Fits(coord[d])'
  BY DEF Coordinated
<1>1. PICK c \in Coordinator : c = coord[d]
  BY DEF IInv, Typed
<1>2. Fits(c)'
  BY <1>1, FitsOn DEF IInv, Coordinated
<1>3. c = coord'[d]
  BY <1>1
<1> QED
  BY <1>2, <1>3 DEF Fits, Preparation, Freshness, Projection, Exists, Carrying

\* The order of runs holds on when a run is only created in its turn.
LEMMA SequentialOn ==
    ASSUME Sequential, Advances
    PROVE  Sequential'
<1>1. \A j \in Jobs : \A k \in Earlier(j) : k \in Jobs
  BY DEF Earlier
<1>2. \A j \in Jobs : job'[j].status # "none" =>
        \/ job[j].status # "none"
        \/ \A k \in Earlier(j) : job[k].status = "completed"
  BY DEF Advances, InTurn, Turns
<1>3. \A j \in Jobs : job[j].status = "completed" => job'[j].status = "completed"
  BY DEF Advances, Grows, Ended
<1> QED
  BY <1>1, <1>2, <1>3 DEF Sequential, Exists

-----------------------------------------------------------------------------
(* The kinds of change to the store and to the processes.                  *)

\* A coordinator at rest holds nothing.
LEMMA Resting ==
    ASSUME Typed  PROVE Idle \in Coordinator /\ Fits(Idle)
<1>1. Idle \in Coordinator /\ Idle.pc = "idle" /\ Idle.generation = 0 /\ Idle.batch = <<>>
  BY DEF Idle, Coordinator
<1>2. policy.generation \in Nat
  BY DEF Typed
<1> QED
  BY <1>1, <1>2 DEF Fits, Preparation, Freshness, Projection

\* A producer moves on, and has a receipt only for the row under its key.
LEMMA ProducerKeeps ==
    ASSUME IInv, NEW p \in Producers, NEW r \in Request,
           producer' = [producer EXCEPT ![p] = r],
           r.pc # "idle" => r.commit \in Commits,
           r.answer \in Subs => /\ idem[KeyOf[p]] # None
                                /\ idem[KeyOf[p]].sub = r.answer
                                /\ idem[KeyOf[p]].digest \in {None, r.commit},
           UNCHANGED <<ref, idem, frozen, job, carried, policy, pending, coord, seen>>
    PROVE  IInv' /\ Advances
<1>1. Typed'
  BY DEF IInv, Typed
<1>2. Grows
  BY DEF IInv, Typed, Grows
<1>3. RowsHaveRuns'
  BY DEF IInv, RowsHaveRuns, HasRun, Exists
<1>4. AnswersHaveRows'
  BY DEF IInv, Typed, AnswersHaveRows
<1>5. AbsentBlank' /\ Current' /\ Carries' /\ SourcesAgree' /\ SeededFromFirst'
  BY DEF IInv, AbsentBlank, Current, Carries, Carrying, SourcesAgree, SeededFromFirst, Exists
<1>6. Coordinated'
  BY <1>1, <1>2, CoordinatedOn
<1>7. OneSubmissionPerKey'
  BY DEF IInv, Typed, OneSubmissionPerKey, Exists
<1>8. InTurn
  BY DEF InTurn
<1>9. Advances
  BY <1>2, <1>8 DEF Advances
<1>10. Sequential'
  BY <1>9, SequentialOn DEF IInv
<1> QED
  BY <1>1, <1>2, <1>3, <1>4, <1>5, <1>6, <1>7, <1>9, <1>10 DEF IInv

\* A coordinator moves on with something that is true of the store; what is left to
\* project stays over.
LEMMA CoordKeeps ==
    ASSUME IInv, NEW d \in Daemons, NEW c \in Coordinator, Fits(c),
           coord' = [coord EXCEPT ![d] = c],
           pending' \in Seq(Jobs), \A i \in 1..Len(pending') : job[pending'[i]].status \in Ended,
           UNCHANGED <<ref, producer, idem, frozen, job, carried, policy, seen>>
    PROVE  IInv' /\ Advances
<1>1. Typed'
  BY DEF IInv, Typed
<1>2. Grows
  BY DEF IInv, Typed, Grows
<1>3. RowsHaveRuns' /\ AnswersHaveRows' /\ OneSubmissionPerKey'
  BY DEF IInv, RowsHaveRuns, HasRun, AnswersHaveRows, OneSubmissionPerKey, Exists
<1>4. AbsentBlank' /\ Current' /\ Carries' /\ SourcesAgree' /\ SeededFromFirst'
  BY DEF IInv, AbsentBlank, Current, Carries, Carrying, SourcesAgree, SeededFromFirst, Exists
<1>5. Coordinated'
  <2>1. \A e \in Daemons : coord'[e] = coord[e] \/ coord'[e] = c
    BY DEF IInv, Typed
  <2>2. \A e \in Daemons : coord'[e] = coord[e] \/ Fits(coord[e])'
    BY <2>1 DEF Fits, Preparation, Freshness, Projection, Exists, Carrying
  <2> QED
    BY <1>1, <1>2, <2>2, CoordinatedOn
<1>6. InTurn
  BY DEF InTurn
<1>7. Advances
  BY <1>2, <1>6 DEF Advances
<1>8. Sequential'
  BY <1>7, SequentialOn DEF IInv
<1> QED
  BY <1>1, <1>2, <1>3, <1>4, <1>5, <1>7, <1>8 DEF IInv

\* The branch moves, or a generation begins.
LEMMA BranchKeeps ==
    ASSUME IInv, ref' \in seen', seen' \in SUBSET Commits,
           policy' \in [paused : BOOLEAN, generation : Nat],
           policy.generation <= policy'.generation,
           policy'.generation = policy.generation => seen \subseteq seen',
           UNCHANGED <<producer, idem, frozen, job, carried, pending, coord>>
    PROVE  IInv' /\ Advances
<1>1. Typed'
  BY DEF IInv, Typed
<1>2. Grows
  BY DEF Grows
<1>3. RowsHaveRuns' /\ AnswersHaveRows' /\ OneSubmissionPerKey'
  BY DEF IInv, RowsHaveRuns, HasRun, AnswersHaveRows, OneSubmissionPerKey, Exists
<1>4. AbsentBlank' /\ Current' /\ Carries' /\ SourcesAgree' /\ SeededFromFirst'
  BY DEF IInv, AbsentBlank, Current, Carries, Carrying, SourcesAgree, SeededFromFirst, Exists
<1>5. Coordinated'
  BY <1>1, <1>2, CoordinatedOn
<1>6. InTurn
  BY DEF InTurn
<1>7. Advances
  BY <1>2, <1>6 DEF Advances
<1>8. Sequential'
  BY <1>7, SequentialOn DEF IInv
<1> QED
  BY <1>1, <1>2, <1>3, <1>4, <1>5, <1>7, <1>8 DEF IInv

\* An active job's row changes; a coordinator comes to rest with it or none does.
LEMMA RowKeeps ==
    ASSUME IInv, NEW j \in Jobs, NEW row \in JobRow, job' = [job EXCEPT ![j] = row],
           \/ job[j].status = "queued" /\ row.status \in {"queued", "running", "failed", "cancelled"}
           \/ job[j].status = "running" /\ row.status \in Ended \cup {"queued"},
           row.commit \in {None, frozen[SubOf(j)][SpecOf(j)]},
           row.prepared => row.commit # None,
           row.status = "running" /\ j # First(SubOf(j)) /\ uses_shared_calibration =>
               First(SubOf(j)) \in row.rows,
           row.status = "completed" /\ row.rows # {} /\ uses_shared_calibration =>
               First(SubOf(j)) \in row.rows,
           pending' \in Seq(Jobs), \A i \in 1..Len(pending') : job'[pending'[i]].status \in Ended,
           coord' \in [Daemons -> Coordinator],
           \A d \in Daemons : coord'[d] = coord[d] \/ coord'[d] = Idle,
           UNCHANGED <<ref, producer, idem, frozen, carried, policy, seen>>
    PROVE  IInv' /\ Advances
<1>1. Typed'
  BY DEF IInv, Typed
<1>2. Grows
  BY DEF IInv, Typed, Grows, Ended
<1>3. RowsHaveRuns'
  BY <1>2 DEF IInv, RowsHaveRuns, HasRun, Exists, Grows
<1>4. AnswersHaveRows' /\ AbsentBlank'
  BY DEF IInv, Typed, AnswersHaveRows, AbsentBlank, Exists, Ended
<1>5. OneSubmissionPerKey'
  BY DEF IInv, Typed, OneSubmissionPerKey, Exists
<1>6. Current'
  BY DEF IInv, Current
<1>7. Carries'
  BY DEF IInv, Typed, Carries, Carrying, Exists
<1>8. SourcesAgree'
  BY DEF IInv, Typed, SourcesAgree
<1>9. SeededFromFirst'
  BY DEF IInv, Typed, SeededFromFirst, First
<1>10. Coordinated'
  <2>1. Fits(Idle)'
    BY <1>1, <1>2, Resting, FitsOn DEF IInv
  <2>2. \A d \in Daemons : coord'[d] = coord[d] \/ Fits(coord[d])'
    BY <2>1 DEF Fits, Preparation, Freshness, Projection, Exists, Carrying
  <2> QED
    BY <1>1, <1>2, <2>2, CoordinatedOn
<1>11. InTurn
  BY DEF IInv, Typed, InTurn, Turns, Ended
<1>12. Advances
  BY <1>2, <1>11 DEF Advances
<1>13. Sequential'
  BY <1>12, SequentialOn DEF IInv
<1> QED
  BY <1>1, <1>2, <1>3, <1>4, <1>5, <1>6, <1>7, <1>8, <1>9, <1>10, <1>12, <1>13 DEF IInv

\* A completed run's database becomes the submission's.
LEMMA CarryKeeps ==
    ASSUME IInv, NEW d \in Daemons, coord[d].pc = "plan",
           uses_shared_calibration,
           job[Head(coord[d].batch)].status = "completed",
           job[Head(coord[d].batch)].rows # {},
           carried' = [carried EXCEPT ![SubOf(Head(coord[d].batch))] =
                                        job[Head(coord[d].batch)].rows],
           coord' = [coord EXCEPT ![d].pc = "append"],
           UNCHANGED <<ref, producer, idem, frozen, job, policy, pending, seen>>
    PROVE  IInv' /\ Advances
<1> DEFINE j == Head(coord[d].batch)
<1>1. coord[d] \in Coordinator /\ coord[d].batch # <<>>
  BY DEF IInv, Typed, Coordinated, Fits, Projection
<1>2. j \in Jobs /\ SubOf(j) \in Subs
  <2>1. coord[d].batch \in Seq(Jobs)
    BY <1>1 DEF Coordinator
  <2> QED
    BY <1>1, <2>1, JobIs
<1>3. First(SubOf(j)) \in job[j].rows /\ job[j].rows \in SUBSET Jobs
  BY <1>2 DEF IInv, Typed, JobRow, SeededFromFirst, First
<1>4. PICK c \in Coordinator : c = [coord[d] EXCEPT !.pc = "append"]
  BY <1>1 DEF Coordinator
<1>5. /\ coord' = [coord EXCEPT ![d] = c] /\ c.pc = "append"
      /\ c.batch = coord[d].batch /\ c.generation = coord[d].generation
  BY <1>1, <1>4 DEF Coordinator
<1> HIDE DEF j
<1>6. carried' = [carried EXCEPT ![SubOf(j)] = job[j].rows]
  BY DEF j
<1>7. Typed'
  <2>1. carried' \in [Subs -> SUBSET Jobs]
    BY <1>2, <1>3, <1>6 DEF IInv, Typed
  <2>2. coord' \in [Daemons -> Coordinator]
    BY <1>5 DEF IInv, Typed
  <2> QED
    BY <2>1, <2>2 DEF IInv, Typed
<1>8. Grows
  BY <1>2, <1>3, <1>6 DEF IInv, Typed, Grows
<1>9. RowsHaveRuns' /\ AnswersHaveRows' /\ OneSubmissionPerKey'
  BY DEF IInv, RowsHaveRuns, HasRun, AnswersHaveRows, OneSubmissionPerKey, Exists
<1>10. AbsentBlank' /\ Current' /\ SourcesAgree' /\ SeededFromFirst'
  BY DEF IInv, AbsentBlank, Current, SourcesAgree, SeededFromFirst, Exists
<1>11. Carries'
  BY <1>8, JobIs DEF IInv, Carries, Carrying, Exists, Grows
<1>12. Coordinated'
  <2>1. coord'[d] = c /\ \A e \in Daemons : e # d => coord'[e] = coord[e]
    BY <1>5 DEF IInv, Typed
  <2>2. First(SubOf(j)) \in carried'[SubOf(j)] /\ j = Head(c.batch)
    BY <1>2, <1>3, <1>5, <1>6 DEF IInv, Typed, j
  <2>3. Fits(c)'
    BY <1>1, <1>5, <2>2 DEF IInv, Coordinated, Fits, Preparation, Freshness, Projection, Carrying
  <2>4. Fits(coord[d])'
    BY <2>1, <2>3 DEF Fits, Preparation, Freshness, Projection, Exists, Carrying
  <2> QED
    BY <1>7, <1>8, <2>1, <2>4, CoordinatedOn
<1>13. InTurn
  BY DEF InTurn
<1>14. Advances
  BY <1>8, <1>13 DEF Advances
<1>15. Sequential'
  BY <1>14, SequentialOn DEF IInv
<1> QED
  BY <1>7, <1>8, <1>9, <1>10, <1>11, <1>12, <1>14, <1>15 DEF IInv

\* A run is inserted: its row was absent, and its submission has one already.
LEMMA InsertKeeps ==
    ASSUME IInv, NEW d \in Daemons, NEW k \in Jobs, NEW c \in Coordinator,
           job[k].status = "none", HasRun(SubOf(k)),
           \A m \in Earlier(k) : job[m].status = "completed",
           uses_shared_calibration => Carrying(SubOf(k)),
           NEW commit \in {None, frozen[SubOf(k)][SpecOf(k)]},
           job' = [job EXCEPT ![k] = QueuedJob(commit)],
           coord' = [coord EXCEPT ![d] = c], Fits(c),
           UNCHANGED <<ref, producer, idem, frozen, carried, policy, pending, seen>>
    PROVE  IInv' /\ Advances
<1>1. QueuedJob(commit) \in JobRow
  BY JobIs DEF IInv, Typed, QueuedJob, JobRow, Statuses
<1>2. Typed'
  BY <1>1 DEF IInv, Typed
<1>3. Grows
  BY <1>1 DEF IInv, Typed, Grows, QueuedJob, Ended
<1>4. RowsHaveRuns'
  BY <1>3 DEF IInv, RowsHaveRuns, HasRun, Exists, Grows
<1>5. AnswersHaveRows' /\ AbsentBlank'
  BY DEF IInv, Typed, AnswersHaveRows, AbsentBlank, Exists, QueuedJob
<1>6. OneSubmissionPerKey'
  BY DEF IInv, Typed, OneSubmissionPerKey, HasRun, Exists
<1>7. Current'
  <2>1. \A i \in 1..Len(pending) : pending[i] \in Jobs
    BY DEF IInv, Typed
  <2> QED
    BY <1>3, <2>1 DEF IInv, Current, Grows
<1>8. Carries'
  BY DEF IInv, Typed, Carries, Carrying, Exists, QueuedJob
<1>9. SourcesAgree'
  BY DEF IInv, Typed, SourcesAgree, QueuedJob
<1>10. SeededFromFirst'
  BY DEF IInv, Typed, SeededFromFirst, QueuedJob
<1>11. Coordinated'
  <2>1. coord'[d] = c /\ \A e \in Daemons : e # d => coord'[e] = coord[e]
    BY DEF IInv, Typed
  <2>2. Fits(c)'
    BY <1>2, <1>3, FitsOn DEF IInv
  <2>3. Fits(coord[d])'
    BY <2>1, <2>2 DEF Fits, Preparation, Freshness, Projection, Exists, Carrying
  <2> QED
    BY <1>2, <1>3, <2>1, <2>3, CoordinatedOn
<1>12. InTurn
  BY DEF IInv, Typed, InTurn, Turns, QueuedJob
<1>13. Advances
  BY <1>3, <1>12 DEF Advances
<1>14. Sequential'
  BY <1>13, SequentialOn DEF IInv
<1> QED
  BY <1>2, <1>3, <1>4, <1>5, <1>6, <1>7, <1>8, <1>9, <1>10, <1>11, <1>13, <1>14 DEF IInv

\* What is resolved is recorded: the same for every spec that had a commit, and
\* for every job.
LEMMA FreezeKeeps ==
    ASSUME IInv, NEW d \in Daemons, freeze_submission_sources(d),
           InForce(d), Unconflicted(SubOf(coord[d].job), coord[d].sources)
    PROVE  IInv' /\ Advances
<1>1. PICK j \in Jobs, sources \in Resolved :
        /\ j = coord[d].job /\ sources = coord[d].sources
        /\ coord[d] \in Coordinator /\ coord[d].pc = "freeze"
        /\ job[j].status # "none" /\ SubOf(j) \in Subs
  BY JobIs DEF IInv, Typed, Coordinated, Fits, Preparation, Exists, freeze_submission_sources
<1> DEFINE s == SubOf(j)
           Named(k) == SubOf(k) = s /\ job[k].status = "queued" /\ job[k].commit = None
<1>2. /\ frozen' = [frozen EXCEPT ![s] = sources]
      /\ job' = [k \in Jobs |-> IF Named(k) THEN [job[k] EXCEPT !.commit = sources[SpecOf(k)]]
                                ELSE job[k]]
      /\ coord' = [coord EXCEPT ![d].pc = "prepare"]
      /\ UNCHANGED <<ref, producer, idem, carried, policy, pending, seen>>
  BY <1>1 DEF freeze_submission_sources
<1>3. \A i \in Specs : /\ sources[i] \in Commits /\ sources[i] # None
                        /\ frozen[s][i] \in {None, sources[i]}
  BY <1>1, PlanAssumption DEF Resolved, Unconflicted, freeze_submission_sources
<1>4. \A k \in Jobs : SubOf(k) = s => job[k].commit \in {None, sources[SpecOf(k)]}
  BY <1>1 DEF Unconflicted
<1>5. PICK c \in Coordinator : c = [coord[d] EXCEPT !.pc = "prepare"]
  BY <1>1 DEF Coordinator
<1>6. /\ coord' = [coord EXCEPT ![d] = c] /\ c.pc = "prepare" /\ c.job = j /\ c.sources = sources
      /\ c.batch = coord[d].batch /\ c.generation = coord[d].generation
  BY <1>1, <1>2, <1>5 DEF Coordinator
<1>7. /\ frozen' \in [Subs -> [Specs -> Commits \cup {None}]]
      /\ frozen'[s] = sources /\ \A u \in Subs : u # s => frozen'[u] = frozen[u]
  BY <1>1, <1>2, <1>3 DEF IInv, Typed, Resolved
<1>8. \A k \in Jobs :
        /\ job'[k] \in JobRow
        /\ job'[k].status = job[k].status /\ job'[k].prepared = job[k].prepared
        /\ job'[k].rows = job[k].rows
        /\ job'[k].commit = IF Named(k) THEN sources[SpecOf(k)] ELSE job[k].commit
  <2> SUFFICES ASSUME NEW k \in Jobs
        PROVE /\ job'[k] \in JobRow
              /\ job'[k].status = job[k].status /\ job'[k].prepared = job[k].prepared
              /\ job'[k].rows = job[k].rows
              /\ job'[k].commit = IF Named(k) THEN sources[SpecOf(k)] ELSE job[k].commit
    OBVIOUS
  <2>1. job[k] \in JobRow /\ sources[SpecOf(k)] \in Commits
    BY <1>3, JobIs DEF IInv, Typed
  <2>2. job'[k] = IF Named(k) THEN [job[k] EXCEPT !.commit = sources[SpecOf(k)]] ELSE job[k]
    BY <1>2
  <2> HIDE DEF Named
  <2> QED
    BY <2>1, <2>2 DEF JobRow
<1> HIDE DEF Named, s
<1>9. Typed'
  <2>1. job' \in [Jobs -> JobRow]
    BY <1>2, <1>8
  <2>2. coord' \in [Daemons -> Coordinator]
    BY <1>6 DEF IInv, Typed
  <2> QED
    BY <1>2, <1>7, <2>1, <2>2 DEF IInv, Typed
<1>10. Grows
  BY <1>2, <1>3, <1>7, <1>8 DEF IInv, Typed, Grows, s
<1>11. RowsHaveRuns'
  <2>1. HasRun(s)'
    BY <1>1, <1>8 DEF HasRun, Exists, s
  <2> QED
    BY <1>2, <1>7, <1>8, <2>1 DEF IInv, RowsHaveRuns, HasRun, Exists
<1>12. AnswersHaveRows' /\ OneSubmissionPerKey'
  BY <1>2, <1>8 DEF IInv, AnswersHaveRows, OneSubmissionPerKey, Exists
<1>13. AbsentBlank' /\ Carries' /\ SeededFromFirst'
  BY <1>2, <1>8 DEF IInv, AbsentBlank, Carries, Carrying, SeededFromFirst, Exists, Named
<1>14. Current'
  <2>1. \A i \in 1..Len(pending) : pending[i] \in Jobs
    BY DEF IInv, Typed
  <2> QED
    BY <1>2, <1>8, <2>1 DEF IInv, Current
<1>15. SourcesAgree'
  <2> SUFFICES ASSUME NEW k \in Jobs
        PROVE /\ job'[k].commit \in {None, frozen'[SubOf(k)][SpecOf(k)]}
              /\ job'[k].prepared => job'[k].commit # None
    BY DEF SourcesAgree
  <2>1. SubOf(k) \in Subs /\ SpecOf(k) \in Specs
    BY JobIs
  <2>2. CASE SubOf(k) = s
    BY <1>3, <1>4, <1>7, <1>8, <2>1, <2>2 DEF IInv, SourcesAgree
  <2>3. CASE SubOf(k) # s
    BY <1>7, <1>8, <2>1, <2>3 DEF IInv, SourcesAgree, Named
  <2> QED
    BY <2>2, <2>3
<1>16. Coordinated'
  <2>1. coord'[d] = c /\ \A e \in Daemons : e # d => coord'[e] = coord[e]
    BY <1>6 DEF IInv, Typed
  <2>2. Preparation(c)'
    BY <1>1, <1>3, <1>6, <1>7, <1>8 DEF Preparation, Exists, s
  <2>3. Freshness(c)'
    BY <1>2, <1>6 DEF IInv, Coordinated, Fits, Freshness
  <2>4. Projection(c)'
    <3>1. \A i \in 1..Len(c.batch) : c.batch[i] \in Jobs
      BY DEF Coordinator
    <3> QED
      BY <1>6, <1>8, <3>1 DEF IInv, Coordinated, Fits, Projection
  <2>5. Fits(coord[d])'
    BY <2>1, <2>2, <2>3, <2>4 DEF Fits, Preparation, Freshness, Projection, Exists, Carrying
  <2> QED
    BY <1>9, <1>10, <2>1, <2>5, CoordinatedOn
<1>17. InTurn
  BY <1>8 DEF InTurn
<1>18. Advances
  BY <1>10, <1>17 DEF Advances
<1>19. Sequential'
  BY <1>18, SequentialOn DEF IInv
<1> QED
  BY <1>9, <1>10, <1>11, <1>12, <1>13, <1>14, <1>15, <1>16, <1>18, <1>19 DEF IInv

\* A submission is stored with its key, its specs and its first run: nothing was
\* there before under that key or for that submission.
LEMMA PersistKeeps ==
    ASSUME IInv, NEW p \in Producers, NEW s \in Subs, producer[p].pc = "insert",
           idem[KeyOf[p]] = None, \A j \in Jobs : SubOf(j) = s => ~Exists(j),
           idem' = [idem EXCEPT ![KeyOf[p]] = [sub |-> s, digest |-> request_digest(p)]],
           frozen' = [frozen EXCEPT ![s] = SpecRows(producer[p].commit)],
           job' = [job EXCEPT ![First(s)] = QueuedJob(producer[p].commit)],
           producer' = [producer EXCEPT ![p].pc = "done", ![p].answer = s],
           UNCHANGED <<ref, carried, policy, pending, coord, seen>>
    PROVE  IInv' /\ Advances
<1>1. PICK commit \in Commits : commit = producer[p].commit
  BY DEF IInv, Typed
<1>2. /\ KeyOf[p] \in Keys /\ First(s) \in Jobs /\ SubOf(First(s)) = s /\ SpecOf(First(s)) = 1
      /\ 1 \in Specs /\ commit # None
  BY <1>1, FirstIs, PlanAssumption DEF First, SpecOf
<1> DEFINE k0 == KeyOf[p]
           first == First(s)
           row == [sub |-> s, digest |-> commit]
           request == [producer[p] EXCEPT !.pc = "done", !.answer = s]
<1>3. row \in IdemRow /\ row # None /\ row.sub = s /\ row.digest = commit
  BY <1>1, PlanAssumption DEF IdemRow
<1>4. request \in Request /\ request.pc = "done" /\ request.commit = commit /\ request.answer = s
  BY <1>1 DEF IInv, Typed, Request
<1>5. QueuedJob(commit) \in JobRow
  BY <1>1 DEF QueuedJob, JobRow, Statuses
<1>6. idem' = [idem EXCEPT ![k0] = row] /\ job' = [job EXCEPT ![first] = QueuedJob(commit)]
  BY <1>1 DEF request_digest
<1>7. producer' = [producer EXCEPT ![p] = request]
  BY DEF IInv, Typed, Request
<1> HIDE DEF k0, first, row, request
<1>8. /\ frozen' \in [Subs -> [Specs -> Commits \cup {None}]]
      /\ \A i \in Specs : frozen'[s][i] = commit
      /\ \A u \in Subs : u # s => frozen'[u] = frozen[u]
  BY <1>1 DEF IInv, Typed, SpecRows
<1>9. /\ job' \in [Jobs -> JobRow]
      /\ job'[first].status = "queued" /\ job'[first].commit = commit /\ ~job'[first].prepared
      /\ job[first].status = "none" /\ first \in Jobs /\ SubOf(first) = s /\ SpecOf(first) = 1
      /\ \A j \in Jobs : j # first => job'[j] = job[j]
  <2>1. first \in Jobs /\ SubOf(first) = s /\ SpecOf(first) = 1
    BY <1>2 DEF first
  <2>2. job[first].status = "none"
    BY <2>1 DEF Exists
  <2>3. /\ QueuedJob(commit).status = "queued" /\ QueuedJob(commit).commit = commit
        /\ ~QueuedJob(commit).prepared
    BY DEF QueuedJob
  <2>4. /\ job' \in [Jobs -> JobRow] /\ job'[first] = QueuedJob(commit)
        /\ \A j \in Jobs : j # first => job'[j] = job[j]
    <3>1. job \in [Jobs -> JobRow]
      BY DEF IInv, Typed
    <3> QED
      BY <1>5, <1>6, <2>1, <3>1
  <2> QED
    BY <2>1, <2>2, <2>3, <2>4
<1>10. /\ idem' \in [Keys -> IdemRow \cup {None}] /\ k0 \in Keys /\ idem[k0] = None
       /\ idem'[k0] = row /\ \A k \in Keys : k # k0 => idem'[k] = idem[k]
  BY <1>2, <1>3, <1>6 DEF IInv, Typed, k0
<1>11. /\ producer' \in [Producers -> Request] /\ producer'[p] = request
       /\ \A q \in Producers : q # p => producer'[q] = producer[q]
  BY <1>4, <1>7 DEF IInv, Typed
<1>12. \A i \in Specs : frozen[s][i] = None
  BY DEF IInv, RowsHaveRuns, HasRun
<1>13. \A k \in Keys : idem[k] # None => idem[k].sub # s
  BY DEF IInv, RowsHaveRuns, HasRun
<1>14. Typed'
  BY <1>4, <1>8, <1>9, <1>10, <1>11 DEF IInv, Typed
<1>15. Grows
  <2>1. /\ \A j \in Jobs : job[j].status # "none" => job'[j].status # "none"
        /\ \A j \in Jobs : job[j].status \in Ended => job'[j].status = job[j].status
    BY <1>9 DEF Ended
  <2>2. \A u \in Subs : \A i \in Specs : frozen[u][i] # None => frozen'[u][i] = frozen[u][i]
    BY <1>8, <1>12
  <2>3. policy.generation <= policy'.generation
    BY DEF IInv, Typed
  <2> QED
    BY <2>1, <2>2, <2>3 DEF Grows
<1>16. RowsHaveRuns'
  <2>1. HasRun(s)'
    BY <1>9 DEF HasRun, Exists
  <2>2. \A u \in Subs : HasRun(u) => HasRun(u)'
    BY <1>15 DEF HasRun, Exists, Grows
  <2>3. ASSUME NEW k \in Keys, idem'[k] # None  PROVE HasRun(idem[k].sub)'
    <3>1. CASE k = k0
      BY <1>3, <1>10, <2>1, <3>1 DEF HasRun, Exists
    <3>2. CASE k # k0
      <4>1. idem'[k] = idem[k] /\ idem[k].sub \in Subs /\ HasRun(idem[k].sub)
        BY <1>10, <2>3, <3>2 DEF IInv, Typed, IdemRow, RowsHaveRuns
      <4> QED
        BY <1>15, <4>1 DEF HasRun, Exists, Grows
    <3> QED
      BY <3>1, <3>2
  <2>4. ASSUME NEW u \in Subs, NEW i \in Specs, frozen'[u][i] # None  PROVE HasRun(u)'
    BY <1>8, <2>1, <2>2, <2>4 DEF IInv, RowsHaveRuns
  <2> QED
    BY <2>3, <2>4 DEF RowsHaveRuns
<1>17. AnswersHaveRows'
  <2> SUFFICES ASSUME NEW q \in Producers, producer'[q].answer \in Subs
        PROVE idem'[KeyOf[q]] # None
    BY DEF AnswersHaveRows
  <2>1. KeyOf[q] \in Keys
    BY PlanAssumption
  <2>2. CASE KeyOf[q] = k0
    BY <1>3, <1>10, <2>2
  <2>3. CASE KeyOf[q] # k0
    BY <1>10, <1>11, <2>1, <2>3 DEF IInv, AnswersHaveRows, k0
  <2> QED
    BY <2>2, <2>3
<1>18. AbsentBlank'
  BY <1>9 DEF IInv, AbsentBlank, Exists
<1>19. Current'
  <2>1. \A i \in 1..Len(pending) : pending[i] \in Jobs
    BY DEF IInv, Typed
  <2> QED
    BY <1>15, <2>1 DEF IInv, Current, Grows
<1>20. Carries'
  BY <1>9 DEF IInv, Carries, Carrying, Exists, first
<1>21. OneSubmissionPerKey'
  <2>1. ASSUME NEW j \in Jobs, job'[j].status # "none"
        PROVE \E k \in Keys : idem'[k] # None /\ idem'[k].sub = SubOf(j)
    <3>1. CASE j = first
      BY <1>3, <1>9, <1>10, <3>1
    <3>2. CASE j # first
      <4>1. PICK k \in Keys : idem[k] # None /\ idem[k].sub = SubOf(j)
        BY <1>9, <2>1, <3>2 DEF IInv, OneSubmissionPerKey, Exists
      <4> QED
        BY <1>10, <4>1
    <3> QED
      BY <3>1, <3>2
  <2>2. ASSUME NEW k \in Keys, NEW l \in Keys, k # l, idem'[k] # None, idem'[l] # None
        PROVE idem'[k].sub # idem'[l].sub
    BY <1>3, <1>10, <1>13, <2>2 DEF IInv, OneSubmissionPerKey
  <2>3. ASSUME NEW q \in Producers, producer'[q].answer \in Subs
        PROVE /\ idem'[KeyOf[q]].sub = producer'[q].answer
              /\ idem'[KeyOf[q]].digest \in {None, producer'[q].commit}
    <3>1. CASE q = p
      BY <1>3, <1>4, <1>10, <1>11, <3>1 DEF k0
    <3>2. CASE q # p
      <4>1. KeyOf[q] \in Keys /\ producer'[q] = producer[q]
        BY <1>11, <3>2, PlanAssumption
      <4>2. idem[KeyOf[q]] # None
        BY <2>3, <4>1 DEF IInv, AnswersHaveRows
      <4>3. idem'[KeyOf[q]] = idem[KeyOf[q]]
        BY <1>10, <4>1, <4>2
      <4> QED
        BY <2>3, <4>1, <4>3 DEF IInv, OneSubmissionPerKey
    <3> QED
      BY <3>1, <3>2
  <2> QED
    BY <2>1, <2>2, <2>3 DEF OneSubmissionPerKey, Exists
<1>22. SourcesAgree'
  <2> SUFFICES ASSUME NEW j \in Jobs
        PROVE /\ job'[j].commit \in {None, frozen'[SubOf(j)][SpecOf(j)]}
              /\ job'[j].prepared => job'[j].commit # None
    BY DEF SourcesAgree
  <2>1. SubOf(j) \in Subs /\ SpecOf(j) \in Specs
    BY JobIs
  <2>2. CASE j = first
    BY <1>2, <1>8, <1>9, <2>1, <2>2
  <2>3. CASE j # first /\ SubOf(j) = s
    BY <1>9, <2>3 DEF IInv, AbsentBlank
  <2>4. CASE SubOf(j) # s
    BY <1>8, <1>9, <2>1, <2>4 DEF IInv, SourcesAgree
  <2> QED
    BY <2>2, <2>3, <2>4
<1>23. SeededFromFirst'
  BY <1>9 DEF IInv, SeededFromFirst
<1>24. Coordinated'
  BY <1>14, <1>15, CoordinatedOn
<1>25. InTurn
  <2>1. Turns(first)
    BY <1>2, <1>9, FirstIs DEF Turns, first
  <2> QED
    BY <1>9, <2>1 DEF InTurn
<1>26. Advances
  BY <1>15, <1>25 DEF Advances
<1>27. Sequential'
  BY <1>26, SequentialOn DEF IInv
<1> QED
  BY <1>14, <1>15, <1>16, <1>17, <1>18, <1>19, <1>20, <1>21, <1>22, <1>23, <1>24, <1>26,
     <1>27 DEF IInv

\* Whatever an older release left, the invariant holds at the start.
LEMMA InitHolds == Init => IInv
<1> SUFFICES ASSUME Init PROVE IInv
  OBVIOUS
<1> DEFINE Legacy(k) == k \in DOMAIN LegacyOf
           Queued(j) == Earlier(j) = {} /\ SubOf(j) \in Range(LegacyOf)
<1>1. /\ producer \in [Producers -> Request]
      /\ \A p \in Producers : producer[p].pc = "idle" /\ producer[p].answer = None
  BY DEF Init, Request
<1>2. \A k \in Keys : idem[k] = IF Legacy(k) THEN [sub |-> LegacyOf[k], digest |-> None] ELSE None
  BY DEF Init
<1>3. \A k \in DOMAIN LegacyOf : LegacyOf[k] \in Subs /\ k \in Keys
  BY PlanAssumption
<1>4. idem \in [Keys -> IdemRow \cup {None}]
  BY <1>3 DEF Init, IdemRow
<1>5. \A k \in Keys : /\ idem[k] # None => Legacy(k)
                      /\ Legacy(k) => idem[k].sub = LegacyOf[k] /\ idem[k] # None
  <2> SUFFICES ASSUME NEW k \in Keys, Legacy(k)
        PROVE  idem[k].sub = LegacyOf[k] /\ idem[k] # None
    BY <1>2
  <2>1. idem[k] = [sub |-> LegacyOf[k], digest |-> None] /\ LegacyOf[k] \in Subs
    BY <1>2, <1>3
  <2>2. None # [sub |-> LegacyOf[k], digest |-> None]
    BY <2>1, PlanAssumption
  <2> QED
    BY <2>1, <2>2
<1>6. /\ job \in [Jobs -> JobRow]
      /\ \A j \in Jobs : /\ job[j].status = IF Queued(j) THEN "queued" ELSE "none"
                         /\ job[j].commit = None /\ ~job[j].prepared /\ job[j].rows = {}
  BY DEF Init, JobRow, Statuses
<1>7. \A u \in Subs : \A i \in Specs : frozen[u][i] = None
  BY DEF Init
<1> HIDE DEF Legacy, Queued
<1>8. Typed
  <2>1. Idle \in Coordinator
    BY DEF Idle, Coordinator
  <2>2. frozen \in [Subs -> [Specs -> Commits \cup {None}]] /\ carried \in [Subs -> SUBSET Jobs]
    BY DEF Init
  <2>3. policy \in [paused : BOOLEAN, generation : Nat] /\ pending \in Seq(Jobs)
    BY DEF Init
  <2>4. coord \in [Daemons -> Coordinator] /\ ref \in Commits /\ seen \in SUBSET Commits
    BY <2>1 DEF Init
  <2> QED
    BY <1>1, <1>4, <1>6, <2>2, <2>3, <2>4 DEF Typed
<1>9. \A k \in Keys : Legacy(k) => Queued(First(LegacyOf[k])) /\ First(LegacyOf[k]) \in Jobs
                                   /\ SubOf(First(LegacyOf[k])) = LegacyOf[k]
  BY <1>3, FirstIs DEF Queued, Legacy, Range
<1>10. RowsHaveRuns
  BY <1>5, <1>6, <1>7, <1>9 DEF RowsHaveRuns, HasRun, Exists
<1>11. AnswersHaveRows
  BY <1>1, PlanAssumption DEF AnswersHaveRows
<1>12. AbsentBlank
  BY <1>6 DEF AbsentBlank
<1>13. Current
  BY DEF Init, Current
<1>14. Carries
  BY <1>6, FirstIs DEF Carries, Exists, Queued
<1>15. Coordinated
  BY <1>8, Resting DEF Init, Coordinated
<1>16. OneSubmissionPerKey
  <2>1. \A j \in Jobs : Exists(j) => \E k \in Keys : idem[k] # None /\ idem[k].sub = SubOf(j)
    <3> SUFFICES ASSUME NEW j \in Jobs, Exists(j)
          PROVE \E k \in Keys : idem[k] # None /\ idem[k].sub = SubOf(j)
      OBVIOUS
    <3>1. PICK k \in DOMAIN LegacyOf : LegacyOf[k] = SubOf(j)
      BY <1>6 DEF Exists, Queued, Range
    <3> QED
      BY <1>3, <1>5, <3>1 DEF Legacy
  <2>2. \A k, l \in Keys : k # l /\ idem[k] # None /\ idem[l] # None => idem[k].sub # idem[l].sub
    BY <1>5, PlanAssumption DEF Legacy
  <2> QED
    BY <1>1, <2>1, <2>2, PlanAssumption DEF OneSubmissionPerKey
<1>17. SourcesAgree /\ SeededFromFirst
  BY <1>6 DEF SourcesAgree, SeededFromFirst
<1>18. Sequential
  BY <1>6 DEF Sequential, Exists, Queued
<1> QED
  BY <1>18, <1>8, <1>10, <1>11, <1>12, <1>13, <1>14, <1>15, <1>16, <1>17 DEF IInv

-----------------------------------------------------------------------------
(* The actions.                                                            *)

\* Producers: validation, the lookup of the key, the insertion, asking again.
LEMMA SubmittingKeeps ==
    ASSUME IInv, NEW p \in Producers, Submitting(p) \/ Resubmit(p)
    PROVE  IInv' /\ Advances
<1>1. /\ producer[p] \in Request /\ ref \in Commits
      /\ producer[p].pc # "idle" => producer[p].commit \in Commits
  BY DEF IInv, Typed
<1>2. producer[p].answer \in Subs => /\ idem[KeyOf[p]] # None
                                     /\ idem[KeyOf[p]].sub = producer[p].answer
                                     /\ idem[KeyOf[p]].digest \in {None, producer[p].commit}
  BY DEF IInv, AnswersHaveRows, OneSubmissionPerKey
<1>3. ASSUME NEW pc \in {"lookup", "insert"}, producer[p].pc \in {"validate", "lookup"},
             producer' = [producer EXCEPT ![p].pc = pc],
             UNCHANGED <<ref, idem, frozen, job, carried, policy, pending, coord, seen>>
      PROVE  IInv' /\ Advances
  <2>1. PICK r \in Request : r = [producer[p] EXCEPT !.pc = pc]
    BY <1>1, <1>3 DEF Request
  <2>2. r.pc = pc /\ r.commit = producer[p].commit /\ r.answer = producer[p].answer
    BY <1>1, <2>1 DEF Request
  <2>3. producer' = [producer EXCEPT ![p] = r]
    BY <1>3, <2>1
  <2> QED
    BY <1>1, <1>2, <1>3, <2>2, <2>3, ProducerKeeps
<1>4. ASSUME NEW a \in Subs \cup {"conflict", "invalid"}, producer[p].pc # "idle",
             a \in Subs => /\ idem[KeyOf[p]] # None /\ idem[KeyOf[p]].sub = a
                           /\ idem[KeyOf[p]].digest \in {None, producer[p].commit},
             producer' = [producer EXCEPT ![p].pc = "done", ![p].answer = a],
             UNCHANGED <<ref, idem, frozen, job, carried, policy, pending, coord, seen>>
      PROVE  IInv' /\ Advances
  <2>1. PICK r \in Request : r = [producer[p] EXCEPT !.pc = "done", !.answer = a]
    BY <1>1 DEF Request
  <2>2. r.pc = "done" /\ r.commit = producer[p].commit /\ r.answer = a
    BY <1>1, <2>1 DEF Request
  <2>3. producer' = [producer EXCEPT ![p] = r]
    BY <1>1, <1>4, <2>1 DEF IInv, Typed, Request
  <2> QED
    BY <1>1, <1>4, <2>2, <2>3, ProducerKeeps
<1>5. ASSUME idem[KeyOf[p]] # None, producer[p].pc # "idle", producer' = Answer(p),
             UNCHANGED <<ref, idem, frozen, job, carried, policy, pending, coord, seen>>
      PROVE  IInv' /\ Advances
  <2>1. idem[KeyOf[p]] \in IdemRow
    BY <1>5, PlanAssumption DEF IInv, Typed
  <2>2. /\ Receipt(p) \in Subs \cup {"conflict", "invalid"}
        /\ Receipt(p) \in Subs => /\ idem[KeyOf[p]].sub = Receipt(p)
                                  /\ idem[KeyOf[p]].digest \in {None, producer[p].commit}
    BY <2>1, PlanAssumption DEF Receipt, request_digest, IdemRow
  <2> QED
    BY <1>4, <1>5, <2>2 DEF Answer
<1>6. ASSUME NEW r \in Request, r.answer = None, r.pc # "idle" => r.commit \in Commits,
             producer' = [producer EXCEPT ![p] = r],
             UNCHANGED <<ref, idem, frozen, job, carried, policy, pending, coord, seen>>
      PROVE  IInv' /\ Advances
  BY <1>6, ProducerKeeps, PlanAssumption
<1>7. CASE Prepare(p)
  <2>1. PICK r \in Request : r = [pc |-> "validate", commit |-> ref, answer |-> None]
    BY <1>1 DEF Request
  <2> QED
    BY <1>1, <1>6, <1>7, <2>1 DEF Prepare
<1>8. CASE Validate(p)
  BY <1>3, <1>8 DEF Validate
<1>9. CASE Refuse(p)
  <2>1. "invalid" \notin Subs
    BY PlanAssumption
  <2> QED
    BY <1>4, <1>9, <2>1 DEF Refuse
<1>10. CASE ExistingReceipt(p)
  BY <1>3, <1>5, <1>10 DEF ExistingReceipt
<1>11. CASE PersistSubmission(p)
  <2>1. CASE idem[KeyOf[p]] # None
    BY <1>5, <1>11, <2>1 DEF PersistSubmission
  <2>2. CASE idem[KeyOf[p]] = None
    BY <1>11, <2>2, PersistKeeps DEF PersistSubmission, First
  <2> QED
    BY <2>1, <2>2
<1>12. CASE Resubmit(p)
  <2>1. PICK r \in Request : r = [pc |-> "idle", commit |-> None, answer |-> None]
    BY DEF Request
  <2> QED
    BY <1>6, <1>12, <2>1 DEF Resubmit
<1> QED
  BY <1>7, <1>8, <1>9, <1>10, <1>11, <1>12 DEF Submitting

\* Pushes to the branch, pauses and resumes of the scheduler.
LEMMA OutsideKeeps ==
    ASSUME IInv, MoveRef \/ ChangeScheduler
    PROVE  IInv' /\ Advances
<1>1. CASE MoveRef
  BY <1>1, BranchKeeps DEF MoveRef, IInv, Typed
<1>2. CASE ChangeScheduler
  <2>1. policy.generation \in Nat /\ policy.paused \in BOOLEAN
    BY DEF IInv, Typed
  <2>2. /\ policy' \in [paused : BOOLEAN, generation : Nat]
        /\ policy'.generation = policy.generation + 1
    BY <1>2, <2>1 DEF ChangeScheduler
  <2> QED
    BY <1>2, <2>1, <2>2, BranchKeeps DEF ChangeScheduler, IInv, Typed
<1> QED
  BY <1>1, <1>2

\* Workers: a prepared run starts and ends; unreported Slack jobs expire.
LEMMA RunningKeeps ==
    ASSUME IInv, NEW j \in Jobs,
           \/ Start(j) \/ complete_cleanup(j) \/ request_cancel(j) \/ fail_locked_queued_jobs(j)
           \/ \E o \in {"completed", "failed", "cancelled"} : Finish(j, o)
    PROVE  IInv' /\ Advances
<1>1. job[j] \in JobRow /\ SubOf(j) \in Subs
  BY JobIs DEF IInv, Typed
<1>2. /\ job[j].commit \in {None, frozen[SubOf(j)][SpecOf(j)]}
      /\ job[j].prepared => job[j].commit # None
  BY DEF IInv, SourcesAgree
<1>3. /\ pending \in Seq(Jobs)
      /\ \A i \in 1..Len(pending) : pending[i] \in Jobs /\ job[pending[i]].status \in Ended
  BY DEF IInv, Typed, Current
<1>4. CASE Start(j)
  <2> DEFINE seed == IF sqlite_seed_key(j) THEN carried[SubOf(j)] ELSE {}
  <2>1. seed \in SUBSET Jobs
    BY <1>1 DEF IInv, Typed
  <2>2. uses_shared_calibration /\ j # First(SubOf(j)) => First(SubOf(j)) \in seed
    BY <1>4, FirstIs DEF Start, IInv, Carries, Carrying, Exists, sqlite_seed_key
  <2>3. job' = [job EXCEPT ![j] = [job[j] EXCEPT !.status = "running", !.rows = seed]]
    BY <1>1, <1>4 DEF Start, IInv, Typed, JobRow
  <2> HIDE DEF seed
  <2>4. PICK row \in JobRow : row = [job[j] EXCEPT !.status = "running", !.rows = seed]
    BY <1>1, <2>1 DEF JobRow, Statuses
  <2>5. /\ row.status = "running" /\ row.commit = job[j].commit
        /\ row.prepared = job[j].prepared /\ row.rows = seed
    BY <1>1, <2>4 DEF JobRow
  <2>6. job' = [job EXCEPT ![j] = row]
    BY <2>3, <2>4
  <2>7. /\ job[j].status = "queued"
        /\ UNCHANGED <<ref, producer, idem, frozen, carried, policy, pending, coord, seen>>
    BY <1>4 DEF Start
  <2>8. \A i \in 1..Len(pending') : job'[pending'[i]].status \in Ended
    BY <1>3, <2>6, <2>7 DEF IInv, Typed, Ended
  <2>9. coord' \in [Daemons -> Coordinator]
    BY <2>7 DEF IInv, Typed
  <2> QED
    BY <1>2, <1>3, <2>2, <2>5, <2>6, <2>7, <2>8, <2>9, RowKeeps
<1>5. ASSUME NEW to \in {"queued", "failed", "cancelled"}, NEW rows \in SUBSET Jobs,
             to = "queued" => job[j].status = "running",
             job[j].status \in {"queued", "running"},
             job' = [job EXCEPT ![j] = [job[j] EXCEPT !.status = to, !.rows = rows]],
             UNCHANGED <<ref, producer, idem, frozen, carried, policy, pending, coord, seen>>
      PROVE  IInv' /\ Advances
  <2>1. PICK row \in JobRow : row = [job[j] EXCEPT !.status = to, !.rows = rows]
    BY <1>1 DEF JobRow, Statuses
  <2>2. row.status = to /\ row.commit = job[j].commit /\ row.prepared = job[j].prepared
    BY <1>1, <2>1 DEF JobRow
  <2>3. job' = [job EXCEPT ![j] = row]
    BY <1>5, <2>1
  <2>4. \A i \in 1..Len(pending') : job'[pending'[i]].status \in Ended
    BY <1>3, <1>5, <2>3 DEF IInv, Typed, Ended
  <2>5. coord' \in [Daemons -> Coordinator]
    BY <1>5 DEF IInv, Typed
  <2>6. UNCHANGED <<ref, producer, idem, frozen, carried, policy, pending, coord, seen>>
    BY <1>5
  <2>7. \/ job[j].status = "queued" /\ row.status \in {"queued", "running", "failed", "cancelled"}
        \/ job[j].status = "running" /\ row.status \in Ended \cup {"queued"}
    BY <1>5, <2>2 DEF Ended
  <2> QED
    BY <1>2, <1>3, <2>2, <2>3, <2>4, <2>5, <2>6, <2>7, RowKeeps
<1>6. ASSUME NEW o \in {"completed", "failed", "cancelled"}, Finish(j, o)
      PROVE  IInv' /\ Advances
  <2>1. PICK rows \in {job[j].rows \cup {j}} \cup (IF MayLoseFile THEN {{}} ELSE {}) :
          job' = [job EXCEPT ![j].status = o, ![j].rows = IF o = "completed" THEN rows ELSE {}]
    BY <1>6 DEF Finish
  <2> DEFINE file == IF o = "completed" THEN rows ELSE {}
  <2>2. job[j].status = "running" /\ job[j].rows \in SUBSET Jobs
    BY <1>1, <1>6 DEF Finish, JobRow
  <2>3. file \in SUBSET Jobs /\ (file # {} => job[j].rows \cup {j} = file)
    BY <2>1, <2>2
  <2>4. file # {} /\ uses_shared_calibration => First(SubOf(j)) \in file
    BY <2>2, <2>3 DEF IInv, Carries
  <2>5. job' = [job EXCEPT ![j] = [job[j] EXCEPT !.status = o, !.rows = file]]
    BY <1>1, <2>1 DEF IInv, Typed, JobRow
  <2> HIDE DEF file
  <2>6. PICK row \in JobRow : row = [job[j] EXCEPT !.status = o, !.rows = file]
    BY <1>1, <2>3 DEF JobRow, Statuses
  <2>7. /\ row.status = o /\ row.commit = job[j].commit
        /\ row.prepared = job[j].prepared /\ row.rows = file
    BY <1>1, <2>6 DEF JobRow
  <2>8. job' = [job EXCEPT ![j] = row]
    BY <2>5, <2>6
  <2>9. /\ pending' = Append(pending, j)
        /\ UNCHANGED <<ref, producer, idem, frozen, carried, policy, coord, seen>>
    BY <1>6 DEF Finish
  <2>10. /\ pending' \in Seq(Jobs)
         /\ \A i \in 1..Len(pending') :
              pending'[i] = j \/ \E k \in 1..Len(pending) : pending'[i] = pending[k]
    BY <1>3, <2>9
  <2>11. \A i \in 1..Len(pending') : job'[pending'[i]].status \in Ended
    BY <1>3, <2>7, <2>8, <2>10 DEF IInv, Typed, Ended
  <2>12. coord' \in [Daemons -> Coordinator]
    BY <2>9 DEF IInv, Typed
  <2> QED
    BY <1>2, <2>2, <2>4, <2>7, <2>8, <2>9, <2>10, <2>11, <2>12, RowKeeps DEF Ended
<1>7. CASE complete_cleanup(j)
  <2>1. PICK to \in {"queued", "cancelled"} :
          job' = [job EXCEPT ![j].status = to, ![j].rows = {}]
    BY <1>7 DEF complete_cleanup
  <2>2. PICK rows \in SUBSET Jobs : rows = {}
    OBVIOUS
  <2>3. job' = [job EXCEPT ![j] = [job[j] EXCEPT !.status = to, !.rows = rows]]
    BY <1>1, <2>1, <2>2 DEF IInv, Typed, JobRow
  <2>4. /\ job[j].status = "running"
        /\ UNCHANGED <<ref, producer, idem, frozen, carried, policy, pending, coord, seen>>
    BY <1>7 DEF complete_cleanup
  <2>5. to \in {"queued", "failed", "cancelled"} /\ job[j].status \in {"queued", "running"}
    BY <2>4
  <2> QED
    BY <1>5, <2>3, <2>4, <2>5
<1>8. ASSUME NEW to \in {"failed", "cancelled"}, EndQueued(j, to)  PROVE IInv' /\ Advances
  <2>1. PICK rows \in SUBSET Jobs : rows = job[j].rows
    BY <1>1 DEF JobRow
  <2>2. job' = [job EXCEPT ![j] = [job[j] EXCEPT !.status = to, !.rows = rows]]
    BY <1>1, <1>8, <2>1 DEF EndQueued, IInv, Typed, JobRow
  <2>3. /\ job[j].status = "queued"
        /\ UNCHANGED <<ref, producer, idem, frozen, carried, policy, pending, coord, seen>>
    BY <1>8 DEF EndQueued
  <2>4. to \in {"queued", "failed", "cancelled"} /\ to # "queued"
    BY <1>8
  <2> QED
    BY <1>5, <2>2, <2>3, <2>4
<1> QED
  BY <1>4, <1>6, <1>7, <1>8 DEF request_cancel, fail_locked_queued_jobs

\* A coordinator drops what it holds.
LEMMA RestKeeps ==
    ASSUME IInv, NEW d \in Daemons, coord' = [coord EXCEPT ![d] = Idle],
           UNCHANGED <<ref, producer, idem, frozen, job, carried, policy, pending, seen>>
    PROVE  IInv' /\ Advances
  BY Resting, CoordKeeps DEF IInv, Typed, Current

\* The coordinator takes a queued job, resolves and freezes its sources, and prepares it.
LEMMA PreparingKeeps ==
    ASSUME IInv, NEW d \in Daemons, Preparing(d) \/ \E j \in Jobs : PrepareJob(d, j)
    PROVE  IInv' /\ Advances
<1>1. coord[d] \in Coordinator /\ Fits(coord[d])
  BY DEF IInv, Typed, Coordinated
<1>2. pending \in Seq(Jobs) /\ \A i \in 1..Len(pending) : job[pending[i]].status \in Ended
  BY DEF IInv, Typed, Current
<1>3. policy.generation \in Nat
  BY DEF IInv, Typed
<1>4. ASSUME NEW j \in Jobs, PrepareJob(d, j)  PROVE IInv' /\ Advances
  <2>1. PICK c \in Coordinator :
          c = [Idle EXCEPT !.pc = "resolve", !.job = j, !.generation = policy.generation]
    BY <1>3, Resting DEF IInv, Coordinator
  <2>2. /\ c.pc = "resolve" /\ c.job = j /\ c.generation = policy.generation /\ c.batch = <<>>
    BY <2>1 DEF Idle
  <2>3. Fits(c)
    <3>1. job[j].status = "queued"
      BY <1>4 DEF PrepareJob
    <3>2. Preparation(c) /\ Freshness(c)
      BY <1>3, <2>2, <3>1 DEF Preparation, Freshness, Exists
    <3>3. Projection(c)
      BY <2>2 DEF Projection
    <3> QED
      BY <3>2, <3>3 DEF Fits
  <2> QED
    BY <1>2, <1>4, <2>1, <2>3, CoordKeeps DEF PrepareJob
<1>5. ASSUME coord[d].pc \in {"resolve", "freeze"}, NEW found \in Resolved,
             \A i \in Specs : \/ found[i] \in seen \cup {None}
                              \/ found[i] = frozen[SubOf(coord[d].job)][i]
                              \/ coord[d].pc = "freeze" /\ found[i] = coord[d].sources[i],
             coord' = [coord EXCEPT ![d] = [coord[d] EXCEPT !.pc = "freeze", !.sources = found]],
             UNCHANGED <<ref, producer, idem, frozen, job, carried, policy, pending, seen>>
      PROVE  IInv' /\ Advances
  <2>1. PICK c \in Coordinator : c = [coord[d] EXCEPT !.pc = "freeze", !.sources = found]
    BY <1>1 DEF Coordinator
  <2>2. /\ c.pc = "freeze" /\ c.job = coord[d].job /\ c.generation = coord[d].generation
        /\ c.sources = found /\ c.batch = coord[d].batch
    BY <1>1, <2>1 DEF Coordinator
  <2>3. Fits(c)
    BY <1>1, <1>5, <2>2 DEF Fits, Preparation, Freshness, Projection
  <2>4. coord' = [coord EXCEPT ![d] = c]
    BY <1>5, <2>1
  <2> QED
    BY <1>2, <1>5, <2>3, <2>4, CoordKeeps
<1>8. CASE submission_specs(d)
  <2>1. coord[d].pc = "resolve" /\ coord[d].job \in Jobs
    BY <1>1, <1>8 DEF submission_specs, Fits, Preparation
  <2>2. PICK found \in Resolved : found = frozen[SubOf(coord[d].job)]
    BY <2>1, JobIs DEF IInv, Typed, Resolved
  <2>3. /\ coord' = [coord EXCEPT ![d] = [coord[d] EXCEPT !.pc = "freeze", !.sources = found]]
        /\ UNCHANGED <<ref, producer, idem, frozen, job, carried, policy, pending, seen>>
    BY <1>1, <1>8, <2>2 DEF submission_specs, IInv, Typed, Coordinator
  <2> QED
    BY <1>5, <2>1, <2>2, <2>3
<1>9. CASE ResolveSource(d)
  <2>1. coord[d].pc = "freeze" /\ coord[d].sources \in Resolved
    BY <1>1, <1>9 DEF ResolveSource, Fits, Preparation
  <2>2. PICK i \in Specs : coord' = [coord EXCEPT ![d].sources = [@ EXCEPT ![i] = ref]]
    BY <1>9 DEF ResolveSource
  <2>3. ref \in Commits /\ ref \in seen
    BY DEF IInv, Typed, Current
  <2>4. PICK found \in Resolved : found = [coord[d].sources EXCEPT ![i] = ref]
    BY <2>1, <2>3 DEF Resolved
  <2>5. \A k \in Specs : found[k] \in seen \/ found[k] = coord[d].sources[k]
    BY <2>1, <2>3, <2>4 DEF Resolved
  <2>6. /\ coord' = [coord EXCEPT ![d] = [coord[d] EXCEPT !.pc = "freeze", !.sources = found]]
        /\ UNCHANGED <<ref, producer, idem, frozen, job, carried, policy, pending, seen>>
    <3>1. [coord[d] EXCEPT !.pc = "freeze", !.sources = found] =
            [coord[d] EXCEPT !.sources = found]
      BY <1>1, <2>1 DEF Coordinator
    <3>2. coord' = [coord EXCEPT ![d] = [coord[d] EXCEPT !.sources = found]]
      BY <2>2, <2>4
    <3> QED
      BY <1>9, <3>1, <3>2 DEF ResolveSource
  <2> QED
    BY <1>5, <2>1, <2>5, <2>6
<1>6. CASE freeze_submission_sources(d)
  <2>1. CASE InForce(d) /\ Unconflicted(SubOf(coord[d].job), coord[d].sources)
    BY <1>6, <2>1, FreezeKeeps
  <2>2. CASE ~(InForce(d) /\ Unconflicted(SubOf(coord[d].job), coord[d].sources))
    BY <1>6, <2>2, RestKeeps DEF freeze_submission_sources
  <2> QED
    BY <2>1, <2>2
<1>7. CASE prepare_execution(d)
  <2> DEFINE j == coord[d].job
  <2>1. /\ coord' = [coord EXCEPT ![d] = Idle]
        /\ UNCHANGED <<ref, producer, idem, frozen, carried, policy, pending, seen>>
        /\ coord[d].pc = "prepare"
    BY <1>7 DEF prepare_execution
  <2>2. CASE ~(InForce(d) /\ job[j].status = "queued" /\ ~job[j].prepared)
    BY <1>7, <2>1, <2>2, RestKeeps DEF prepare_execution
  <2>3. CASE InForce(d) /\ job[j].status = "queued" /\ ~job[j].prepared
    <3>1. /\ j \in Jobs /\ coord[d].sources \in Resolved /\ SpecOf(j) \in Specs
          /\ coord[d].sources[SpecOf(j)] = frozen[SubOf(j)][SpecOf(j)]
          /\ coord[d].sources[SpecOf(j)] # None
      BY <1>1, <2>1, JobIs DEF Fits, Preparation
    <3>2. PICK commit \in Commits : commit = coord[d].sources[SpecOf(j)]
      BY <3>1 DEF Resolved
    <3>3. job[j] \in JobRow
      BY <3>1 DEF IInv, Typed
    <3>4. PICK row \in JobRow : row = [job[j] EXCEPT !.prepared = TRUE, !.commit = commit]
      BY <3>3 DEF JobRow
    <3>5. row.status = "queued" /\ row.commit = commit
      BY <2>3, <3>3, <3>4 DEF JobRow
    <3>6. job' = [job EXCEPT ![j] = row]
      BY <1>7, <2>3, <3>1, <3>2, <3>3, <3>4 DEF prepare_execution, IInv, Typed, JobRow
    <3>7. \A i \in 1..Len(pending') : pending'[i] \in Jobs /\ job'[pending'[i]].status \in Ended
      <4>1. \A i \in 1..Len(pending) : pending[i] \in Jobs /\ pending[i] # j
        BY <1>2, <2>3 DEF Ended
      <4> QED
        BY <1>2, <2>1, <3>6, <4>1 DEF IInv, Typed
    <3>8. /\ coord' \in [Daemons -> Coordinator]
          /\ \A e \in Daemons : coord'[e] = coord[e] \/ coord'[e] = Idle
      BY <2>1, Resting DEF IInv, Typed
    <3>9. commit # None
      BY <3>2, PlanAssumption
    <3> HIDE DEF j
    <3> QED
      BY <1>2, <2>1, <2>3, <3>1, <3>2, <3>5, <3>6, <3>7, <3>8, <3>9, RowKeeps
  <2> QED
    BY <2>2, <2>3
<1> QED
  BY <1>4, <1>6, <1>7, <1>8, <1>9 DEF Preparing

\* The coordinator projects a terminal: shared database, next run, report.
LEMMA ProjectingKeeps ==
    ASSUME IInv, NEW d \in Daemons, Tick(d) \/ Projecting(d) \/ ReportFails(d) \/ Crash(d)
    PROVE  IInv' /\ Advances
<1>1. coord[d] \in Coordinator /\ Fits(coord[d]) /\ coord[d].batch \in Seq(Jobs)
  BY DEF IInv, Typed, Coordinated, Coordinator
<1>2. pending \in Seq(Jobs) /\ \A i \in 1..Len(pending) : job[pending[i]].status \in Ended
  BY DEF IInv, Typed, Current
<1>3. policy.generation \in Nat
  BY DEF IInv, Typed
<1>4. CASE Tick(d)
  <2>1. PICK c \in Coordinator : c = [Idle EXCEPT !.pc = "plan", !.batch = pending]
    BY <1>2 DEF Idle, Coordinator
  <2>2. c.pc = "plan" /\ c.generation = 0 /\ c.batch = pending
    BY <2>1 DEF Idle
  <2>3. Fits(c)
    BY <1>2, <1>3, <1>4, <2>2 DEF Tick, Fits, Preparation, Freshness, Projection
  <2> QED
    BY <1>2, <1>4, <2>1, <2>3, CoordKeeps DEF Tick
<1>5. ASSUME NEW pc \in {"plan", "report"}, coord[d].pc \in {"plan", "append"},
             coord' = [coord EXCEPT ![d].pc = pc],
             UNCHANGED <<ref, producer, idem, frozen, job, carried, policy, pending, seen>>
      PROVE  IInv' /\ Advances
  <2>1. PICK c \in Coordinator : c = [coord[d] EXCEPT !.pc = pc]
    BY <1>1 DEF Coordinator
  <2>2. c.pc = pc /\ c.generation = coord[d].generation /\ c.batch = coord[d].batch
    BY <1>1, <2>1 DEF Coordinator
  <2>3. Fits(c)
    BY <1>1, <1>5, <2>2 DEF Fits, Preparation, Freshness, Projection
  <2>4. coord' = [coord EXCEPT ![d] = c]
    BY <1>5, <2>1
  <2> QED
    BY <1>2, <1>5, <2>3, <2>4, CoordKeeps
<1>6. CASE plan_next_repeat(d)
  <2> DEFINE j == Head(coord[d].batch)
             repeats == uses_shared_calibration /\ job[j].status = "completed"
  <2>1. CASE repeats /\ job[j].rows # {}
    BY <1>6, <2>1, CarryKeeps DEF plan_next_repeat
  <2>2. CASE repeats /\ job[j].rows = {}
    BY <1>6, <2>2, RestKeeps DEF plan_next_repeat
  <2>3. CASE ~repeats
    BY <1>5, <1>6, <2>3 DEF plan_next_repeat
  <2> QED
    BY <2>1, <2>2, <2>3
<1>7. CASE append_next_benchmark_run(d)
  <2>1. PICK j \in Jobs : j = Head(coord[d].batch) /\ job[j].status \in Ended
    BY <1>1, <1>7 DEF append_next_benchmark_run, Fits, Projection
  <2> DEFINE New(k) == k \in NextRun(j) /\ Appendable(j, k)
  <2>2. /\ coord[d].pc = "append" /\ coord' = [coord EXCEPT ![d].pc = "report"]
        /\ job' = [k \in Jobs |-> IF New(k) THEN InsertedRun(j, k) ELSE job[k]]
        /\ UNCHANGED <<ref, producer, idem, frozen, carried, policy, pending, seen>>
    BY <1>7, <2>1 DEF append_next_benchmark_run
  <2>3. CASE \A k \in Jobs : ~New(k)
    <3>1. job' = job
      BY <2>2, <2>3 DEF IInv, Typed
    <3> QED
      BY <1>5, <2>2, <3>1
  <2>4. ASSUME NEW k \in Jobs, New(k)  PROVE IInv' /\ Advances
    <3>1. /\ SubOf(k) = SubOf(j) /\ job[k].status = "none"
          /\ Earlier(k) \subseteq Earlier(j) \cup {j}
      <4>1. SpecOf(j) \in Nat /\ RunOf(j) \in Nat
        BY JobIs, PlanAssumption DEF Specs
      <4>2. /\ SubOf(k) = SubOf(j) /\ Earlier(k) \subseteq Earlier(j) \cup {j}
            /\ \/ SpecOf(k) = SpecOf(j) /\ RunOf(k) = RunOf(j) + 1
               \/ SpecOf(k) = SpecOf(j) + 1
        BY <2>4, NextIs
      <4> QED
        BY <2>4, <4>1, <4>2 DEF Appendable, Exists
    <3>2. \A m \in Jobs : New(m) => m = k
      BY <2>4, JobIs DEF NextRun
    <3>3. PICK commit \in {None, frozen[SubOf(k)][SpecOf(k)]} :
             InsertedRun(j, k) = QueuedJob(commit)
      BY <3>1 DEF InsertedRun, IInv, SourcesAgree
    <3>4. job' = [job EXCEPT ![k] = QueuedJob(commit)]
      <4>1. \A m \in Jobs : job'[m] = IF m = k THEN QueuedJob(commit) ELSE job[m]
        BY <2>2, <2>4, <3>2, <3>3
      <4> QED
        BY <2>2, <4>1 DEF IInv, Typed
    <3>5. HasRun(SubOf(k)) /\ (uses_shared_calibration => Carrying(SubOf(k)))
      BY <1>1, <2>1, <2>2, <3>1 DEF HasRun, Exists, Ended, Fits, Projection
    <3>6. PICK c \in Coordinator : c = [coord[d] EXCEPT !.pc = "report"]
      BY <1>1 DEF Coordinator
    <3>7. c.pc = "report" /\ c.generation = coord[d].generation /\ c.batch = coord[d].batch
      BY <1>1, <3>6 DEF Coordinator
    <3>8. Fits(c)
      BY <1>1, <2>2, <3>7 DEF Fits, Preparation, Freshness, Projection
    <3>9. coord' = [coord EXCEPT ![d] = c]
      BY <2>2, <3>6
    <3>10. UNCHANGED <<ref, producer, idem, frozen, carried, policy, pending, seen>>
      BY <2>2
    <3>11. \A m \in Earlier(k) : job[m].status = "completed"
      BY <1>1, <2>1, <2>2, <3>1 DEF Ended, IInv, Sequential, Exists, Fits, Projection
    <3> QED
      BY <3>1, <3>3, <3>4, <3>5, <3>8, <3>9, <3>10, <3>11, InsertKeeps
  <2> QED
    BY <2>3, <2>4
<1>8. ASSUME coord[d].pc = "report", coord' = Rest(d),
             pending' \in Seq(Jobs),
             \A i \in 1..Len(pending') : job[pending'[i]].status \in Ended,
             UNCHANGED <<ref, producer, idem, frozen, job, carried, policy, seen>>
      PROVE  IInv' /\ Advances
  <2>1. CASE Len(coord[d].batch) = 1
    BY <1>8, <2>1, Resting, CoordKeeps DEF Rest, IInv
  <2>2. CASE Len(coord[d].batch) # 1
    <3>1. coord[d].batch # <<>>
      BY <1>1, <1>8 DEF Fits, Projection
    <3>2. PICK batch \in Seq(Jobs) : batch = coord[d].batch
      BY <1>1
    <3>3. PICK rest \in Seq(Jobs) : rest = Tail(batch)
      BY <3>1, <3>2, HeadTailProperties
    <3>4. Len(rest) = Len(batch) - 1 /\ \A i \in 1..Len(rest) : rest[i] = batch[i + 1]
      BY <3>1, <3>2, <3>3, HeadTailProperties
    <3>5. \A i \in 1..Len(batch) : job[batch[i]].status \in Ended
      BY <1>1, <3>2 DEF Fits, Projection
    <3>6. rest # <<>> /\ \A i \in 1..Len(rest) : job[rest[i]].status \in Ended
      <4>1. Len(batch) \in Nat /\ Len(batch) > 1
        <5>1. Len(batch) \in Nat /\ Len(rest) \in Nat
          BY LenProperties
        <5>2. Len(batch) # 1
          BY <2>2, <3>2
        <5> QED
          BY <3>4, <5>1, <5>2
      <4>2. \A i \in 1..Len(rest) : i + 1 \in 1..Len(batch)
        BY <3>4, <4>1
      <4> QED
        BY <3>4, <3>5, <4>1, <4>2
    <3>7. PICK c \in Coordinator : c = [coord[d] EXCEPT !.pc = "plan", !.batch = rest]
      BY <1>1 DEF Coordinator
    <3>8. c.pc = "plan" /\ c.generation = coord[d].generation /\ c.batch = rest
      BY <1>1, <3>7 DEF Coordinator
    <3>9. Fits(c)
      BY <1>1, <3>6, <3>8 DEF Fits, Preparation, Freshness, Projection
    <3>10. coord' = [coord EXCEPT ![d] = c]
      <4>1. coord' = [coord EXCEPT ![d] =
                        [coord[d] EXCEPT !.pc = "plan", !.batch = Tail(coord[d].batch)]]
        BY <1>8, <2>2, Zenon DEF Rest
      <4> QED
        BY <3>2, <3>3, <3>7, <4>1
    <3> QED
      BY <1>8, <3>9, <3>10, CoordKeeps
  <2> QED
    BY <2>1, <2>2
<1>9. CASE report_fleet_terminal(d)
  <2>1. /\ pending' = RemoveFirst(pending, Head(coord[d].batch))
        /\ coord[d].pc = "report" /\ coord' = Rest(d)
        /\ UNCHANGED <<ref, producer, idem, frozen, job, carried, policy, seen>>
    BY <1>9 DEF report_fleet_terminal
  <2>2. /\ pending' \in Seq(Jobs)
        /\ \A i \in 1..Len(pending') : \E k \in 1..Len(pending) : pending'[i] = pending[k]
    BY <1>2, <2>1, RemoveType
  <2> QED
    BY <1>2, <1>8, <2>1, <2>2
<1>10. CASE ReportFails(d)
  BY <1>2, <1>8, <1>10 DEF ReportFails
<1>11. CASE Crash(d)
  BY <1>11, RestKeeps DEF Crash
<1> QED
  BY <1>4, <1>6, <1>7, <1>9, <1>10, <1>11 DEF Projecting

\* Every step keeps the invariant, takes nothing back and moves one run at most.
LEMMA NextKeeps == IInv /\ [Next]_vars => IInv' /\ Advances
<1> SUFFICES ASSUME IInv, [Next]_vars  PROVE IInv' /\ Advances
  OBVIOUS
<1>1. ASSUME NEW p \in Producers, Submitting(p) \/ Resubmit(p)  PROVE IInv' /\ Advances
  BY <1>1, SubmittingKeeps
<1>2. CASE MoveRef \/ ChangeScheduler
  BY <1>2, OutsideKeeps
<1>3. ASSUME NEW d \in Daemons, Preparing(d) \/ \E j \in Jobs : PrepareJob(d, j)
      PROVE  IInv' /\ Advances
  BY <1>3, PreparingKeeps
<1>4. ASSUME NEW d \in Daemons, Tick(d) \/ Projecting(d) \/ ReportFails(d) \/ Crash(d)
      PROVE  IInv' /\ Advances
  BY <1>4, ProjectingKeeps
<1>5. ASSUME NEW j \in Jobs,
             \/ Start(j) \/ complete_cleanup(j) \/ request_cancel(j) \/ fail_locked_queued_jobs(j)
             \/ \E o \in {"completed", "failed", "cancelled"} : Finish(j, o)
      PROVE  IInv' /\ Advances
  BY <1>5, RunningKeeps
<1>6. CASE UNCHANGED vars
  <2>1. UNCHANGED <<producer, idem, frozen, job, carried, pending, coord>>
        /\ UNCHANGED <<ref, seen, policy>>
    BY <1>6 DEF vars
  <2> QED
    BY <2>1, BranchKeeps DEF IInv, Typed, Current
<1> QED
  BY <1>1, <1>2, <1>3, <1>4, <1>5, <1>6 DEF Next

-----------------------------------------------------------------------------
(* The theorems.                                                           *)

\* The store, the producers and the coordinators' memory agree after any sequence of
\* redeliveries, pushes, pauses, crashes and overlapping projections.
THEOREM PlanInvariant == Spec => []IInv
<1>1. Init => IInv
  BY InitHolds
<1>2. IInv /\ [Next]_vars => IInv'
  BY NextKeeps
<1> QED
  BY <1>1, <1>2, PTL DEF Spec

\* One submission per key; every run measures the commit recorded for its spec, which
\* freeze_submission_sources writes once, from a ref resolved in the generation in
\* force; and no later run starts from a fresh database.
THEOREM SourcesFrozenAlways == Spec => SourcesFrozen
<1>1. IInv /\ [Next]_vars => [FrozenForGood]_vars
  BY NextKeeps DEF Advances, Grows, FrozenForGood
<1>2. IInv => FreshlyResolved
  <2> SUFFICES ASSUME IInv, NEW d \in Daemons, freeze_submission_sources(d), NEW i \in Specs,
                      frozen[SubOf(coord[d].job)][i] = None,
                      frozen'[SubOf(coord[d].job)][i] # None
        PROVE  ~policy.paused /\ frozen'[SubOf(coord[d].job)][i] \in seen
    BY DEF FreshlyResolved
  <2>1. coord[d].pc = "freeze" /\ coord[d].job \in Jobs /\ coord[d].sources \in Resolved
    BY DEF freeze_submission_sources, IInv, Coordinated, Fits, Preparation
  <2>2. InForce(d) /\ frozen' = [frozen EXCEPT ![SubOf(coord[d].job)] = coord[d].sources]
    BY DEF freeze_submission_sources
  <2>3. frozen'[SubOf(coord[d].job)][i] = coord[d].sources[i] /\ coord[d].sources[i] # None
    BY <2>1, <2>2, JobIs, PlanAssumption DEF IInv, Typed, Resolved
  <2>4. coord[d].sources[i] \in seen
    BY <2>1, <2>2, <2>3 DEF InForce, IInv, Coordinated, Fits, Freshness
  <2> QED
    BY <2>2, <2>3, <2>4 DEF InForce
<1>3. IInv /\ [Next]_vars => [FrozenForGood /\ FreshlyResolved]_vars
  BY <1>1, <1>2
<1>4. IInv => OneSubmissionPerKey /\ SourcesAgree /\ SeededFromFirst
  BY DEF IInv
<1> QED
  BY <1>3, <1>4, PlanInvariant, PTL DEF Spec, SourcesFrozen

\* RunPlan implements SerialPlan: append_next_benchmark_run creates a run only when all before it
\* completed, though two daemons project the same terminal and reports are retried.
THEOREM RunsSequential == Spec => ImplementsSerialPlan
<1> DEFINE status == [j \in Jobs |-> job[j].status]
<1>1. Init => Serial!Init
  <2> SUFFICES ASSUME Init
        PROVE  \E old \in SUBSET {r \in Jobs : [j \in Jobs |-> Earlier(j)][r] = {}} :
                  status = [r \in Jobs |-> IF r \in old THEN "queued" ELSE "none"]
    BY DEF Serial!Init
  <2> DEFINE old == {j \in Jobs : Earlier(j) = {} /\ SubOf(j) \in Range(LegacyOf)}
  <2>1. status = [r \in Jobs |-> IF r \in old THEN "queued" ELSE "none"]
    BY DEF Init
  <2>2. old \in SUBSET {r \in Jobs : [j \in Jobs |-> Earlier(j)][r] = {}}
    OBVIOUS
  <2> QED
    BY <2>1, <2>2
<1>2. IInv /\ [Next]_vars => [Serial!Next]_status
  <2> SUFFICES ASSUME IInv, [Next]_vars  PROVE Serial!Next \/ status' = status
    OBVIOUS
  <2>1. InTurn
    BY NextKeeps DEF Advances
  <2>2. CASE \A j \in Jobs : job'[j].status = job[j].status
    BY <2>2
  <2>3. ASSUME NEW r \in Jobs, Turns(r), \A k \in Jobs : k # r => job'[k].status = job[k].status
        PROVE  Serial!Next
    <3>1. status' = [status EXCEPT ![r] = job'[r].status] /\ status[r] = job[r].status
      BY <2>3
    <3>2. \A q \in [j \in Jobs |-> Earlier(j)][r] : q \in Jobs /\ q \in Earlier(r)
      BY DEF Earlier
    <3>3. CASE /\ job[r].status = "none" /\ job'[r].status = "queued"
               /\ \A k \in Earlier(r) : job[k].status = "completed"
      <4>1. Serial!Create(r)
        BY <3>1, <3>2, <3>3 DEF Serial!Create
      <4> QED
        BY <4>1 DEF Serial!Next
    <3>4. CASE job[r].status = "queued" /\ job'[r].status \in {"running", "failed", "cancelled"}
      <4>1. \/ Serial!Move(r, "queued", "running")
            \/ \E end \in {"failed", "cancelled"} : Serial!Move(r, "queued", end)
        BY <3>1, <3>4 DEF Serial!Move
      <4> QED
        BY <4>1 DEF Serial!Next
    <3>5. CASE job[r].status = "running" /\ job'[r].status \in Ended \cup {"queued"}
      <4>1. \/ Serial!Move(r, "running", "queued")
            \/ \E end \in {"completed", "failed", "cancelled"} : Serial!Move(r, "running", end)
        BY <3>1, <3>5 DEF Serial!Move, Ended
      <4> QED
        BY <4>1 DEF Serial!Next
    <3> QED
      BY <2>3, <3>3, <3>4, <3>5 DEF Turns
  <2> QED
    BY <2>1, <2>2, <2>3 DEF InTurn
<1> QED
  BY <1>1, <1>2, PlanInvariant, PTL DEF Spec, ImplementsSerialPlan, Serial!Spec

\* At most one run of a submission is queued or running: a terminal projected twice
\* does not append two runs, and a retried request does not start a second plan.
THEOREM OneLiveRun ==
    Spec => [](\A j, k \in Jobs : Active(j) /\ Active(k) /\ SubOf(j) = SubOf(k) => j = k)
<1>1. IInv => \A j, k \in Jobs : Active(j) /\ Active(k) /\ SubOf(j) = SubOf(k) => j = k
  <2> SUFFICES ASSUME IInv, NEW j \in Jobs, NEW k \in Jobs, Active(j), Active(k),
                      SubOf(j) = SubOf(k)
        PROVE  j = k
    OBVIOUS
  <2>1. ASSUME NEW m \in Jobs, NEW n \in Jobs, Active(m), Active(n)  PROVE ~Before(m, n)
    BY <2>1 DEF IInv, Sequential, Exists, Active, Earlier
  <2>2. \A m \in Jobs : SpecOf(m) \in Nat /\ RunOf(m) \in Nat
    BY JobIs, PlanAssumption DEF Specs
  <2>3. SpecOf(j) = SpecOf(k) /\ RunOf(j) = RunOf(k)
    BY <2>1, <2>2 DEF Before
  <2> QED
    BY <2>3, JobIs
<1> QED
  BY <1>1, PlanInvariant, PTL
=============================================================================
