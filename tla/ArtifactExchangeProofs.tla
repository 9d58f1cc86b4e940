------------------------ MODULE ArtifactExchangeProofs ------------------------
(***************************************************************************)
(* FilesAccepted, for any number of runs, attempts of a run and faults.    *)
(* Assumed: ExchangeAssumption, that there is a run and it may be tried.   *)
(*                                                                         *)
(* The argument: an object's staging key names its attempt and its         *)
(* content, so nobody can put anything else under a key that was verified; *)
(* what is at a run's final key, in the mirror or in a reader's hand is    *)
(* the file its run was accepted with or nothing; and every database that  *)
(* is carried (the submission's object, the worker's copy, a seed) is an   *)
(* accepted file.  An accepted file never changes, so these facts survive  *)
(* whatever lost attempts go on to do.                                     *)
(***************************************************************************)
EXTENDS ArtifactExchange, TLAPS

Bodies == SUBSET RunAttempts
Places == {"none", "seed", "download", "rename", "run", "put", "upload", "complete", "failed", "done"}
Seeding == {"seed", "download", "rename"}
Row == [pc : Places, seed : Bodies, file : Bodies, part : Bodies, manifest : Bodies]
JobRow == [status : {"absent", "running", "completed", "failed"}, attempt : RunAttempts \cup {<<>>},
           manifest : Bodies, promoted : BOOLEAN, projected : BOOLEAN]
Held == {"part", "got", "append", "served"}
TaskRow == [pc : {"idle"} \cup Held, job : Jobs \cup {0}, body : Bodies]
Store == [runs : [Jobs -> Bodies], sub : Bodies]

\* An accepted file.
Known(b) == \E i \in Jobs : job[i].manifest # Absent /\ job[i].manifest = b

\* The runs: in order, one attempt at a time, a file only of a completed one.
JobsInOrder ==
    /\ job \in [Jobs -> JobRow]
    /\ \A j \in Jobs :
         /\ job[j].status # "absent" => job[j].attempt \in RunAttempts /\ Job(job[j].attempt) = j
         /\ job[j].manifest # Absent => job[j].status = "completed"
         /\ job[j].status # "absent" =>
              \A i \in Jobs : i < j => job[i].status = "completed" /\ job[i].manifest # Absent

\* One attempt on the worker: what it was seeded with, made and listed.
Honest(a, r) ==
    /\ r \in Row
    /\ r.seed # Absent => Known(r.seed)
    /\ r.part # Absent => Known(r.part)
    /\ r.pc \in Seeding => Job(a) # 1
    /\ r.pc = "rename" => r.part # Absent
    /\ r.pc \in Seeding \cup {"run"} => r.file = Absent
    /\ r.pc = "run" \/ r.file # Absent => (r.seed = Absent <=> Job(a) = 1)
    /\ r.pc \in {"put", "upload"} => r.file # Absent
    /\ r.file # Absent => r.file = r.seed \cup {a}
    /\ r.manifest # Absent => r.manifest = r.file /\ r.pc \in {"complete", "done"}

AttemptsHonest ==
    /\ DOMAIN at = RunAttempts
    /\ \A a \in RunAttempts : Honest(a, at[a])

\* artifact_staging_key: the key names the content.
StagedByContent ==
    staged \subseteq {[key |-> <<a, b>>, body |-> b] : a \in RunAttempts, b \in Bodies}

\* The objects and copies under final keys, and the carried database.
StoresAccepted ==
    /\ bucket \in Store /\ mirror \in Store
    /\ \A j \in Jobs : /\ bucket.runs[j] \in {Absent, job[j].manifest}
                       /\ mirror.runs[j] \in {Absent, job[j].manifest}
    /\ bucket.sub # Absent => Known(bucket.sub)
    /\ cached # Absent => Known(cached)

\* A task that holds a file holds the one accepted for its run.
Holds(t) ==
    /\ t \in TaskRow
    /\ t.pc \in Held => t.job \in Jobs /\ t.body # Absent /\ t.body = job[t.job].manifest

IInv ==
    /\ JobsInOrder /\ ResultsBuildOn
    /\ AttemptsHonest
    /\ StagedByContent
    /\ StoresAccepted
    /\ Holds(co) /\ Holds(rd)
    /\ AcceptedKept

-----------------------------------------------------------------------------
(* Facts about the data.                                                   *)

LEMMA JobFacts ==
  /\ Jobs \subseteq Nat /\ 1 \in Jobs /\ 0 \notin Jobs
  /\ \A a \in RunAttempts : Job(a) \in Jobs
  /\ <<>> \notin RunAttempts
  /\ <<1, 1>> \in RunAttempts /\ Job(<<1, 1>>) = 1
  BY ExchangeAssumption DEF Jobs, RunAttempts, Job

LEMMA PairFacts ==
  ASSUME NEW j \in Jobs, NEW k \in 1..Tries
  PROVE  <<j, k>> \in RunAttempts /\ Job(<<j, k>>) = j
  BY DEF RunAttempts, Job

\* An object under a verified key is the file that was verified.
LEMMA ObjectIsListed ==
  ASSUME StagedByContent, NEW a, NEW b, NEW o \in Object(artifact_staging_key(a, b))
  PROVE  o \in staged /\ o.key = <<a, b>> /\ o.body = b
  BY DEF StagedByContent, Object, artifact_staging_key

\* What an accepted file is stays so: jobs only gain files.
Grown ==
    /\ job' \in [Jobs -> JobRow]
    /\ \A i \in Jobs : job[i].manifest # Absent => job'[i].manifest = job[i].manifest

LEMMA KnownStays ==
  ASSUME Grown, NEW b, Known(b)
  PROVE  Known(b)'
  BY DEF Grown, Known

LEMMA HonestStays ==
  ASSUME Grown, NEW a, NEW r, Honest(a, r)
  PROVE  Honest(a, r)'
  BY KnownStays DEF Honest

\* The parts about rows, stores and tasks, when only the jobs change.
LEMMA AttemptsStay ==
  ASSUME AttemptsHonest, Grown, NEW a \in RunAttempts, NEW r, Honest(a, r)',
         at' = [at EXCEPT ![a] = r]
  PROVE  AttemptsHonest'
  BY HonestStays DEF AttemptsHonest

LEMMA AttemptsUnchanged ==
  ASSUME AttemptsHonest, Grown, at' = at
  PROVE  AttemptsHonest'
  BY HonestStays DEF AttemptsHonest

LEMMA StoresStay ==
  ASSUME StoresAccepted, Grown, UNCHANGED <<bucket, mirror, cached>>
  PROVE  StoresAccepted'
  BY KnownStays DEF StoresAccepted, Grown

LEMMA TaskStays ==
  ASSUME Grown, NEW t, Holds(t)
  PROVE  Holds(t)'
  BY DEF Holds, Grown

LEMMA SameJobs ==
  ASSUME JobsInOrder, job' = job
  PROVE  Grown
  BY DEF JobsInOrder, Grown

\* AcceptedKept reads the jobs, the final keys and the staging area only.
LEMMA KeptStays ==
  ASSUME AcceptedKept, UNCHANGED <<job, bucket>>, staged \subseteq staged'
  PROVE  AcceptedKept'
  BY DEF AcceptedKept, Staging, Object, artifact_staging_key

\* A step of an attempt that changes nothing but its row.
LEMMA RowStepKeeps ==
  ASSUME IInv, NEW a \in RunAttempts, NEW r, Honest(a, r), at' = [at EXCEPT ![a] = r],
         UNCHANGED <<cached, staged, bucket, mirror, job, co, rd>>
  PROVE  IInv'
<1> USE DEF IInv
<1>1. Grown
  BY SameJobs
<1>2. JobsInOrder' /\ ResultsBuildOn'
  BY DEF JobsInOrder, ResultsBuildOn
<1>3. AttemptsHonest'
  BY <1>1, HonestStays, AttemptsStay
<1>4. StagedByContent'
  BY DEF StagedByContent
<1>5. StoresAccepted'
  BY <1>1, StoresStay
<1>6. Holds(co)' /\ Holds(rd)'
  BY DEF Holds
<1>7. AcceptedKept'
  BY KeptStays
<1> QED
  BY <1>2, <1>3, <1>4, <1>5, <1>6, <1>7

-----------------------------------------------------------------------------
(* The worker's steps.                                                     *)

LEMMA InitHolds == ExchangeInit => IInv
<1> SUFFICES ASSUME ExchangeInit PROVE IInv
  OBVIOUS
<1> USE DEF ExchangeInit
<1>1. 1 \in 1..Tries /\ 1 \in Jobs
  BY ExchangeAssumption DEF Jobs
<1>2. \A j \in Jobs : /\ job[j] \in JobRow /\ job[j].manifest = Absent
                      /\ job[j].status # "absent" =>
                           j = 1 /\ job[j].status = "running" /\ job[j].attempt = <<1, 1>>
  BY <1>1, JobFacts DEF Queue, NoJob, JobRow, Bodies, Absent
<1>3. JobsInOrder
  <2>1. job \in [Jobs -> JobRow]
    BY <1>2
  <2>2. \A j \in Jobs : job[j].status # "absent" => \A i \in Jobs : ~(i < j)
    BY <1>2 DEF Jobs
  <2> QED
    BY <2>1, <2>2, <1>2, JobFacts DEF JobsInOrder
<1>4. ResultsBuildOn /\ AcceptedKept
  BY <1>2 DEF ResultsBuildOn, AcceptedKept
<1>5. AttemptsHonest
  <2> SUFFICES ASSUME NEW a \in RunAttempts PROVE Honest(a, at[a])
    BY DEF AttemptsHonest
  <2>1. \/ at[a] = NoAttempt
        \/ at[a] = [NoAttempt EXCEPT !.pc = "run"] /\ Job(a) = 1
    BY JobFacts
  <2> QED
    BY <2>1 DEF Honest, NoAttempt, Row, Places, Seeding, Bodies, Absent
<1>6. StagedByContent
  BY DEF StagedByContent
<1>7. StoresAccepted
  BY DEF StoresAccepted, Store, Bodies, Absent
<1>8. Holds(co) /\ Holds(rd)
  BY DEF Holds, Nobody, TaskRow, Held, Bodies, Absent
<1> QED
  BY <1>3, <1>4, <1>5, <1>6, <1>7, <1>8 DEF IInv

\* get: the worker's copy is an accepted file.
LEMMA GetCachedKeeps ==
  ASSUME IInv, NEW a \in RunAttempts, get_cached(a)
  PROVE  IInv'
<1> DEFINE r == [at[a] EXCEPT !.pc = "run", !.seed = cached]
<1>1. Honest(a, at[a]) /\ at[a].pc = "seed" /\ cached # Absent
  BY DEF get_cached, IInv, AttemptsHonest
<1>2. Known(cached) /\ cached \in Bodies
  BY <1>1 DEF IInv, StoresAccepted, Known, JobsInOrder, JobRow
<1>3. Honest(a, r)
  BY <1>1, <1>2 DEF Honest, Row, Places, Seeding
<1>4. at' = [at EXCEPT ![a] = r] /\ UNCHANGED <<cached, staged, bucket, mirror, job, co, rd>>
  BY DEF get_cached
<1> QED
  BY <1>3, <1>4, RowStepKeeps

\* Steps that move an attempt on and leave what it made alone.
LEMMA MovedOn ==
  ASSUME IInv, NEW a \in RunAttempts, NEW pc \in Places,
         at[a].pc \in {"seed", "download", "rename"} => pc \in {"download", "failed"},
         at[a].pc \in {"put", "upload"} => pc \in {"upload", "complete"},
         at[a].pc \in Seeding \cup {"put", "upload"}
  PROVE  Honest(a, [at[a] EXCEPT !.pc = pc])
<1>1. Honest(a, at[a])
  BY DEF IInv, AttemptsHonest
<1> QED
  BY <1>1 DEF Honest, Row, Places, Seeding

LEMMA GrantsKeep ==
  ASSUME IInv, NEW a \in RunAttempts, artifact_grant_get(a) \/ artifact_grant_put(a)
  PROVE  IInv'
<1>1. PICK pc \in Places :
        /\ at' = [at EXCEPT ![a] = [at[a] EXCEPT !.pc = pc]]
        /\ \/ at[a].pc = "seed" /\ pc \in {"download", "failed"}
           \/ at[a].pc = "put" /\ pc \in {"upload", "complete"}
  BY DEF artifact_grant_get, artifact_grant_put, At, Places
<1>2. Honest(a, [at[a] EXCEPT !.pc = pc])
  BY <1>1, MovedOn DEF Seeding
<1>3. UNCHANGED <<cached, staged, bucket, mirror, job, co, rd>>
  BY DEF artifact_grant_get, artifact_grant_put
<1> QED
  BY <1>1, <1>2, <1>3, RowStepKeeps

\* download: the object of the submission is an accepted file, and a part file is
\* nobody's until it is renamed.
LEMMA DownloadOpensKeeps ==
  ASSUME IInv, NEW a \in RunAttempts, download_opens(a)
  PROVE  IInv'
<1>1. Honest(a, at[a]) /\ at[a].pc = "download"
  BY DEF download_opens, IInv, AttemptsHonest
<1>2. UNCHANGED <<cached, staged, bucket, mirror, job, co, rd>>
  BY DEF download_opens, WhileDownloading
<1>3. CASE bucket.sub = Absent
  <2>1. at' = [at EXCEPT ![a] = [at[a] EXCEPT !.pc = "failed"]]
    BY <1>3 DEF download_opens, At
  <2>2. Honest(a, [at[a] EXCEPT !.pc = "failed"])
    BY <1>1, MovedOn DEF Places, Seeding
  <2> QED
    BY <2>1, <2>2, <1>2, RowStepKeeps
<1>4. CASE bucket.sub # Absent
  <2> DEFINE r == [at[a] EXCEPT !.pc = "rename", !.part = bucket.sub]
  <2>1. at' = [at EXCEPT ![a] = r]
    BY <1>4 DEF download_opens
  <2>2. Known(bucket.sub) /\ bucket.sub \in Bodies
    BY <1>4 DEF IInv, StoresAccepted, Store
  <2>3. Honest(a, r)
    BY <1>1, <1>4, <2>2 DEF Honest, Row, Places, Seeding
  <2> QED
    BY <2>1, <2>3, <1>2, RowStepKeeps
<1> QED
  BY <1>3, <1>4

LEMMA DownloadRenamesKeeps ==
  ASSUME IInv, NEW a \in RunAttempts, download_renames(a)
  PROVE  IInv'
<1>1. Honest(a, at[a]) /\ at[a].pc = "rename"
  BY DEF download_renames, IInv, AttemptsHonest
<1>2. UNCHANGED <<staged, bucket, mirror, job, co, rd>>
  BY DEF download_renames
<1>3. CASE at' = At(a, "failed") /\ UNCHANGED cached
  <2>1. Honest(a, [at[a] EXCEPT !.pc = "failed"])
    BY <1>1, MovedOn DEF Places, Seeding
  <2>2. at' = [at EXCEPT ![a] = [at[a] EXCEPT !.pc = "failed"]]
    BY <1>3 DEF At
  <2> QED
    BY <2>1, <2>2, <1>2, <1>3, RowStepKeeps
<1>4. CASE cached' = at[a].part /\ at' = [at EXCEPT ![a].pc = "run", ![a].seed = at[a].part]
  <2> DEFINE r == [at[a] EXCEPT !.pc = "run", !.seed = at[a].part]
  <2>1. at' = [at EXCEPT ![a] = r]
    BY <1>4
  <2>2. Known(at[a].part) /\ at[a].part # Absent /\ at[a].part \in Bodies
    BY <1>1 DEF Honest, Row
  <2>3. Honest(a, r)
    BY <1>1, <2>2 DEF Honest, Row, Places, Seeding
  <2> USE DEF IInv
  <2>4. Grown
    BY <1>2, SameJobs
  <2>5. JobsInOrder' /\ ResultsBuildOn'
    BY <1>2 DEF JobsInOrder, ResultsBuildOn
  <2>6. AttemptsHonest'
    BY <2>1, <2>3, <2>4, HonestStays, AttemptsStay
  <2>7. StagedByContent'
    BY <1>2 DEF StagedByContent
  <2>8. StoresAccepted'
    BY <1>2, <1>4, <2>2 DEF StoresAccepted, Known
  <2>9. Holds(co)' /\ Holds(rd)'
    BY <1>2 DEF Holds
  <2>10. AcceptedKept'
    BY <1>2, KeptStays
  <2> QED
    BY <2>5, <2>6, <2>7, <2>8, <2>9, <2>10
<1> QED
  BY <1>3, <1>4 DEF download_renames

\* The machine's file is its seed and its own rows.
LEMMA RunBenchmarkKeeps ==
  ASSUME IInv, NEW a \in RunAttempts, RunBenchmark(a)
  PROVE  IInv'
<1> DEFINE r == [at[a] EXCEPT !.pc = "put", !.file = at[a].seed \cup {a}]
<1>1. Honest(a, at[a]) /\ at[a].pc = "run"
  BY DEF RunBenchmark, IInv, AttemptsHonest
<1>2. at[a].seed \cup {a} \in Bodies /\ at[a].seed \cup {a} # Absent
  BY <1>1 DEF Honest, Row, Bodies, Absent
<1>3. Honest(a, r)
  BY <1>1, <1>2 DEF Honest, Row, Places, Seeding
<1>4. at' = [at EXCEPT ![a] = r] /\ UNCHANGED <<cached, staged, bucket, mirror, job, co, rd>>
  BY DEF RunBenchmark
<1> QED
  BY <1>3, <1>4, RowStepKeeps

\* put: an upload replaces an object by one with the same content, if any.
LEMMA UploadKeeps ==
  ASSUME IInv, NEW a \in RunAttempts, upload(a)
  PROVE  IInv'
<1> DEFINE f == at[a].file
           new == Stage(artifact_staging_key(a, f), f)
<1>1. Honest(a, at[a]) /\ at[a].pc = "upload" /\ f \in Bodies /\ f # Absent
  BY DEF upload, IInv, AttemptsHonest, Honest, Row
<1>2. UNCHANGED <<cached, bucket, mirror, job, co, rd>> /\ staged' \in {staged, new}
  BY DEF upload
<1>3. staged \subseteq new /\ new \subseteq staged \cup {[key |-> <<a, f>>, body |-> f]}
  BY DEF Stage, artifact_staging_key, IInv, StagedByContent
<1>4. PICK r : at' = [at EXCEPT ![a] = r] /\ Honest(a, r)
  <2>1. CASE at' = At(a, "complete")
    <3>1. Honest(a, [at[a] EXCEPT !.pc = "complete"])
      BY <1>1, MovedOn DEF Places, Seeding
    <3> QED
      BY <2>1, <3>1 DEF At
  <2>2. CASE at' = [at EXCEPT ![a].pc = "complete", ![a].manifest = f]
    <3>1. Honest(a, [at[a] EXCEPT !.pc = "complete", !.manifest = f])
      BY <1>1 DEF Honest, Row, Places, Seeding
    <3> QED
      BY <2>2, <3>1
  <2> QED
    BY <2>1, <2>2 DEF upload
<1> HIDE DEF new
<1> USE DEF IInv
<1>5. Grown
  BY <1>2, SameJobs
<1>6. JobsInOrder' /\ ResultsBuildOn'
  BY <1>2 DEF JobsInOrder, ResultsBuildOn
<1>7. AttemptsHonest'
  BY <1>4, <1>5, HonestStays, AttemptsStay
<1>8. StagedByContent'
  BY <1>1, <1>2, <1>3 DEF StagedByContent
<1>9. StoresAccepted'
  BY <1>2, <1>5, StoresStay
<1>10. Holds(co)' /\ Holds(rd)'
  BY <1>2 DEF Holds
<1>11. AcceptedKept'
  BY <1>2, <1>3, KeptStays
<1> QED
  BY <1>6, <1>7, <1>8, <1>9, <1>10, <1>11

-----------------------------------------------------------------------------
(* Completion, promotion and the loss of an attempt.                       *)

\* The file of the attempt a run is placed on was made from that of an earlier run.
LEMMA AcceptedBuilds ==
  ASSUME IInv, NEW a \in RunAttempts, at[a].pc \in {"complete", "failed"}, offered_assignment(a),
         at[a].manifest # Absent
  PROVE  /\ at[a].pc = "complete" /\ a \in at[a].manifest
         /\ Job(a) = 1 => at[a].manifest = {a}
         /\ Job(a) # 1 => \E i \in Jobs : /\ i < Job(a) /\ job[i].manifest # Absent
                                         /\ at[a].manifest = job[i].manifest \cup {a}
<1> DEFINE j == Job(a)
<1>1. Honest(a, at[a])
  BY DEF IInv, AttemptsHonest
<1>2. /\ at[a].pc = "complete" /\ at[a].manifest = at[a].seed \cup {a}
      /\ at[a].seed = Absent <=> j = 1
      /\ at[a].seed # Absent => Known(at[a].seed)
  BY <1>1 DEF Honest
<1>3. CASE j = 1
  BY <1>2, <1>3 DEF Absent
<1>4. CASE j # 1
  <2>1. PICK i \in Jobs : job[i].manifest # Absent /\ job[i].manifest = at[a].seed
    BY <1>2, <1>4 DEF Known
  <2>2. j \in Jobs /\ job[j].status = "running" /\ job[i].status = "completed"
    BY <2>1, JobFacts DEF offered_assignment, IInv, JobsInOrder
  <2>3. ~(j < i) /\ i # j
    BY <2>2 DEF IInv, JobsInOrder
  <2>4. i \in Int /\ j \in Int
    BY <2>2 DEF Jobs
  <2>5. i < j
    BY <2>3, <2>4
  <2> QED
    BY <1>2, <1>4, <2>1, <2>5
<1> QED
  BY <1>3, <1>4

\* complete: the verified file is in the staging area when it is accepted.
LEMMA CompleteKeeps ==
  ASSUME IInv, NEW a \in RunAttempts, complete(a)
  PROVE  IInv'
<1> DEFINE j == Job(a)
           m == at[a].manifest
           r == [at[a] EXCEPT !.pc = "done"]
<1>1. /\ at[a].pc \in {"complete", "failed"} /\ at' = [at EXCEPT ![a] = r]
      /\ at[a].pc = "complete" => verify_fleet_upload(a)
      /\ UNCHANGED <<cached, staged, bucket, mirror, co, rd>>
  BY DEF complete, At
<1>2. Honest(a, at[a]) /\ j \in Jobs
  BY JobFacts DEF IInv, AttemptsHonest
<1>3. Honest(a, r)
  BY <1>1, <1>2 DEF Honest, Row, Places, Seeding
<1>4. CASE job' = job
  BY <1>1, <1>3, <1>4, RowStepKeeps
<1>5. CASE offered_assignment(a) /\ job' # job
  <2>1. PICK s \in {"completed", "failed"}, p \in BOOLEAN :
          /\ job' = [job EXCEPT ![j] = [job[j] EXCEPT !.status = s, !.manifest = m, !.promoted = p]]
          /\ at[a].pc = "complete" => s = "completed"
    BY <1>5 DEF complete
  <2>2. job[j] \in JobRow /\ job[j].manifest = Absent /\ job[j].status = "running" /\ job[j].attempt = a
    BY <1>2, <1>5 DEF IInv, JobsInOrder, offered_assignment
  <2>3. m \in Bodies
    BY <1>2 DEF Honest, Row
  <2>4. /\ job' \in [Jobs -> JobRow]
        /\ \A i \in Jobs \ {j} : job'[i] = job[i]
        /\ job'[j].status = s /\ job'[j].manifest = m /\ job'[j].attempt = a
    BY <2>1, <2>2, <2>3, <1>2 DEF IInv, JobsInOrder, JobRow
  <2>5. Grown /\ \A i \in Jobs : job'[i].attempt = job[i].attempt
    BY <2>2, <2>4 DEF Grown
  <2>6. m # Absent => s = "completed"
    BY <1>1, <1>5, <2>1, AcceptedBuilds
  <2> USE DEF IInv
  <2>7. JobsInOrder'
    <3> SUFFICES ASSUME NEW i \in Jobs
                 PROVE  /\ job'[i].status # "absent" =>
                             job'[i].attempt \in RunAttempts /\ Job(job'[i].attempt) = i
                        /\ job'[i].manifest # Absent => job'[i].status = "completed"
                        /\ job'[i].status # "absent" =>
                             \A h \in Jobs : h < i => job'[h].status = "completed" /\ job'[h].manifest # Absent
      BY <2>4 DEF JobsInOrder
    <3>1. job'[i].status # "absent" => job[i].status # "absent"
      BY <2>2, <2>4
    <3>2. \A h \in Jobs : h < i /\ job[i].status # "absent" => h # j
      BY <2>2 DEF JobsInOrder
    <3> QED
      BY <2>2, <2>4, <2>6, <3>1, <3>2 DEF JobsInOrder
  <2>8. ResultsBuildOn'
    <3> SUFFICES ASSUME NEW i \in Jobs, job'[i].manifest # Absent
                 PROVE  /\ {job'[1].attempt, job'[i].attempt} \subseteq job'[i].manifest
                        /\ job'[i].manifest \subseteq {job'[h].attempt : h \in 1..i}
                        /\ i > 1 => \E h \in 1..(i - 1) :
                             /\ job'[h].manifest # Absent
                             /\ job'[i].manifest = job'[h].manifest \cup {job'[i].attempt}
      BY DEF ResultsBuildOn
    <3>0. 1..i \subseteq Jobs /\ i \in 1..i /\ 1 \in Jobs
      BY ExchangeAssumption DEF Jobs
    <3>1. {job'[h].attempt : h \in 1..i} = {job[h].attempt : h \in 1..i}
      BY <2>5, <3>0
    <3>2. CASE i # j
      <4>1. /\ {job[1].attempt, job[i].attempt} \subseteq job[i].manifest
            /\ job[i].manifest \subseteq {job[h].attempt : h \in 1..i}
            /\ i > 1 => \E h \in 1..(i - 1) :
                 job[h].manifest # Absent /\ job[i].manifest = job[h].manifest \cup {job[i].attempt}
        BY <2>4, <3>2 DEF ResultsBuildOn
      <4>2. job'[i].manifest = job[i].manifest /\ job'[1].attempt = job[1].attempt /\ job'[i].attempt = job[i].attempt
        BY <2>4, <2>5, <3>2, <3>0
      <4>3. \A h \in 1..(i - 1) : job[h].manifest # Absent => job'[h].manifest = job[h].manifest
        BY <2>5, <3>0, JobFacts DEF Grown
      <4> QED
        BY <4>1, <4>2, <4>3, <3>1
    <3>3. CASE i = j /\ j = 1
      <4>1. m = {a} /\ job'[1].attempt = a /\ job'[i].manifest = m
        BY <3>3, <2>4, <1>1, <1>5, AcceptedBuilds
      <4> QED
        BY <4>1, <3>3, <3>0
    <3>4. CASE i = j /\ j # 1
      <4>1. m # Absent /\ job'[i].manifest = m /\ job'[i].attempt = a
        BY <3>4, <2>4
      <4>2. PICK h \in Jobs : h < j /\ job[h].manifest # Absent /\ m = job[h].manifest \cup {a}
        BY <4>1, <3>4, <1>1, <1>5, AcceptedBuilds
      <4>3. job[1].attempt \in job[h].manifest /\ job[h].manifest \subseteq {job[g].attempt : g \in 1..h}
        BY <4>2 DEF ResultsBuildOn
      <4>4. 1..h \subseteq 1..i /\ h \in 1..(i - 1)
        BY <4>2, <3>4 DEF Jobs
      <4>5. job'[1].attempt = job[1].attempt /\ job'[h].manifest = job[h].manifest /\ job[i].attempt = a
        BY <4>2, <2>2, <2>5, <3>0, <3>4 DEF Grown
      <4>6. m \subseteq {job[g].attempt : g \in 1..i}
        BY <4>2, <4>3, <4>4, <4>5, <3>0
      <4> QED
        BY <4>1, <4>2, <4>3, <4>4, <4>5, <4>6, <3>1
    <3> QED
      BY <3>2, <3>3, <3>4
  <2>9. AttemptsHonest'
    BY <1>1, <1>3, <2>5, HonestStays, AttemptsStay
  <2>10. StagedByContent'
    BY <1>1 DEF StagedByContent
  <2>11. StoresAccepted'
    BY <1>1, <2>5, StoresStay
  <2>12. Holds(co)' /\ Holds(rd)'
    BY <1>1, <2>5, TaskStays
  <2>13. AcceptedKept'
    <3> SUFFICES ASSUME NEW i \in Jobs, job'[i].manifest # Absent
                 PROVE  \/ bucket'.runs[i] = job'[i].manifest
                        \/ \E o \in Staging(i)' : o.body = job'[i].manifest
      BY DEF AcceptedKept
    <3>1. CASE i # j
      <4>1. job'[i] = job[i] /\ Staging(i)' = Staging(i)
        BY <3>1, <2>4, <1>1 DEF Staging, Object, artifact_staging_key
      <4> QED
        BY <4>1, <1>1 DEF AcceptedKept
    <3>2. CASE i = j
      <4>1. job'[i].attempt = a /\ job'[i].manifest = m /\ m # Absent /\ at[a].pc = "complete"
        BY <3>2, <2>4, <1>1, <1>5, AcceptedBuilds
      <4>2. PICK o \in Object(artifact_staging_key(a, m)) : o.body = m
        BY <1>1, <4>1 DEF verify_fleet_upload, fleet_object_matches
      <4>3. Staging(i)' = Object(artifact_staging_key(a, m))
        BY <4>1, <1>1 DEF Staging, Object, artifact_staging_key
      <4> QED
        BY <4>1, <4>2, <4>3
    <3> QED
      BY <3>1, <3>2
  <2> QED
    BY <2>7, <2>8, <2>9, <2>10, <2>11, <2>12, <2>13
<1> QED
  BY <1>4, <1>5 DEF complete

\* promote_fleet_upload: what is copied is the object that was verified.
LEMMA CopyKeeps ==
  ASSUME IInv, NEW j \in Jobs, promote_copies(j)
  PROVE  IInv'
<1> USE DEF IInv
<1>1. UNCHANGED <<at, cached, staged, mirror, job, co, rd>> /\ job[j].manifest # Absent
  BY DEF promote_copies, PromotionDue
<1>2. bucket' = [bucket EXCEPT !.runs[j] = job[j].manifest]
  BY ObjectIsListed DEF promote_copies, Staging
<1>3. Grown
  BY <1>1, SameJobs
<1>4. /\ bucket' \in Store /\ bucket'.sub = bucket.sub
      /\ bucket'.runs[j] = job[j].manifest
      /\ \A i \in Jobs \ {j} : bucket'.runs[i] = bucket.runs[i]
  <2>1. job[j].manifest \in Bodies
    BY DEF JobsInOrder, JobRow
  <2> QED
    BY <1>2, <2>1 DEF StoresAccepted, Store
<1>5. JobsInOrder' /\ ResultsBuildOn'
  BY <1>1 DEF JobsInOrder, ResultsBuildOn
<1>6. AttemptsHonest'
  BY <1>1, <1>3, AttemptsUnchanged
<1>7. StagedByContent'
  BY <1>1 DEF StagedByContent
<1>8. StoresAccepted'
  BY <1>1, <1>4 DEF StoresAccepted, Known
<1>9. Holds(co)' /\ Holds(rd)'
  BY <1>1 DEF Holds
<1>10. AcceptedKept'
  BY <1>1, <1>4 DEF AcceptedKept, Staging, Object, artifact_staging_key
<1> QED
  BY <1>5, <1>6, <1>7, <1>8, <1>9, <1>10

\* A run that changes its promotion or projection at most, and one that is placed
\* for the first time or again.
SameRun(i) ==
    /\ job'[i].status = job[i].status /\ job'[i].attempt = job[i].attempt
    /\ job'[i].manifest = job[i].manifest
PlacedRun(i) ==
    /\ job[i].status \in {"absent", "running"} /\ job'[i].status = "running"
    /\ job'[i].attempt \in RunAttempts /\ Job(job'[i].attempt) = i /\ job'[i].manifest = Absent
    /\ \A h \in Jobs : h < i => job[h].status = "completed" /\ job[h].manifest # Absent

LEMMA RunStepKeeps ==
  ASSUME JobsInOrder, ResultsBuildOn, job' \in [Jobs -> JobRow],
         \A i \in Jobs : SameRun(i) \/ PlacedRun(i)
  PROVE  /\ Grown /\ JobsInOrder' /\ ResultsBuildOn'
         /\ \A i \in Jobs : job'[i].manifest = job[i].manifest
         /\ \A i \in Jobs : job[i].manifest # Absent => job'[i].attempt = job[i].attempt
<1>1. \A i \in Jobs : /\ job'[i].manifest = job[i].manifest
                      /\ job[i].manifest # Absent => job'[i].attempt = job[i].attempt
  BY DEF JobsInOrder, SameRun, PlacedRun
<1>2. \A i \in Jobs : job[i].status = "completed" => job'[i].status = "completed"
  BY DEF SameRun, PlacedRun
<1>3. Grown
  BY <1>1 DEF Grown
<1>4. JobsInOrder'
  <2> SUFFICES ASSUME NEW i \in Jobs
               PROVE  /\ job'[i].status # "absent" =>
                           job'[i].attempt \in RunAttempts /\ Job(job'[i].attempt) = i
                      /\ job'[i].manifest # Absent => job'[i].status = "completed"
                      /\ job'[i].status # "absent" =>
                           \A h \in Jobs : h < i => job'[h].status = "completed" /\ job'[h].manifest # Absent
    BY DEF JobsInOrder
  <2>1. CASE SameRun(i)
    BY <2>1, <1>1, <1>2 DEF JobsInOrder, SameRun
  <2>2. CASE PlacedRun(i)
    BY <2>2, <1>1, <1>2 DEF PlacedRun
  <2> QED
    BY <2>1, <2>2
<1>5. ResultsBuildOn'
  <2> SUFFICES ASSUME NEW i \in Jobs, job'[i].manifest # Absent
               PROVE  /\ {job'[1].attempt, job'[i].attempt} \subseteq job'[i].manifest
                      /\ job'[i].manifest \subseteq {job'[h].attempt : h \in 1..i}
                      /\ i > 1 => \E h \in 1..(i - 1) :
                           /\ job'[h].manifest # Absent
                           /\ job'[i].manifest = job'[h].manifest \cup {job'[i].attempt}
    BY DEF ResultsBuildOn
  <2>1. 1..i \subseteq Jobs /\ i \in 1..i /\ 1..(i - 1) \subseteq Jobs /\ (i = 1 \/ 1 < i) /\ 1 \in Jobs
    BY ExchangeAssumption DEF Jobs
  <2>2. job[i].manifest # Absent /\ job[i].status = "completed"
    BY <1>1 DEF JobsInOrder
  <2>3. \A h \in 1..i : job[h].manifest # Absent
    <3> SUFFICES ASSUME NEW h \in 1..i PROVE job[h].manifest # Absent
      OBVIOUS
    <3>1. h \in Jobs /\ (h = i \/ h < i)
      BY <2>1 DEF Jobs
    <3> QED
      BY <3>1, <2>2 DEF JobsInOrder
  <2>4. \A h \in 1..i : job'[h].attempt = job[h].attempt
    BY <2>1, <2>3, <1>1
  <2>5. {job'[h].attempt : h \in 1..i} = {job[h].attempt : h \in 1..i}
    BY <2>4
  <2>6. /\ {job[1].attempt, job[i].attempt} \subseteq job[i].manifest
        /\ job[i].manifest \subseteq {job[h].attempt : h \in 1..i}
        /\ i > 1 => \E h \in 1..(i - 1) :
             job[h].manifest # Absent /\ job[i].manifest = job[h].manifest \cup {job[i].attempt}
    BY <2>2 DEF ResultsBuildOn
  <2>7. 1 \in 1..i /\ job'[1].attempt = job[1].attempt /\ job'[i].attempt = job[i].attempt
    BY <2>1, <2>4 DEF Jobs
  <2>8. i > 1 => \E h \in 1..(i - 1) :
             job'[h].manifest # Absent /\ job'[i].manifest = job'[h].manifest \cup {job'[i].attempt}
    BY <2>6, <2>7, <2>1, <1>1
  <2> QED
    BY <2>5, <2>6, <2>7, <2>8, <1>1
<1> QED
  BY <1>1, <1>3, <1>4, <1>5

\* AcceptedKept beside such a change.
LEMMA KeptWithRun ==
  ASSUME AcceptedKept, UNCHANGED <<bucket, staged>>,
         \A i \in Jobs : job'[i].manifest = job[i].manifest,
         \A i \in Jobs : job[i].manifest # Absent => job'[i].attempt = job[i].attempt
  PROVE  AcceptedKept'
<1> SUFFICES ASSUME NEW i \in Jobs, job'[i].manifest # Absent
             PROVE  \/ bucket'.runs[i] = job'[i].manifest
                    \/ \E o \in Staging(i)' : o.body = job'[i].manifest
  BY DEF AcceptedKept
<1>1. Staging(i)' = Staging(i) /\ job'[i].manifest = job[i].manifest
  BY DEF Staging, Object, artifact_staging_key
<1> QED
  BY <1>1 DEF AcceptedKept

\* A fresh attempt knows nothing.
LEMMA FreshHonest ==
  ASSUME NEW j \in Jobs, NEW k \in 1..Tries
  PROVE  Honest(<<j, k>>, [NoAttempt EXCEPT !.pc = StartPc(j)])
<1>1. Job(<<j, k>>) = j
  BY PairFacts
<1>2. StartPc(j) = IF j = 1 THEN "run" ELSE "seed"
  BY DEF StartPc, sqlite_seed_key, Jobs
<1> QED
  BY <1>1, <1>2 DEF Honest, NoAttempt, Row, Places, Seeding, Bodies, Absent

LEMMA FreshStays ==
  ASSUME AttemptsHonest, Grown, NEW j \in Jobs, NEW k \in 1..Tries, at' = Begin(<<j, k>>, StartPc(j))
  PROVE  AttemptsHonest'
<1> DEFINE r == [NoAttempt EXCEPT !.pc = StartPc(j)]
<1>1. at' = [at EXCEPT ![<<j, k>>] = r] /\ <<j, k>> \in RunAttempts
  BY PairFacts DEF Begin
<1>2. Honest(<<j, k>>, r)
  BY FreshHonest
<1> HIDE DEF r
<1>3. \A a \in RunAttempts : Honest(a, at'[a])
  BY <1>1, <1>2 DEF AttemptsHonest
<1>4. \A a \in RunAttempts : Honest(a, at[a])'
  BY <1>3, HonestStays
<1> QED
  BY <1>1, <1>4 DEF AttemptsHonest

\* promote_fleet_upload deletes what it has seen at the final key; another run's
\* object has another key.
LEMMA DeleteKeeps ==
  ASSUME IInv, NEW j \in Jobs, promote_deletes(j)
  PROVE  IInv'
<1> USE DEF IInv
<1>1. /\ UNCHANGED <<at, cached, bucket, mirror, co, rd>> /\ staged' = staged \ Staging(j)
      /\ job[j].manifest # Absent /\ bucket.runs[j] = job[j].manifest
  BY DEF promote_deletes, PromotionDue, PromotedMatches, fleet_object_matches
<1>2. job' \in [Jobs -> JobRow] /\ \A i \in Jobs : SameRun(i)
  <2>1. job \in [Jobs -> JobRow]
    BY DEF JobsInOrder
  <2>2. CASE job' = [job EXCEPT ![j].promoted = TRUE]
    BY <2>1, <2>2 DEF SameRun, JobRow
  <2>3. CASE job' = job
    BY <2>1, <2>3 DEF SameRun
  <2> QED
    BY <2>2, <2>3 DEF promote_deletes
<1>3. /\ Grown /\ JobsInOrder' /\ ResultsBuildOn'
      /\ \A i \in Jobs : job'[i].manifest = job[i].manifest
      /\ \A i \in Jobs : job[i].manifest # Absent => job'[i].attempt = job[i].attempt
  BY <1>2, RunStepKeeps
<1>4. AttemptsHonest'
  BY <1>1, <1>3, AttemptsUnchanged
<1>5. StagedByContent'
  BY <1>1 DEF StagedByContent
<1>6. StoresAccepted'
  BY <1>1, <1>3, StoresStay
<1>7. Holds(co)' /\ Holds(rd)'
  BY <1>1, <1>3, TaskStays
<1>8. AcceptedKept'
  <2> SUFFICES ASSUME NEW i \in Jobs, job'[i].manifest # Absent
               PROVE  \/ bucket'.runs[i] = job'[i].manifest
                      \/ \E o \in Staging(i)' : o.body = job'[i].manifest
    BY DEF AcceptedKept
  <2>1. CASE i = j
    BY <2>1, <1>1, <1>3
  <2>2. CASE i # j
    <3>1. job[i].attempt # job[j].attempt
      BY <2>2, <1>1, <1>3 DEF JobsInOrder
    <3>2. Staging(i) \cap Staging(j) = {}
      BY <3>1, ObjectIsListed DEF Staging
    <3>3. Staging(i)' = Staging(i) \ Staging(j)
      BY <1>1, <1>3 DEF Staging, Object, artifact_staging_key
    <3> QED
      BY <3>2, <3>3, <1>1, <1>3 DEF AcceptedKept
  <2> QED
    BY <2>1, <2>2
<1> QED
  BY <1>3, <1>4, <1>5, <1>6, <1>7, <1>8

\* The lease of an attempt runs out and its run is placed again.
LEMMA LoseKeeps ==
  ASSUME IInv, NEW j \in Jobs, LoseAttempt(j)
  PROVE  IInv'
<1> USE DEF IInv
<1>1. /\ job[j].status = "running" /\ job[j].attempt[2] < Tries
      /\ UNCHANGED <<cached, staged, bucket, mirror, co, rd>>
  BY DEF LoseAttempt
<1>2. PICK k \in 1..Tries :
        job' = [job EXCEPT ![j] = Queue(j, k)] /\ at' = Begin(<<j, k>>, StartPc(j))
  <2>1. job[j].attempt \in RunAttempts
    BY <1>1 DEF JobsInOrder
  <2>2. job[j].attempt[2] + 1 \in 1..Tries
    BY <1>1, <2>1, ExchangeAssumption DEF RunAttempts
  <2> QED
    BY <2>2 DEF LoseAttempt
<1>3. <<j, k>> \in RunAttempts /\ Job(<<j, k>>) = j
  BY PairFacts
<1> DEFINE w == Queue(j, k)
<1>4. /\ w \in JobRow /\ w.status = "running" /\ w.attempt = <<j, k>> /\ w.manifest = Absent
  BY <1>3 DEF Queue, NoJob, JobRow, Bodies, Absent
<1> HIDE DEF w
<1>5. /\ Grown /\ JobsInOrder' /\ ResultsBuildOn'
      /\ \A i \in Jobs : job'[i].manifest = job[i].manifest
      /\ \A i \in Jobs : job[i].manifest # Absent => job'[i].attempt = job[i].attempt
  <2>1. job' \in [Jobs -> JobRow] /\ job'[j] = w /\ \A i \in Jobs \ {j} : job'[i] = job[i]
    BY <1>2, <1>4 DEF JobsInOrder, w
  <2>2. PlacedRun(j)
    BY <1>1, <1>3, <1>4, <2>1 DEF JobsInOrder, PlacedRun
  <2>3. \A i \in Jobs \ {j} : SameRun(i)
    BY <2>1 DEF SameRun
  <2> QED
    BY <2>1, <2>2, <2>3, RunStepKeeps
<1>6. AttemptsHonest'
  BY <1>2, <1>5, FreshStays
<1>7. StagedByContent'
  BY <1>1 DEF StagedByContent
<1>8. StoresAccepted'
  BY <1>1, <1>5, StoresStay
<1>9. Holds(co)' /\ Holds(rd)'
  BY <1>1, <1>5, TaskStays
<1>10. AcceptedKept'
  BY <1>1, <1>5, KeptWithRun
<1> QED
  BY <1>5, <1>6, <1>7, <1>8, <1>9, <1>10

-----------------------------------------------------------------------------
(* The coordinator and the readers.                                        *)

\* S3Store.get: whoever asks is given the accepted file, and the mirror holds no
\* other.
LEMMA GetGives ==
  ASSUME IInv, NEW j \in Jobs, NEW t, NEW m,
         \/ /\ mirror.runs[j] # Absent /\ m = mirror
            /\ t = [pc |-> "got", job |-> j, body |-> mirror.runs[j]]
         \/ /\ bucket.runs[j] # Absent /\ m = [mirror EXCEPT !.runs[j] = WhileDownloading(@)]
            /\ t = [pc |-> "part", job |-> j, body |-> bucket.runs[j]]
  PROVE  m = mirror /\ Holds(t)
<1>1. mirror \in Store /\ bucket \in Store
  BY DEF IInv, StoresAccepted
<1>2. m = mirror
  BY <1>1 DEF WhileDownloading, Store
<1>3. PICK b \in Bodies, pc \in {"got", "part"} :
        b # Absent /\ b = job[j].manifest /\ t = [pc |-> pc, job |-> j, body |-> b]
  BY <1>1 DEF IInv, StoresAccepted, Store
<1> QED
  BY <1>2, <1>3 DEF Holds, TaskRow, Held

\* A task that turns to another file, or drops it, while all else stays.
LEMMA TasksKeep ==
  ASSUME IInv, Holds(co'), Holds(rd'), UNCHANGED <<at, cached, staged, bucket, mirror, job>>
  PROVE  IInv'
<1> USE DEF IInv
<1>1. Grown
  BY SameJobs
<1>2. JobsInOrder' /\ ResultsBuildOn'
  BY DEF JobsInOrder, ResultsBuildOn
<1>3. AttemptsHonest'
  BY <1>1, AttemptsUnchanged
<1>4. StagedByContent'
  BY DEF StagedByContent
<1>5. StoresAccepted'
  BY <1>1, StoresStay
<1>6. Holds(co)' /\ Holds(rd)'
  BY DEF Holds
<1>7. AcceptedKept'
  BY KeptStays
<1> QED
  BY <1>2, <1>3, <1>4, <1>5, <1>6, <1>7

LEMMA GetsKeep ==
  ASSUME IInv, NEW j \in Jobs, plan_get(j) \/ cat_artifact_gets(j)
  PROVE  IInv'
<1>1. CASE plan_get(j)
  <2>1. mirror' = mirror /\ Holds(co')
    BY <1>1, GetGives DEF plan_get, get_from
  <2>2. UNCHANGED <<at, cached, staged, bucket, job, rd>>
    BY <1>1 DEF plan_get
  <2> QED
    BY <2>1, <2>2, TasksKeep DEF IInv
<1>2. CASE cat_artifact_gets(j)
  <2>1. mirror' = mirror /\ Holds(rd')
    BY <1>2, GetGives DEF cat_artifact_gets, get_from
  <2>2. UNCHANGED <<at, cached, staged, bucket, job, co>>
    BY <1>2 DEF cat_artifact_gets
  <2> QED
    BY <2>1, <2>2, TasksKeep DEF IInv
<1> QED
  BY <1>1, <1>2

\* The mirror takes an accepted file under its run's key.
LEMMA MirrorKeeps ==
  ASSUME IInv, NEW j \in Jobs, mirror' = [mirror EXCEPT !.runs[j] = job[j].manifest],
         Holds(co'), Holds(rd'), UNCHANGED <<at, cached, staged, bucket, job>>
  PROVE  IInv'
<1> USE DEF IInv
<1>1. Grown
  BY SameJobs
<1>2. JobsInOrder' /\ ResultsBuildOn'
  BY DEF JobsInOrder, ResultsBuildOn
<1>3. AttemptsHonest'
  BY <1>1, AttemptsUnchanged
<1>4. StagedByContent'
  BY DEF StagedByContent
<1>5. StoresAccepted'
  <2>1. job[j].manifest \in Bodies
    BY DEF JobsInOrder, JobRow
  <2>2. /\ mirror' \in Store /\ mirror'.runs[j] = job[j].manifest
        /\ \A i \in Jobs \ {j} : mirror'.runs[i] = mirror.runs[i]
    BY <2>1 DEF StoresAccepted, Store
  <2> QED
    BY <2>2 DEF StoresAccepted, Known
<1>6. Holds(co)' /\ Holds(rd)'
  BY DEF Holds
<1>7. AcceptedKept'
  BY KeptStays
<1> QED
  BY <1>2, <1>3, <1>4, <1>5, <1>6, <1>7

LEMMA HeldMoves ==
  ASSUME NEW t, Holds(t), t.pc \in Held, NEW pc \in {"idle"} \cup Held
  PROVE  Holds([t EXCEPT !.pc = pc])
  BY DEF Holds, TaskRow

LEMMA NobodyHolds == Holds(Nobody)
  BY DEF Holds, Nobody, TaskRow, Held, Bodies, Absent

LEMMA RenamesKeep ==
  ASSUME IInv, plan_renames \/ cat_renames
  PROVE  IInv'
<1>1. CASE plan_renames
  <2>1. co.pc = "part" /\ Holds(co) /\ Holds(rd) /\ UNCHANGED <<at, cached, staged, bucket, job, rd>>
    BY <1>1 DEF plan_renames, rename_part, IInv
  <2>2. CASE mirror' = [mirror EXCEPT !.runs[co.job] = co.body] /\ co' = [co EXCEPT !.pc = "got"]
    <3>1. Holds([co EXCEPT !.pc = "got"])
      BY <2>1, HeldMoves DEF Held
    <3>2. co.job \in Jobs /\ co.body = job[co.job].manifest
      BY <2>1 DEF Holds, Held
    <3> QED
      BY <2>1, <2>2, <3>1, <3>2, MirrorKeeps
  <2>3. CASE mirror' = mirror /\ co' = Nobody
    BY <2>1, <2>3, NobodyHolds, TasksKeep
  <2> QED
    BY <1>1, <2>2, <2>3 DEF plan_renames, rename_part
<1>2. CASE cat_renames
  <2>1. rd.pc = "part" /\ Holds(co) /\ Holds(rd) /\ UNCHANGED <<at, cached, staged, bucket, job, co>>
    BY <1>2 DEF cat_renames, rename_part, IInv
  <2>2. CASE mirror' = [mirror EXCEPT !.runs[rd.job] = rd.body] /\ rd' = [rd EXCEPT !.pc = "got"]
    <3>1. Holds([rd EXCEPT !.pc = "got"])
      BY <2>1, HeldMoves DEF Held
    <3>2. rd.job \in Jobs /\ rd.body = job[rd.job].manifest
      BY <2>1 DEF Holds, Held
    <3> QED
      BY <2>1, <2>2, <3>1, <3>2, MirrorKeeps
  <2>3. CASE mirror' = mirror /\ rd' = Nobody
    BY <2>1, <2>3, NobodyHolds, TasksKeep
  <2> QED
    BY <1>2, <2>2, <2>3 DEF cat_renames, rename_part
<1> QED
  BY <1>1, <1>2

\* cat_artifact: the answer is what the reader was given, or an error.
LEMMA ServesKeeps ==
  ASSUME IInv, cat_artifact_serves
  PROVE  IInv'
<1>1. rd.pc = "got" /\ Holds(co) /\ Holds(rd) /\ UNCHANGED <<at, cached, staged, bucket, mirror, job, co>>
  BY DEF cat_artifact_serves, IInv
<1>2. rd' = [rd EXCEPT !.pc = "served"] \/ rd' = Nobody
  BY DEF cat_artifact_serves
<1>3. Holds([rd EXCEPT !.pc = "served"])
  BY <1>1, HeldMoves DEF Held
<1>4. Holds(rd')
  BY <1>2, <1>3, NobodyHolds
<1> QED
  BY <1>1, <1>4, TasksKeep

\* S3Store.put: the submission's database is the accepted file of the run projected.
LEMMA PutsKeeps ==
  ASSUME IInv, plan_puts
  PROVE  IInv'
<1> USE DEF IInv
<1>1. /\ co.pc = "got" /\ co' = [co EXCEPT !.pc = "append"] /\ mirror' = [mirror EXCEPT !.sub = co.body]
      /\ bucket' \in {bucket, [bucket EXCEPT !.sub = co.body]}
      /\ UNCHANGED <<at, cached, staged, job, rd>>
  BY DEF plan_puts
<1>2. co.body # Absent /\ Known(co.body) /\ co.body \in Bodies
  BY <1>1 DEF Holds, Held, Known, TaskRow
<1>3. Grown
  BY <1>1, SameJobs
<1>4. /\ bucket' \in Store /\ mirror' \in Store
      /\ bucket'.runs = bucket.runs /\ mirror'.runs = mirror.runs
      /\ bucket'.sub \in {bucket.sub, co.body}
  BY <1>1, <1>2 DEF StoresAccepted, Store
<1>5. JobsInOrder' /\ ResultsBuildOn'
  BY <1>1 DEF JobsInOrder, ResultsBuildOn
<1>6. AttemptsHonest'
  BY <1>1, <1>3, AttemptsUnchanged
<1>7. StagedByContent'
  BY <1>1 DEF StagedByContent
<1>8. StoresAccepted'
  BY <1>1, <1>2, <1>4 DEF StoresAccepted, Known
<1>9. Holds(co)' /\ Holds(rd)'
  <2>1. Holds([co EXCEPT !.pc = "append"])
    BY <1>1, HeldMoves DEF Held
  <2> QED
    BY <1>1, <2>1 DEF Holds
<1>10. AcceptedKept'
  BY <1>1, <1>4 DEF AcceptedKept, Staging, Object, artifact_staging_key
<1> QED
  BY <1>5, <1>6, <1>7, <1>8, <1>9, <1>10

\* plan_next_repeat: the next run exists only once the one before it completed with
\* a file.
LEMMA AppendKeeps ==
  ASSUME IInv, NEW j \in Jobs, append_next(j)
  PROVE  IInv'
<1> USE DEF IInv
<1> DEFINE appends == j < Runs /\ job[j + 1].status = "absent"
           next == IF appends THEN [job EXCEPT ![j + 1] = Queue(j + 1, 1)] ELSE job
<1>1. /\ co.pc = "append" /\ co.job = j /\ co' = Nobody
      /\ UNCHANGED <<cached, staged, bucket, mirror, rd>>
      /\ at' = IF appends THEN Begin(<<j + 1, 1>>, StartPc(j + 1)) ELSE at
      /\ job' = [next EXCEPT ![j].projected = TRUE] \/ job' = next
  BY DEF append_next
<1>2. job[j].manifest # Absent /\ job[j].status = "completed" /\ job \in [Jobs -> JobRow]
  BY <1>1 DEF Holds, Held, JobsInOrder
<1>3. appends => /\ j + 1 \in Jobs /\ 1 \in 1..Tries /\ j + 1 # j
                 /\ <<j + 1, 1>> \in RunAttempts /\ Job(<<j + 1, 1>>) = j + 1
  <2> SUFFICES ASSUME appends
               PROVE  /\ j + 1 \in Jobs /\ 1 \in 1..Tries /\ j + 1 # j
                      /\ <<j + 1, 1>> \in RunAttempts /\ Job(<<j + 1, 1>>) = j + 1
    OBVIOUS
  <2>1. j + 1 \in Jobs /\ 1 \in 1..Tries /\ j + 1 # j
    BY ExchangeAssumption DEF Jobs
  <2> QED
    BY <2>1, PairFacts
<1>4. appends => Queue(j + 1, 1) \in JobRow
  BY <1>3 DEF Queue, NoJob, JobRow, Bodies, Absent
<1>5. /\ next \in [Jobs -> JobRow] /\ next[j] = job[j]
      /\ \A i \in Jobs : next[i] = job[i] \/ (appends /\ i = j + 1 /\ next[i] = Queue(j + 1, 1))
  BY <1>2, <1>3, <1>4
<1> HIDE DEF next
<1>6. /\ job' \in [Jobs -> JobRow]
      /\ \A i \in Jobs : /\ job'[i].status = next[i].status /\ job'[i].attempt = next[i].attempt
                         /\ job'[i].manifest = next[i].manifest
  <2>1. CASE job' = next
    BY <2>1, <1>5
  <2>2. CASE job' = [next EXCEPT ![j].projected = TRUE]
    BY <2>2, <1>5 DEF JobRow
  <2> QED
    BY <1>1, <2>1, <2>2
<1>7. \A i \in Jobs : SameRun(i) \/ PlacedRun(i)
  <2> SUFFICES ASSUME NEW i \in Jobs PROVE SameRun(i) \/ PlacedRun(i)
    OBVIOUS
  <2>1. CASE next[i] = job[i]
    BY <2>1, <1>6 DEF SameRun
  <2>2. CASE appends /\ i = j + 1 /\ next[i] = Queue(j + 1, 1)
    <3>1. /\ next[i].status = "running" /\ next[i].attempt = <<j + 1, 1>>
          /\ next[i].manifest = Absent /\ job[i].status = "absent"
      BY <2>2 DEF Queue, NoJob
    <3>2. \A h \in Jobs : h < i => h = j \/ h < j
      BY <2>2 DEF Jobs
    <3>3. \A h \in Jobs : h < i => job[h].status = "completed" /\ job[h].manifest # Absent
      BY <3>2, <1>2 DEF JobsInOrder
    <3> QED
      BY <2>2, <3>1, <3>3, <1>3, <1>6 DEF PlacedRun
  <2> QED
    BY <2>1, <2>2, <1>5
<1>8. /\ Grown /\ JobsInOrder' /\ ResultsBuildOn'
      /\ \A i \in Jobs : job'[i].manifest = job[i].manifest
      /\ \A i \in Jobs : job[i].manifest # Absent => job'[i].attempt = job[i].attempt
  BY <1>6, <1>7, RunStepKeeps
<1>9. AttemptsHonest'
  BY <1>1, <1>3, <1>8, AttemptsUnchanged, FreshStays
<1>10. StoresAccepted'
  BY <1>1, <1>8, StoresStay
<1>11. Holds(co)' /\ Holds(rd)'
  <2>1. Holds(Nobody)'
    BY <1>8, NobodyHolds, TaskStays
  <2>2. Holds(rd)'
    <3>1. \A t : Holds(t) => Holds(t)'
      BY <1>8, TaskStays
    <3> QED
      BY <1>1, <3>1 DEF Holds
  <2> QED
    BY <1>1, <2>1, <2>2 DEF Holds
<1>12. AcceptedKept'
  BY <1>1, <1>8, KeptWithRun
<1>13. StagedByContent'
  BY <1>1 DEF StagedByContent
<1> QED
  BY <1>8, <1>9, <1>10, <1>11, <1>12, <1>13

-----------------------------------------------------------------------------
(* The theorems.                                                           *)

LEMMA StutterKeeps == IInv /\ UNCHANGED exchangeVars => IInv'
<1> SUFFICES ASSUME IInv, UNCHANGED exchangeVars PROVE IInv'
  OBVIOUS
<1>1. UNCHANGED <<at, cached, staged, bucket, mirror, job, co, rd>>
  BY DEF exchangeVars
<1> QED
  BY <1>1, TasksKeep DEF IInv

\* Every call of the worker, the daemon, the coordinator and the readers, failing or
\* not, keeps IInv.
THEOREM ExchangeInvariant == ExchangeSpec => []IInv
<1>1. IInv /\ [ExchangeNext]_exchangeVars => IInv'
  <2> SUFFICES ASSUME IInv, [ExchangeNext]_exchangeVars PROVE IInv'
    OBVIOUS
  <2>1. ASSUME NEW a \in RunAttempts,
               \/ get_cached(a) \/ artifact_grant_get(a) \/ download_opens(a) \/ download_renames(a)
               \/ RunBenchmark(a) \/ artifact_grant_put(a) \/ upload(a) \/ complete(a)
        PROVE  IInv'
    BY <2>1, GetCachedKeeps, GrantsKeep, DownloadOpensKeeps, DownloadRenamesKeeps,
       RunBenchmarkKeeps, UploadKeeps, CompleteKeeps
  <2>2. ASSUME NEW j \in Jobs,
               Promote(j) \/ LoseAttempt(j) \/ plan_get(j) \/ append_next(j) \/ cat_artifact_gets(j)
        PROVE  IInv'
    BY <2>2, CopyKeeps, DeleteKeeps, LoseKeeps, GetsKeep, AppendKeeps DEF Promote
  <2>3. CASE plan_renames \/ plan_puts \/ cat_renames \/ cat_artifact_serves
    BY <2>3, RenamesKeep, PutsKeeps, ServesKeeps
  <2>4. CASE UNCHANGED exchangeVars
    BY <2>4, StutterKeeps
  <2> QED
    BY <2>1, <2>2, <2>3, <2>4 DEF ExchangeNext
<1> QED
  BY <1>1, InitHolds, PTL DEF ExchangeSpec

\* Whatever fails and however many attempts are lost while their uploads and
\* downloads go on: an accepted file is kept, the API serves no other, and every
\* result stands on an accepted one.
THEOREM FilesAcceptedAlways == ExchangeSpec => []FilesAccepted
<1>1. IInv => FilesAccepted
  <2> SUFFICES ASSUME IInv PROVE FilesAccepted
    OBVIOUS
  <2>1. ServesAccepted
    BY DEF IInv, Holds, Held, ServesAccepted
  <2> QED
    BY <2>1 DEF IInv, FilesAccepted
<1> QED
  BY <1>1, ExchangeInvariant, PTL

\* remote_artifacts.rs and artifact_store.rs: whatever stands at a final key, in the
\* mirror or in the worker's own directory is a file the daemon accepted.
OnlyAcceptedCarried ==
    /\ \A j \in Jobs : bucket.runs[j] \in {Absent, job[j].manifest} /\ mirror.runs[j] \in {Absent, job[j].manifest}
    /\ bucket.sub # Absent => Known(bucket.sub)
    /\ cached # Absent => Known(cached)

\* No part file, no file of a lost attempt and no unverified upload is ever carried.
THEOREM OnlyAcceptedCarriedAlways == ExchangeSpec => []OnlyAcceptedCarried
<1>1. IInv => OnlyAcceptedCarried
  BY DEF IInv, StoresAccepted, OnlyAcceptedCarried
<1> QED
  BY <1>1, ExchangeInvariant, PTL
=============================================================================
