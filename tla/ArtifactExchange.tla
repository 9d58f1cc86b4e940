--------------------------- MODULE ArtifactExchange ---------------------------
(***************************************************************************)
(* The result files of the runs of one submission, and the SQLite database *)
(* that its repeated runs carry from one to the next: a worker seeds its   *)
(* machine, runs, uploads into a staging area and completes; the daemon    *)
(* promotes what it accepted, the coordinator makes it the submission's    *)
(* database and appends the next run, and the API serves it.               *)
(*                                                                         *)
(* A database is the set of attempts whose rows it holds, so its size is   *)
(* their number, and two attempts of one run differ by content only.       *)
(***************************************************************************)
EXTENDS Integers, FiniteSets

CONSTANTS
    Runs,       \* requested runs of the submission
    Tries,      \* bound: attempts of a run
    MaxFaults   \* bound: failed calls to the object store, failed reports

ASSUME ExchangeAssumption == Runs \in Nat \ {0} /\ Tries \in Nat \ {0}

\* The k-th attempt of the j-th run is <<j, k>>.
Jobs == 1..Runs
RunAttempts == Jobs \X (1..Tries)
Job(a) == a[1]
Absent == {}

VARIABLES
    at,      \* the attempts on the worker
    cached,  \* the submission's database in the worker's own directory
    staged,  \* objects in the staging area
    bucket,  \* objects at their final keys, one a run, and the submission's
    mirror,  \* the daemon's local copies of these
    job,     \* the runs: current attempt, accepted manifest, promotion
    co,      \* the coordinator's projection
    rd,      \* a reader of one artifact through the API
    faults

exchangeVars == <<at, cached, staged, bucket, mirror, job, co, rd, faults>>

NoAttempt == [pc |-> "none", seed |-> Absent, file |-> Absent, part |-> Absent, manifest |-> Absent]
NoJob == [status |-> "absent", attempt |-> <<>>, manifest |-> Absent, promoted |-> FALSE, projected |-> FALSE]
Nobody == [pc |-> "idle", job |-> 0, body |-> Absent]
Queue(j, k) == [NoJob EXCEPT !.status = "running", !.attempt = <<j, k>>]

ExchangeInit ==
    /\ at = [a \in RunAttempts |-> IF a = <<1, 1>> THEN [NoAttempt EXCEPT !.pc = "run"] ELSE NoAttempt]
    /\ cached = Absent /\ staged = {}
    /\ bucket = [runs |-> [j \in Jobs |-> Absent], sub |-> Absent]
    /\ mirror = [runs |-> [j \in Jobs |-> Absent], sub |-> Absent]
    /\ job = [j \in Jobs |-> IF j = 1 THEN Queue(1, 1) ELSE NoJob]
    /\ co = Nobody /\ rd = Nobody /\ faults = 0

ExchangeFault == faults < MaxFaults /\ faults' = faults + 1
Size(body) == Cardinality(body)
At(a, pc) == [at EXCEPT ![a].pc = pc]

\* offered_assignment: the attempt still is the one its run is placed on.
offered_assignment(a) == job[Job(a)].attempt = a /\ job[Job(a)].status = "running"

-----------------------------------------------------------------------------
(* The worker: RemoteArtifactSink.                                         *)

sqlite_seed_key(j) == j > 1

Begin(a, pc) == [at EXCEPT ![a] = [NoAttempt EXCEPT !.pc = pc]]
StartPc(j) == IF sqlite_seed_key(j) THEN "seed" ELSE "run"

\* get: a file of that key in the worker's directory is taken as it is.
get_cached(a) ==
    /\ at[a].pc = "seed" /\ cached # Absent
    /\ at' = [at EXCEPT ![a].pc = "run", ![a].seed = cached]
    /\ UNCHANGED <<cached, staged, bucket, mirror, job, co, rd, faults>>

\* Otherwise a read grant, for the assignment's own seed only, and a download.
artifact_grant_get(a) ==
    /\ at[a].pc = "seed" /\ cached = Absent
    /\ at' = At(a, IF offered_assignment(a) THEN "download" ELSE "failed")
    /\ UNCHANGED <<cached, staged, bucket, mirror, job, co, rd, faults>>

\* What stands at the destination while the body is being written to its part file.
WhileDownloading(old) == old

download_opens(a) ==
    /\ at[a].pc = "download"
    /\ IF bucket.sub = Absent
       THEN at' = At(a, "failed") /\ UNCHANGED cached
       ELSE /\ at' = [at EXCEPT ![a].pc = "rename", ![a].part = bucket.sub]
            /\ cached' = WhileDownloading(cached)
    /\ UNCHANGED <<staged, bucket, mirror, job, co, rd, faults>>

download_renames(a) ==
    /\ at[a].pc = "rename"
    /\ \/ cached' = at[a].part /\ at' = [at EXCEPT ![a].pc = "run", ![a].seed = at[a].part] /\ UNCHANGED faults
       \/ ExchangeFault /\ at' = At(a, "failed") /\ UNCHANGED cached
    /\ UNCHANGED <<staged, bucket, mirror, job, co, rd>>

\* The machine adds its rows to the database it was seeded with.
RunBenchmark(a) ==
    /\ at[a].pc = "run"
    /\ at' = [at EXCEPT ![a].pc = "put", ![a].file = at[a].seed \cup {a}]
    /\ UNCHANGED <<cached, staged, bucket, mirror, job, co, rd, faults>>

\* put: a grant for exactly this content, the upload, the manifest entry.  When one
\* fails the run goes on without the artifact.
MutStagingKey(a, body) == <<Job(a), Size(body)>>
artifact_staging_key(a, body) == <<a, body>>

artifact_grant_put(a) ==
    /\ at[a].pc = "put"
    /\ \/ at' = At(a, IF offered_assignment(a) THEN "upload" ELSE "complete") /\ UNCHANGED faults
       \/ ExchangeFault /\ at' = At(a, "complete")
    /\ UNCHANGED <<cached, staged, bucket, mirror, job, co, rd>>

Stage(k, body) == {o \in staged : o.key # k} \cup {[key |-> k, body |-> body]}

\* The store takes a body only with the size and the checksum that were signed.
upload(a) ==
    LET key == artifact_staging_key(a, at[a].file)
    IN  /\ at[a].pc = "upload"
        /\ \/ staged' = Stage(key, at[a].file) /\ UNCHANGED faults
              /\ at' = [at EXCEPT ![a].pc = "complete", ![a].manifest = at[a].file]
           \/ ExchangeFault /\ at' = At(a, "complete") /\ staged' \in {staged, Stage(key, at[a].file)}
        /\ UNCHANGED <<cached, bucket, mirror, job, co, rd>>

-----------------------------------------------------------------------------
(* Completion and promotion.                                               *)

Object(k) == {o \in staged : o.key = k}
fleet_object_matches(body, listed) == body = listed

\* complete: every listed upload is compared with its object before the terminal is
\* accepted, and only the attempt its run is placed on is accepted.
verify_fleet_upload(a) ==
    \/ at[a].manifest = Absent
    \/ \E o \in Object(artifact_staging_key(a, at[a].manifest)) : fleet_object_matches(o.body, at[a].manifest)

complete(a) ==
    /\ at[a].pc \in {"complete", "failed"} /\ (at[a].pc = "complete" => verify_fleet_upload(a))
    /\ at' = At(a, "done")
    /\ job' = IF ~offered_assignment(a) THEN job
              ELSE [job EXCEPT ![Job(a)] =
                      [@ EXCEPT !.status = IF at[a].pc = "failed" THEN "failed" ELSE "completed",
                                !.manifest = at[a].manifest, !.promoted = at[a].manifest = Absent]]
    /\ UNCHANGED <<cached, staged, bucket, mirror, co, rd, faults>>

\* promote_fleet_upload: copy, compare, delete; a staging object that is gone is fine
\* when the final key holds it.  A failure is tried again by the next pass.
PromotionDue(j) == job[j].manifest # Absent /\ ~job[j].promoted
Staging(j) == Object(artifact_staging_key(job[j].attempt, job[j].manifest))

promote_copies(j) ==
    /\ PromotionDue(j) /\ bucket.runs[j] # job[j].manifest
    /\ \E o \in Staging(j) : bucket' = [bucket EXCEPT !.runs[j] = o.body]
    /\ UNCHANGED <<at, cached, staged, mirror, job, co, rd, faults>>

PromotedMatches(j) == fleet_object_matches(bucket.runs[j], job[j].manifest)

promote_deletes(j) ==
    /\ PromotionDue(j) /\ PromotedMatches(j)
    /\ staged' = staged \ Staging(j)
    /\ \/ job' = [job EXCEPT ![j].promoted = TRUE] /\ UNCHANGED faults
       \/ ExchangeFault /\ UNCHANGED job
    /\ UNCHANGED <<at, cached, bucket, mirror, co, rd>>

\* The lease of an attempt runs out: the run is placed again, or fails.  What the
\* attempt had under way goes on.
LoseAttempt(j) ==
    LET k == job[j].attempt[2]
    IN  /\ job[j].status = "running" /\ k < Tries
        /\ job' = [job EXCEPT ![j] = Queue(j, k + 1)]
        /\ at' = Begin(<<j, k + 1>>, StartPc(j))
        /\ UNCHANGED <<cached, staged, bucket, mirror, co, rd, faults>>

-----------------------------------------------------------------------------
(* S3Store.get: the local mirror, or a download into a part file.          *)

get_from(task, j) ==
    \/ /\ mirror.runs[j] # Absent /\ UNCHANGED mirror
       /\ task' = [pc |-> "got", job |-> j, body |-> mirror.runs[j]]
    \/ /\ mirror.runs[j] = Absent /\ bucket.runs[j] # Absent
       /\ mirror' = [mirror EXCEPT !.runs[j] = WhileDownloading(@)]
       /\ task' = [pc |-> "part", job |-> j, body |-> bucket.runs[j]]

rename_part(task) ==
    /\ task.pc = "part"
    /\ \/ mirror' = [mirror EXCEPT !.runs[task.job] = task.body] /\ task' = [task EXCEPT !.pc = "got"]
          /\ UNCHANGED faults
       \/ ExchangeFault /\ UNCHANGED mirror /\ task' = Nobody

-----------------------------------------------------------------------------
(* The coordinator: plan_next_repeat, as part of projecting a terminal.    *)

plan_get(j) ==
    /\ co.pc = "idle" /\ job[j].status = "completed" /\ job[j].promoted /\ ~job[j].projected
    /\ job[j].manifest # Absent
    /\ get_from(co, j)
    /\ UNCHANGED <<at, cached, staged, bucket, job, rd, faults>>

plan_renames == rename_part(co) /\ UNCHANGED <<at, cached, staged, bucket, job, rd>>

\* S3Store.put: the mirror decides; a failed upload is logged.
plan_puts ==
    /\ co.pc = "got" /\ co' = [co EXCEPT !.pc = "append"]
    /\ mirror' = [mirror EXCEPT !.sub = co.body]
    /\ \/ bucket' = [bucket EXCEPT !.sub = co.body] /\ UNCHANGED faults
       \/ ExchangeFault /\ UNCHANGED bucket
    /\ UNCHANGED <<at, cached, staged, job, rd>>

\* The next run is appended once; the terminal is projected unless its report fails.
append_next(j) ==
    /\ co.pc = "append" /\ co.job = j /\ co' = Nobody
    /\ LET appends == j < Runs /\ job[j + 1].status = "absent"
           next == IF appends THEN [job EXCEPT ![j + 1] = Queue(j + 1, 1)] ELSE job
       IN  /\ at' = IF appends THEN Begin(<<j + 1, 1>>, StartPc(j + 1)) ELSE at
           /\ \/ job' = [next EXCEPT ![j].projected = TRUE] /\ UNCHANGED faults
              \/ ExchangeFault /\ job' = next
    /\ UNCHANGED <<cached, staged, bucket, mirror, rd>>

-----------------------------------------------------------------------------
(* The API: cat_artifact.                                                  *)

\* recorded_artifacts: the manifest of the terminal event, promoted or not.
recorded_artifacts(j) == job[j].manifest

cat_artifact_gets(j) ==
    /\ rd.pc \in {"idle", "served"} /\ recorded_artifacts(j) # Absent /\ get_from(rd, j)
    /\ UNCHANGED <<at, cached, staged, bucket, job, co, faults>>

cat_renames == rename_part(rd) /\ UNCHANGED <<at, cached, staged, bucket, job, co>>

cat_artifact_serves ==
    /\ rd.pc = "got"
    /\ rd' = IF Size(rd.body) = Size(recorded_artifacts(rd.job)) THEN [rd EXCEPT !.pc = "served"] ELSE Nobody
    /\ UNCHANGED <<at, cached, staged, bucket, mirror, job, co, faults>>

-----------------------------------------------------------------------------
Promote(j) == promote_copies(j) \/ promote_deletes(j)

ExchangeNext ==
    \/ \E a \in RunAttempts :
         \/ get_cached(a) \/ artifact_grant_get(a) \/ download_opens(a) \/ download_renames(a)
         \/ RunBenchmark(a) \/ artifact_grant_put(a) \/ upload(a) \/ complete(a)
    \/ \E j \in Jobs :
         \/ Promote(j) \/ LoseAttempt(j) \/ plan_get(j) \/ append_next(j) \/ cat_artifact_gets(j)
    \/ plan_renames \/ plan_puts \/ cat_renames \/ cat_artifact_serves

ExchangeSpec == ExchangeInit /\ [][ExchangeNext]_exchangeVars

-----------------------------------------------------------------------------
(* Properties.                                                             *)

\* An accepted result stands on an accepted one: the first run's file holds its own
\* rows, a later one's holds its own beside those of the file of an earlier run.  So
\* the first run's rows are in every file, and those of a lost attempt in none.
ResultsBuildOn ==
    \A j \in Jobs : job[j].manifest # Absent =>
        /\ {job[1].attempt, job[j].attempt} \subseteq job[j].manifest
        /\ job[j].manifest \subseteq {job[i].attempt : i \in 1..j}
        /\ j > 1 => \E i \in 1..(j - 1) :
             job[i].manifest # Absent /\ job[j].manifest = job[i].manifest \cup {job[j].attempt}

\* What the API serves is the accepted attempt's file, whatever a lost attempt of the
\* same run uploads at the same time.
ServesAccepted == rd.pc = "served" => rd.body = job[rd.job].manifest

\* An accepted file is in the staging area or at its final key, through every
\* promotion that fails half way.
AcceptedKept ==
    \A j \in Jobs : job[j].manifest # Absent =>
        \/ bucket.runs[j] = job[j].manifest
        \/ \E o \in Staging(j) : o.body = job[j].manifest

\* An accepted file survives every promotion that fails half way, the API serves no
\* other, and a run's result stands on the accepted result of an earlier run.
FilesAccepted == AcceptedKept /\ ServesAccepted /\ ResultsBuildOn
===============================================================================
