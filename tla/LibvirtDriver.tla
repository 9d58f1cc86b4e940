---------------------------- MODULE LibvirtDriver ----------------------------
(***************************************************************************)
(* One attempt of the libvirt driver on its host: the resources it creates *)
(* command by command, the virtual machines it boots one after the other   *)
(* on the same disks, the poll of their phase journal, the teardown by     *)
(* handle, and the cleanup by name after a crash or a failed teardown.     *)
(*                                                                         *)
(* Every command may fail without effect.  What a guest writes into its    *)
(* journal, and when it powers off or dies, is its own affair.             *)
(***************************************************************************)
EXTENDS Integers, Sequences, FiniteSets

CONSTANTS
    Tasks,        \* the work an attempt may be for: kind, shared, warm and shards
    MaxFailures   \* bound: failing commands and crashes

Loops == {"seed", "checkout"}

\* A shared baseline calibration belongs to a benchmark; a block validation has at
\* least one snapshot (lvm.rs:114).  The binary cache may hold a warm task's build.
ASSUME DriverAssumption ==
    /\ \A t \in Tasks :
         /\ t.kind \in {"benchmark", "build_only", "validation"}
         /\ t.shared \in BOOLEAN /\ t.warm \in BOOLEAN /\ t.shards \subseteq Nat
         /\ t.shared => t.kind = "benchmark"
         /\ t.kind = "validation" => t.shards # {}
    /\ MaxFailures \in Nat

VARIABLES
    task,      \* what this attempt is for
    host,      \* what exists: files, mounts, loop devices, volumes, the domain
    run,       \* the driver, or the cleanup that follows it
    guest,     \* the running machine: its phase script and how far it came
    journal,   \* .phase-log on the results share, appended by every machine
    failures   \* failing commands and crashes so far

driverVars == <<task, host, run, guest, journal, failures>>

DriverInit ==
    /\ task \in Tasks
    /\ host = [dir |-> TRUE, boot |-> FALSE, raw |-> FALSE, ref |-> FALSE, tmpfs |-> FALSE,
               chain |-> FALSE, shards |-> {}, dom |-> "undefined",
               loop |-> [l \in Loops |-> "none"], mounted |-> [l \in Loops |-> FALSE]]
    /\ run = [pc |-> "provision", step |-> "mirror", arts |-> {},
              plan |-> "miss", broken |-> FALSE, phase |-> "none", offset |-> 0, seen |-> FALSE,
              cancelled |-> FALSE, reason |-> "none", verified |-> TRUE, baseline |-> FALSE]
    /\ guest = [phase |-> "none", wrote |-> "nothing"]
    /\ journal = <<>>
    /\ failures = 0

-----------------------------------------------------------------------------
(* Commands.                                                               *)

\* The next command of the program: it works, or it fails without effect.
At(pc, step) == run.pc = pc /\ run.step = step
Works == UNCHANGED failures
Fails == failures < MaxFailures /\ failures' = failures + 1
HostOnly == UNCHANGED <<task, guest, journal>>

Go(step) == [run EXCEPT !.step = step]
Holding(handle, step) == [run EXCEPT !.step = step, !.arts = @ \cup {handle}]

\* Teardown by handle begins with the domain, then comes what it was made of.
Finish(r, reason) == [r EXCEPT !.pc = "teardown", !.step = "destroy", !.reason = reason]

-----------------------------------------------------------------------------
(* Provisioning.                                                           *)

\* The disk being made: a minimal one with the cached binary, or a checkout.
Source == IF run.plan = "hit" THEN "seed" ELSE "checkout"

\* The machines of an attempt, one after the other; "none" after the last.
NextPhase ==
    IF task.kind = "validation" THEN IF run.phase = "none" THEN "validate" ELSE "none"
    ELSE IF run.phase = "none" /\ run.plan = "miss" THEN "build"
    ELSE IF task.kind = "build_only" \/ run.phase = "bench" THEN "none"
    ELSE IF run.phase \in {"none", "build"} /\ task.shared THEN "calibrate"
    ELSE "bench"

\* What is made once the source disk is there.
AfterSource ==
    CASE task.kind = "benchmark"  -> "chainstate"
      [] task.kind = "validation" -> "shard"
      [] OTHER                    -> "tmpfs"

\* A command of the setup that is kept by a handle, or ends the attempt.
Provisioned(step, after, made) ==
    /\ At("provision", step)
    /\ \/ Works /\ run' = after /\ host' = made
       \/ Fails /\ run' = Finish(run, "setup_error") /\ UNCHANGED host
    /\ HostOnly

\* The mirror is shared by the attempts of the host; the reference is this one's.
ensure == Provisioned("mirror", Go("ref"), host)
fetch_sha == Provisioned("ref", Go("plan"), [host EXCEPT !.ref = TRUE])
prepare_git_mirror == ensure \/ fetch_sha

\* The cache is consulted before the source disk is made.
resolve_build_plan ==
    /\ At("provision", "plan")
    /\ \E plan \in IF task.warm THEN {"hit", "miss"} ELSE {"miss"} :
         run' = [run EXCEPT !.plan = plan, !.step = "boot"]
    /\ HostOnly /\ UNCHANGED <<host, failures>>

ProvisionBoot == Provisioned("boot", Holding("boot", "format"), [host EXCEPT !.boot = TRUE])

\* A minimal disk that failed falls back to a checkout; a checkout that failed
\* fails the attempt, and no handle of the disk is kept.
SourceFails ==
    IF run.plan = "hit"
    THEN [run EXCEPT !.plan = "miss", !.broken = FALSE, !.step = "format"]
    ELSE Finish(run, "setup_error")

FormatSource ==
    /\ At("provision", "format")
    /\ \/ Works /\ run' = Go("losetup") /\ host' = [host EXCEPT !.raw = TRUE]
       \/ Fails /\ run' = SourceFails /\ host' \in {host, [host EXCEPT !.raw = TRUE]}
    /\ HostOnly

AttachLoop ==
    /\ At("provision", "losetup")
    /\ \/ Works /\ run' = Go("mount") /\ host' = [host EXCEPT !.loop[Source] = "attached"]
       \/ Fails /\ run' = SourceFails /\ UNCHANGED host
    /\ HostOnly

\* Once mounted, the disk is unmounted whatever happens to its contents; once
\* attached, the loop is detached.
MountSource(l) ==
    /\ At("provision", "mount") /\ Source = l
    /\ \/ Works /\ run' = Go("populate") /\ host' = [host EXCEPT !.mounted[l] = TRUE]
       \/ Fails /\ run' = [run EXCEPT !.broken = TRUE, !.step = "detach"] /\ UNCHANGED host
    /\ HostOnly

mount_and_populate == MountSource("checkout")
mount_and_seed_minimal == MountSource("seed")

FillSource(l) ==
    /\ At("provision", "populate") /\ Source = l
    /\ \/ Works /\ run' = Go("umount")
       \/ Fails /\ run' = [Go("umount") EXCEPT !.broken = TRUE]
    /\ HostOnly /\ UNCHANGED host

populate_checkout == FillSource("checkout")
seed_into_mount == FillSource("seed")

\* Unmounting releases a loop that was detached while still in use.
Unmounted(l) == [host EXCEPT !.mounted[l] = FALSE,
                             !.loop[l] = IF @ = "lazy" THEN "none" ELSE @]

unmount ==
    /\ At("provision", "umount")
    /\ \/ Works /\ run' = Go("detach") /\ host' = Unmounted(Source)
       \/ Fails /\ run' = [Go("detach") EXCEPT !.broken = TRUE] /\ UNCHANGED host
    /\ HostOnly

\* Detaching a loop still mounted succeeds and takes effect at its unmount.
Detached(l) == IF host.mounted[l] THEN "lazy" ELSE "none"

detach_loop ==
    /\ At("provision", "detach")
    /\ \/ /\ Works
          /\ host' = [host EXCEPT !.loop[Source] = Detached(Source)]
          /\ run' = IF run.broken THEN SourceFails ELSE Holding("source", AfterSource)
       \/ Fails /\ run' = SourceFails /\ UNCHANGED host
    /\ HostOnly

ProvisionChainstate ==
    Provisioned("chainstate", Holding("chain", "tmpfs"), [host EXCEPT !.chain = TRUE])

\* The set is one handle: a shard that fails rolls the others back, as far as
\* their removal works, and leaves no handle.
NextShard(k) == k \in task.shards \ host.shards /\ \A j \in task.shards \ host.shards : k <= j
provision_latest ==
    /\ At("provision", "shard")
    /\ \/ /\ Works
          /\ \E k \in task.shards : NextShard(k) /\ host' = [host EXCEPT !.shards = @ \cup {k}]
          /\ run' = IF host'.shards = task.shards THEN Holding("shards", "tmpfs") ELSE run
       \/ \E kept \in SUBSET host.shards :
            /\ failures + 1 + Cardinality(kept) <= MaxFailures
            /\ failures' = failures + 1 + Cardinality(kept)
            /\ host' = [host EXCEPT !.shards = kept]
            /\ run' = Finish(run, "setup_error")
    /\ HostOnly

provision_results_share ==
    Provisioned("tmpfs", Holding("tmpfs", "cidata"), [host EXCEPT !.tmpfs = TRUE])

\* The carried database, the plan and the seed images.  A cache hit of a
\* build-only job has nothing left to run.
provision_artifacts ==
    Provisioned("cidata", IF NextPhase = "none" THEN Finish(run, "done") ELSE Go("define"), host)

-----------------------------------------------------------------------------
(* The machines.                                                           *)

DefineDomain == Provisioned("define", [Holding("domain", "start") EXCEPT !.phase = NextPhase],
                            [host EXCEPT !.dom = "shut_off"])

\* Every phase polls the journal from its beginning.
run_phase ==
    /\ At("provision", "start")
    /\ \/ /\ Works
          /\ host' = [host EXCEPT !.dom = "running"]
          /\ guest' = [phase |-> run.phase, wrote |-> "nothing"]
          /\ run' = [run EXCEPT !.pc = "journal", !.offset = 0, !.seen = FALSE]
       \/ Fails /\ run' = Finish(run, "setup_error") /\ UNCHANGED <<host, guest>>
    /\ UNCHANGED <<task, journal>>

Running == host.dom = "running"

\* The phase script: it starts, then succeeds or dies with an error, and the
\* machine powers off; or it powers off without a word.
GuestWrites ==
    /\ Running /\ guest.wrote \in {"nothing", "starting"}
    /\ \E word \in IF guest.wrote = "nothing" THEN {"starting"} ELSE {"success", "error"} :
         /\ journal' = Append(journal, [phase |-> guest.phase, word |-> word])
         /\ guest' = [guest EXCEPT !.wrote = word]
         /\ run' = [run EXCEPT !.baseline = @ \/ (guest.phase = "calibrate" /\ word = "success")]
    /\ UNCHANGED <<task, host, failures>>

GuestPowersOff ==
    /\ Running
    /\ host' = [host EXCEPT !.dom = "shut_off"]
    /\ UNCHANGED <<task, run, guest, journal, failures>>

\* The build's script says build_done, every other one says done.
is_success_for(phase, entry) ==
    entry.word = "success" /\ (phase = "build") = (entry.phase = "build")

Cancel ==
    /\ run.pc \in {"provision", "journal", "state"} /\ ~run.cancelled
    /\ run' = [run EXCEPT !.cancelled = TRUE]
    /\ UNCHANGED <<task, host, guest, journal, failures>>

\* One turn of the poll reads the journal, and then asks for the domain's state.
PollJournal ==
    LET new == {journal[i] : i \in (run.offset + 1)..Len(journal)}
    IN  /\ run.pc = "journal"
        /\ run' = IF run.cancelled THEN Finish(run, "cancelled")
                  ELSE IF \E e \in new : e.word = "error" THEN Finish(run, "phase_error")
                  ELSE [run EXCEPT !.pc = "state", !.offset = Len(journal),
                          !.seen = @ \/ \E e \in new : is_success_for(run.phase, e)]
        /\ UNCHANGED <<task, host, guest, journal, failures>>

Verdict == IF run.seen THEN "done" ELSE "shut_off"

AfterPhase == IF NextPhase = "none" THEN Finish(run, "done")
              ELSE [run EXCEPT !.pc = "provision", !.step = "define"]

\* A successful build is published before the next phase, if that works; the
\* published binary is all that a build-only job is for.
publish_built_binary ==
    /\ run.phase = "build"
    /\ \/ Works /\ run' = AfterPhase
       \/ Fails /\ run' = IF task.kind = "build_only" THEN Finish(run, "setup_error") ELSE AfterPhase

\* A validation is archived and its result reduced, or the attempt fails.
ReduceValidation ==
    /\ run.phase = "validate"
    /\ \/ Works /\ run' = AfterPhase
       \/ Fails /\ run' = Finish(run, "setup_error")

PhaseDone ==
    \/ publish_built_binary
    \/ ReduceValidation
    \/ run.phase \in {"calibrate", "bench"} /\ Works /\ run' = AfterPhase

PollState ==
    /\ run.pc = "state"
    /\ \/ ~Running /\ Verdict = "done" /\ PhaseDone
       \/ ~Running /\ Verdict # "done" /\ Works /\ run' = Finish(run, Verdict)
       \/ Running /\ Works /\ run' = [run EXCEPT !.pc = "journal"]
       \/ Running /\ Works /\ run' = Finish(run, "timeout")
       \/ Fails /\ run' \in {[run EXCEPT !.pc = "journal"], Finish(run, "timeout")}
    /\ HostOnly /\ UNCHANGED host

-----------------------------------------------------------------------------
(* Teardown by handle.                                                     *)

Has(handle) == handle \in run.arts
Unverified(step) == [Go(step) EXCEPT !.verified = FALSE]
Skip(step) == Works /\ run' = Go(step) /\ UNCHANGED host

\* Without proof that the domain is gone everything it uses is kept.
StopDomain(step, after, dom) ==
    /\ At("teardown", step)
    /\ \/ ~Has("domain") /\ Skip(after)
       \/ Has("domain") /\ Works /\ run' = Go(after) /\ host' = [host EXCEPT !.dom = dom]
       \/ /\ Has("domain") /\ Fails /\ UNCHANGED host
          /\ run' = [run EXCEPT !.pc = "ended", !.verified = FALSE]
    /\ HostOnly

destroy == StopDomain("destroy", "undefine", "shut_off")
undefine == StopDomain("undefine", "umount_tmpfs", "undefined")

Release(step, handle, after, released) ==
    /\ At("teardown", step)
    /\ \/ ~Has(handle) /\ Skip(after)
       \/ Has(handle) /\ Works /\ run' = Go(after) /\ host' = released
       \/ Has(handle) /\ Fails /\ run' = Unverified(after) /\ UNCHANGED host
    /\ HostOnly

UnmountResults == Release("umount_tmpfs", "tmpfs", "chainstate", [host EXCEPT !.tmpfs = FALSE])
RemoveChainstate == Release("chainstate", "chain", "shards", [host EXCEPT !.chain = FALSE])
RemoveShards ==
    \/ Release("shards", "shards", "raw", [host EXCEPT !.shards = {}])
    \/ /\ At("teardown", "shards") /\ Has("shards") /\ Fails
       /\ \E k \in host.shards : host' = [host EXCEPT !.shards = {k}]
       /\ run' = Unverified("raw")
       /\ HostOnly
RemoveSource == Release("raw", "source", "boot", [host EXCEPT !.raw = FALSE])
RemoveBoot == Release("boot", "boot", "prune", [host EXCEPT !.boot = FALSE])

\* The reference is dropped, whether that works or not is not looked at.
prune ==
    /\ At("teardown", "prune") \/ At("cleanup", "prune")
    /\ \/ Works /\ host' = [host EXCEPT !.ref = FALSE]
       \/ Fails /\ UNCHANGED host
    /\ run' = Go("rmdir")
    /\ HostOnly

\* The job directory goes as a whole, unless something under it is mounted; then
\* files beside the mount may be gone already.
Busy == \E l \in Loops : host.mounted[l]
RemovedDir == [host EXCEPT !.dir = FALSE, !.boot = FALSE, !.raw = FALSE]
HalfRemoved == {host, [host EXCEPT !.boot = FALSE, !.raw = FALSE]}

RemoveJobDir ==
    /\ At("teardown", "rmdir")
    /\ \/ ~Busy /\ Works /\ host' = RemovedDir /\ run' = [run EXCEPT !.pc = "ended"]
       \/ /\ (Busy /\ Works) \/ (~Busy /\ Fails)
          /\ host' \in HalfRemoved /\ run' = [run EXCEPT !.pc = "ended", !.verified = FALSE]
    /\ HostOnly

-----------------------------------------------------------------------------
(* Cleanup by name, without handles, until it reports success.             *)

DriverCrash ==
    /\ run.pc \notin {"crashed", "ended", "dirty", "clean"}
    /\ Fails
    /\ run' = [run EXCEPT !.pc = "crashed", !.arts = {}, !.reason = "lost"]
    /\ HostOnly /\ UNCHANGED host

Owed == run.pc \in {"crashed", "dirty"} \/ (run.pc = "ended" /\ ~run.verified)

cleanup_attempt ==
    /\ Owed
    /\ run' = [run EXCEPT !.pc = "cleanup", !.step = "domstate", !.broken = FALSE]
    /\ UNCHANGED <<task, host, guest, journal, failures>>

Outstanding == [run EXCEPT !.pc = "dirty"]

\* An answer that the domain is absent, or its end, comes before anything else.
domstate ==
    /\ At("cleanup", "domstate")
    /\ \/ Works /\ run' = Go(CASE host.dom = "undefined" -> "umount_tmpfs"
                                [] host.dom = "shut_off"  -> "undefine"
                                [] OTHER                  -> "destroy")
       \/ Fails /\ run' = Outstanding
    /\ HostOnly /\ UNCHANGED host

ForceDomain(step, after, dom) ==
    /\ At("cleanup", step)
    /\ \/ Works /\ run' = Go(after) /\ host' = [host EXCEPT !.dom = dom]
       \/ Fails /\ run' = Outstanding /\ UNCHANGED host
    /\ HostOnly

CleanupDomain ==
    \/ domstate
    \/ ForceDomain("destroy", "undefine", "shut_off")
    \/ ForceDomain("undefine", "umount_tmpfs", "undefined")

BestEffort(step, after, done) ==
    /\ At("cleanup", step)
    /\ \/ Works /\ host' = done
       \/ Fails /\ UNCHANGED host
    /\ run' = Go(after)
    /\ HostOnly

Topmost == IF host.mounted["checkout"] THEN "checkout" ELSE "seed"
umount_best_effort ==
    \/ BestEffort("umount_tmpfs", "umount_source", [host EXCEPT !.tmpfs = FALSE])
    \/ BestEffort("umount_source", "losetup_j", Unmounted(Topmost))

CleanupChainstate == BestEffort("lvremove", "prune", [host EXCEPT !.chain = FALSE])

\* Loops are found by their backing file only; a question or a detach that
\* fails keeps that file.
MutUncertain == FALSE
Uncertain == TRUE

detach_source_loop ==
    /\ At("cleanup", "losetup_j")
    /\ \/ /\ Works /\ run' = Go("lvremove")
          /\ host' = IF host.raw
                     THEN [host EXCEPT !.loop = [l \in Loops |->
                             IF @[l] = "none" THEN "none" ELSE Detached(l)]]
                     ELSE host
       \/ /\ Fails /\ run' = [Go("lvremove") EXCEPT !.broken = Uncertain]
          /\ \/ UNCHANGED host
             \/ \E l \in Loops : /\ host.raw /\ host.loop[l] # "none"
                                 /\ host' = [host EXCEPT !.loop[l] = Detached(l)]
    /\ HostOnly

CleanupJobDir ==
    /\ At("cleanup", "rmdir")
    /\ \/ run.broken /\ Works /\ run' = Outstanding /\ UNCHANGED host
       \/ ~run.broken /\ ~Busy /\ Works /\ run' = Go("shards") /\ host' = RemovedDir
       \/ /\ ~run.broken /\ ((Busy /\ Works) \/ (~Busy /\ Fails))
          /\ run' = Go("shards") /\ host' \in HalfRemoved
    /\ HostOnly

cleanup_block_snapshot_set ==
    /\ At("cleanup", "shards")
    /\ \/ Works /\ host' = [host EXCEPT !.shards = {}] /\ run' = [run EXCEPT !.pc = "clean"]
       \/ /\ Fails /\ run' = Outstanding
          /\ \E kept \in SUBSET host.shards : host' = [host EXCEPT !.shards = kept]
    /\ HostOnly

-----------------------------------------------------------------------------
Provision ==
    \/ prepare_git_mirror \/ resolve_build_plan \/ ProvisionBoot \/ FormatSource
    \/ AttachLoop \/ mount_and_populate \/ mount_and_seed_minimal
    \/ populate_checkout \/ seed_into_mount \/ unmount \/ detach_loop
    \/ ProvisionChainstate \/ provision_latest \/ provision_results_share
    \/ provision_artifacts \/ DefineDomain \/ run_phase

Teardown ==
    \/ destroy \/ undefine \/ UnmountResults \/ RemoveChainstate \/ RemoveShards \/ RemoveSource
    \/ RemoveBoot \/ prune \/ RemoveJobDir

Cleanup ==
    \/ cleanup_attempt \/ CleanupDomain \/ umount_best_effort \/ detach_source_loop
    \/ CleanupChainstate \/ CleanupJobDir \/ cleanup_block_snapshot_set

Driver == Provision \/ PollJournal \/ PollState \/ Teardown \/ Cleanup

DriverNext == Driver \/ GuestWrites \/ GuestPowersOff \/ Cancel \/ DriverCrash

DriverSpec == DriverInit /\ [][DriverNext]_driverVars

-----------------------------------------------------------------------------
(* Properties.                                                             *)

\* A domain that is defined keeps everything it is made of: no teardown, cleanup,
\* crash or retry takes a disk, volume or share from under a live machine.
LiveBacking ==
    host.dom # "undefined" =>
        /\ host.boot /\ host.raw /\ host.tmpfs
        /\ task.kind = "benchmark" => host.chain
        /\ task.kind = "validation" => host.shards = task.shards

\* A machine never runs on a source disk that the host has mounted or attached, which
\* would be two writers on one file system (source.rs:85-88).  The exception is what a
\* failed minimal seed could not let go of: the checkout that replaces it formats the
\* same source.raw (source.rs:52, 120) and boots with that loop or mount still there.
NoTwoWriters ==
    host.dom = "running" =>
        \A l \in Loops : host.loop[l] # "none" \/ host.mounted[l] =>
            l = "seed" /\ run.plan = "miss" /\ task.warm

\* A cleanup that reports success has proved the domain absent, every shard
\* removed, and no loop left on a source file that still exists.
CleanupProves ==
    run.pc = "clean" =>
        /\ host.dom = "undefined" /\ host.shards = {}
        /\ host.raw => \A l \in Loops : host.loop[l] # "attached"

\* A teardown that reports success leaves no domain, share, volume, mount or
\* directory behind; shards only when their own roll-back during the setup failed.
VerifiedIsClean ==
    run.pc = "ended" /\ run.verified =>
        /\ host.dom = "undefined" /\ ~host.tmpfs /\ ~host.chain /\ ~host.dir /\ ~Busy
        /\ host.shards # {} => run.reason = "setup_error"

Completed == run.pc = "ended" /\ run.verified /\ run.reason = "done" /\ (task.shared => run.baseline)

\* An attempt completes only when the machine of its last phase said so itself, or,
\* after a calibration, which writes the same word, the one before (driver.rs:1797).
SuccessIsReal ==
    Completed /\ run.phase # "none" =>
        /\ NextPhase = "none"
        /\ \E i \in DOMAIN journal :
             /\ journal[i].word = "success"
             /\ journal[i].phase = run.phase \/ (task.shared /\ journal[i].phase = "calibrate")

\* Whatever command fails and wherever the driver dies, nothing a defined domain is
\* made of is taken from under it, no machine shares its source disk with the host,
\* a cleanup or teardown that reports success has proved what it says, and an
\* attempt completes only when its last machine said so.
MachinesAccounted ==
    LiveBacking /\ NoTwoWriters /\ CleanupProves /\ VerifiedIsClean /\ SuccessIsReal
=============================================================================
