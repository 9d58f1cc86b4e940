------------------------- MODULE LibvirtDriverProofs -------------------------
(***************************************************************************)
(* MachinesAccounted, for any set of tasks, any number of shards and any   *)
(* number of failing commands and crashes.                                 *)
(*                                                                         *)
(* The argument: while the driver lives its handles cover what exists      *)
(* (Handled) and its step tells what has been made (Made); a teardown or   *)
(* cleanup touches what a machine is made of only after the step that      *)
(* proved the domain gone (Ordered).  The host lets go of a source disk    *)
(* before anything that could boot is defined (Sources), and a phase is    *)
(* taken for done only on a word of the journal (Spoken).                  *)
(***************************************************************************)
EXTENDS LibvirtDriver, TLAPS

Early == {"mirror", "ref", "plan", "boot"}
Filling == {"format", "losetup", "mount", "populate", "umount", "detach"}
Late == {"chainstate", "shard", "tmpfs", "cidata", "define", "start"}
Going == {"destroy", "undefine", "umount_tmpfs", "chainstate", "shards", "raw", "boot", "prune",
          "rmdir"}
Clearing == {"domstate", "destroy", "undefine", "umount_tmpfs", "umount_source", "losetup_j",
             "lvremove", "prune", "rmdir", "shards"}
Handles == {"boot", "source", "chain", "shards", "tmpfs", "domain"}
Phases == {"none", "build", "calibrate", "bench", "validate"}

\* The machines a task can have.
TaskPhases ==
    CASE task.kind = "validation" -> {"validate"}
      [] task.kind = "build_only" -> {"build"}
      [] OTHER -> {"build", "bench"} \cup (IF task.shared THEN {"calibrate"} ELSE {})

HostRow == [dir : BOOLEAN, boot : BOOLEAN, raw : BOOLEAN, ref : BOOLEAN, tmpfs : BOOLEAN,
            chain : BOOLEAN, shards : SUBSET Nat, dom : {"undefined", "shut_off", "running"},
            loop : [Loops -> {"none", "attached", "lazy"}], mounted : [Loops -> BOOLEAN]]
RunRow == [pc : {"provision", "journal", "state", "teardown", "ended", "crashed", "cleanup",
                 "dirty", "clean"},
           step : Early \cup Filling \cup Late \cup Going \cup Clearing, arts : SUBSET Handles,
           plan : {"hit", "miss"}, broken : BOOLEAN, phase : Phases, offset : Nat, seen : BOOLEAN,
           cancelled : BOOLEAN, verified : BOOLEAN, baseline : BOOLEAN,
           reason : {"none", "done", "setup_error", "cancelled", "phase_error", "shut_off",
                     "timeout", "lost"}]

Entry == [phase : Phases, word : {"starting", "success", "error"}]

HostTyped == task \in Tasks /\ host \in HostRow /\ host.shards \subseteq task.shards
RunTyped ==
    /\ run \in RunRow /\ journal \in Seq(Entry)
    /\ guest \in [phase : Phases, wrote : {"nothing", "starting", "success", "error"}]

\* While the driver lives, what needs a handle to be removed has one; a set of
\* shards whose roll-back failed is the exception.
Handled ==
    run.pc \in {"provision", "journal", "state", "teardown"} =>
        /\ host.tmpfs => "tmpfs" \in run.arts
        /\ host.chain => "chain" \in run.arts
        /\ host.dom # "undefined" => "domain" \in run.arts
        /\ "domain" \in run.arts =>
             \/ host.dom # "undefined"
             \/ run.pc = "teardown" /\ run.step \notin {"destroy", "undefine"}
        /\ host.shards # {} =>
             \/ "shards" \in run.arts
             \/ run.reason = "setup_error"
             \/ run.pc = "provision" /\ run.step = "shard"

\* What the setup has made when it comes to a step.
Made ==
    /\ run.pc = "provision" =>
         /\ run.step \in Early \cup Filling \cup Late
         /\ run.step \in Filling \cup Late => host.boot
         /\ run.step \in (Filling \ {"format"}) \cup Late => host.raw
         /\ run.step = "chainstate" => task.kind = "benchmark"
         /\ run.step = "shard" => task.kind = "validation"
         /\ run.step \in {"tmpfs", "cidata", "define", "start"} =>
              /\ task.kind = "benchmark" => host.chain
              /\ task.kind = "validation" => host.shards = task.shards
         /\ run.step \in {"cidata", "define", "start"} => host.tmpfs
         /\ host.dom # "running"
         /\ run.step \notin {"define", "start"} => host.dom = "undefined"
         /\ run.step = "start" => host.dom # "undefined"
    /\ run.pc \in {"journal", "state"} => host.dom # "undefined"
    /\ LiveBacking

\* Teardown and cleanup prove the domain gone before they touch anything else.
Ordered ==
    /\ run.pc = "teardown" =>
         /\ run.step \in Going
         /\ run.step \notin {"destroy", "undefine"} => host.dom = "undefined"
         /\ run.step \notin {"destroy", "undefine", "umount_tmpfs"} /\ run.verified => ~host.tmpfs
         /\ run.step \in {"shards", "raw", "boot", "prune", "rmdir"} /\ run.verified => ~host.chain
         /\ run.step \in {"raw", "boot", "prune", "rmdir"} /\ run.verified =>
              (host.shards # {} => run.reason = "setup_error")
    /\ run.pc = "cleanup" =>
         /\ run.step \in Clearing
         /\ run.step \notin {"domstate", "destroy", "undefine"} => host.dom = "undefined"
         /\ run.step \in {"destroy", "undefine"} => host.dom # "undefined"
         /\ run.step = "shards" \/ (run.step \in {"lvremove", "prune", "rmdir"} /\ ~run.broken) =>
              (host.raw => \A l \in Loops : host.loop[l] # "attached")
    /\ VerifiedIsClean /\ CleanupProves

Released(l) == host.loop[l] = "none" /\ ~host.mounted[l]

\* The host's own use of the source disk.
Sources ==
    /\ ~task.warm => run.plan = "miss" /\ Released("seed")
    /\ run.plan = "hit" => Released("checkout")
    /\ run.pc = "provision" =>
         /\ run.step \in Early => Released("seed") /\ Released("checkout")
         /\ run.step = "detach" /\ ~run.broken => ~host.mounted[Source]
    /\ run.pc \in {"journal", "state"} \/ (run.pc = "provision" /\ run.step \in Late) =>
         Released(Source)
    /\ NoTwoWriters

Heard == \E i \in DOMAIN journal : is_success_for(run.phase, journal[i])

\* Only machines of the task write, and a phase is done only when the word was read.
Spoken ==
    /\ \A i \in DOMAIN journal : journal[i].phase \in TaskPhases
    /\ host.dom = "running" => guest.phase \in TaskPhases
    /\ run.pc \in {"provision", "journal", "state"} => run.reason = "none"
    /\ run.phase \in TaskPhases \cup {"none"}
    /\ run.pc = "provision" /\ run.step = "define" => NextPhase # "none"
    /\ run.pc = "provision" /\ run.step \notin {"define", "start"} => run.phase = "none"
    /\ run.pc = "provision" /\ run.step = "start" => run.phase # "none"
    /\ run.pc \in {"journal", "state"} /\ run.seen => Heard
    /\ run.reason = "done" => run.phase = "none" \/ (NextPhase = "none" /\ Heard)

IInv == HostTyped /\ RunTyped /\ Handled /\ Made /\ Ordered /\ Sources /\ Spoken

Moves(r, h) == run' = r /\ host' = h /\ UNCHANGED <<task, guest, journal>>

LEMMA PhaseOfTask ==
  ASSUME HostTyped
  PROVE  /\ NextPhase \in Phases
         /\ NextPhase # "none" => NextPhase \in TaskPhases
<1> USE DriverAssumption DEF HostTyped, NextPhase, TaskPhases, Phases
<1>1. CASE task.kind = "validation"
  BY <1>1
<1>2. CASE task.kind = "build_only"
  BY <1>2
<1>3. CASE task.kind = "benchmark" /\ task.shared
  BY <1>3
<1>4. CASE task.kind = "benchmark" /\ ~task.shared
  BY <1>4
<1> QED
  BY <1>1, <1>2, <1>3, <1>4

-----------------------------------------------------------------------------
(* Provisioning.                                                           *)

\* A failed command of the setup leaves what the handles cover.
LEMMA SetupFails ==
  ASSUME IInv, run.pc = "provision", Moves(Finish(run, "setup_error"), host)
  PROVE  IInv'
<1>1. HostTyped'
  BY DEF IInv, HostTyped, Moves, Finish
<1>2. RunTyped'
  BY DEF IInv, RunTyped, RunRow, Moves, Going, Finish
<1>3. Handled'
  BY DEF IInv, Moves, Handled, Finish
<1>4. Made'
  BY DEF IInv, Moves, Made, LiveBacking, Finish
<1>5. Ordered'
  BY DEF IInv, Moves, Ordered, VerifiedIsClean, CleanupProves, Going, Finish
<1>6. Sources'
  BY DEF IInv, Moves, Sources, NoTwoWriters, Released, Finish
<1>7. Spoken'
  BY DEF IInv, Moves, Spoken, TaskPhases, Finish
<1> QED
  BY <1>1, <1>2, <1>3, <1>4, <1>5, <1>6, <1>7 DEF IInv

\* The mirror is there.
LEMMA Ensured ==
  ASSUME IInv, run.pc = "provision", run.step = "mirror", Moves(Go("ref"), host)
  PROVE  IInv'
<1>1. HostTyped'
  BY DEF IInv, HostTyped, Moves, Go
<1>2. RunTyped'
  BY DEF IInv, RunTyped, RunRow, Moves, Early, Go
<1>3. Handled'
  BY DEF IInv, Moves, Handled, Go
<1>4. Made'
  BY DEF IInv, Moves, Made, LiveBacking, Early, Filling, Late, Go
<1>5. Ordered'
  BY DEF IInv, Moves, Ordered, VerifiedIsClean, CleanupProves, Go
<1>6. Sources'
  BY DEF IInv, Moves, Sources, NoTwoWriters, Released, Source, Early, Go
<1>7. Spoken'
  BY DEF IInv, Moves, Spoken, TaskPhases, Go
<1> QED
  BY <1>1, <1>2, <1>3, <1>4, <1>5, <1>6, <1>7 DEF IInv

\* The reference is made before any disk.
LEMMA Fetched ==
  ASSUME IInv, run.pc = "provision", run.step = "ref",
         Moves(Go("plan"), [host EXCEPT !.ref = TRUE])
  PROVE  IInv'
<1>1. HostTyped'
  BY DEF IInv, HostTyped, HostRow, Moves, Go
<1>2. RunTyped'
  BY DEF IInv, RunTyped, RunRow, Moves, Early, Go
<1>3. Handled'
  BY DEF IInv, Moves, Handled, Go
<1>4. Made'
  BY DEF IInv, Moves, Made, LiveBacking, Early, Filling, Late, Go
<1>5. Ordered'
  BY DEF IInv, Moves, Ordered, VerifiedIsClean, CleanupProves, Go
<1>6. Sources'
  BY DEF IInv, Moves, Sources, NoTwoWriters, Released, Source, Early, Go
<1>7. Spoken'
  BY DEF IInv, Moves, Spoken, TaskPhases, Go
<1> QED
  BY <1>1, <1>2, <1>3, <1>4, <1>5, <1>6, <1>7 DEF IInv

\* Only a warm task finds its binary.
LEMMA Planned ==
  ASSUME IInv, run.pc = "provision", run.step = "plan", NEW p \in {"hit", "miss"},
         p = "hit" => task.warm, Moves([run EXCEPT !.plan = p, !.step = "boot"], host)
  PROVE  IInv'
<1>1. HostTyped'
  BY DEF IInv, HostTyped, Moves
<1>2. RunTyped'
  BY DEF IInv, RunTyped, RunRow, Moves, Going
<1>3. Handled'
  BY DEF IInv, Moves, Handled
<1>4. Made'
  BY DEF IInv, Moves, Made, LiveBacking, Early, Filling, Late
<1>5. Ordered'
  BY DEF IInv, Moves, Ordered, VerifiedIsClean, CleanupProves
<1>6. Sources'
  BY DEF IInv, Moves, Sources, NoTwoWriters, Released, Source, Early
<1>7. Spoken'
  BY DEF IInv, Moves, Spoken, TaskPhases
<1> QED
  BY <1>1, <1>2, <1>3, <1>4, <1>5, <1>6, <1>7 DEF IInv

\* The boot disk.
LEMMA BootMade ==
  ASSUME IInv, run.pc = "provision", run.step = "boot",
         Moves(Holding("boot", "format"), [host EXCEPT !.boot = TRUE])
  PROVE  IInv'
<1>1. HostTyped'
  BY DEF IInv, HostTyped, HostRow, Moves, Holding
<1>2. RunTyped'
  BY DEF IInv, RunTyped, RunRow, Moves, Filling, Handles, Holding
<1>3. Handled'
  BY DEF IInv, Moves, Handled, Holding
<1>4. Made'
  BY DEF IInv, Moves, Made, LiveBacking, Filling, Late, Holding
<1>5. Ordered'
  BY DEF IInv, Moves, Ordered, VerifiedIsClean, CleanupProves, Holding
<1>6. Sources'
  BY DEF IInv, Moves, Sources, NoTwoWriters, Released, Source, Early, Holding
<1>7. Spoken'
  BY DEF IInv, Moves, Spoken, TaskPhases, Holding
<1> QED
  BY <1>1, <1>2, <1>3, <1>4, <1>5, <1>6, <1>7 DEF IInv

\* The source disk, on which nothing is attached yet.
LEMMA Formatted ==
  ASSUME IInv, run.pc = "provision", run.step = "format",
         Moves(Go("losetup"), [host EXCEPT !.raw = TRUE])
  PROVE  IInv'
<1>1. HostTyped'
  BY DEF IInv, HostTyped, HostRow, Moves, Go
<1>2. RunTyped'
  BY DEF IInv, RunTyped, RunRow, Moves, Filling, Go
<1>3. Handled'
  BY DEF IInv, Moves, Handled, Go
<1>4. Made'
  BY DEF IInv, Moves, Made, LiveBacking, Filling, Go
<1>5. Ordered'
  BY DEF IInv, Moves, Ordered, VerifiedIsClean, CleanupProves, Go
<1>6. Sources'
  BY DEF IInv, Moves, Sources, NoTwoWriters, Released, Early, Late, Go
<1>7. Spoken'
  BY DEF IInv, Moves, Spoken, TaskPhases, Go
<1> QED
  BY <1>1, <1>2, <1>3, <1>4, <1>5, <1>6, <1>7 DEF IInv

\* A minimal disk that failed leaves a loop, if any, of the seed only.
LEMMA FallsBack ==
  ASSUME IInv, run.pc = "provision", run.step \in Filling, run.plan = "hit", NEW r \in BOOLEAN,
         host.raw => r,
         Moves([run EXCEPT !.plan = "miss", !.broken = FALSE, !.step = "format"],
               [host EXCEPT !.raw = r])
  PROVE  IInv'
<1>1. HostTyped'
  BY DEF IInv, HostTyped, HostRow, Moves
<1>2. RunTyped'
  BY DEF IInv, RunTyped, RunRow, Moves, Filling
<1>3. Handled'
  BY DEF IInv, Moves, Handled, Filling
<1>4. Made'
  BY DEF IInv, Moves, Made, LiveBacking, Filling
<1>5. Ordered'
  BY DEF IInv, Moves, Ordered, VerifiedIsClean, CleanupProves
<1>6. Sources'
  BY DEF IInv, Moves, Sources, NoTwoWriters, Released, Source, Early
<1>7. Spoken'
  BY DEF IInv, Moves, Spoken, TaskPhases, Filling
<1> QED
  BY <1>1, <1>2, <1>3, <1>4, <1>5, <1>6, <1>7 DEF IInv

\* The same, its loop detached on the way.
LEMMA LoopLost ==
  ASSUME IInv, run.pc = "provision", run.step = "detach", run.plan = "hit",
         Moves([run EXCEPT !.plan = "miss", !.broken = FALSE, !.step = "format"],
               [host EXCEPT !.loop["seed"] = Detached("seed")])
  PROVE  IInv'
<1>1. HostTyped'
  BY DEF IInv, HostTyped, HostRow, Moves, Detached
<1>2. RunTyped'
  BY DEF IInv, RunTyped, RunRow, Moves, Filling, Detached
<1>3. Handled'
  BY DEF IInv, Moves, Handled, Detached
<1>4. Made'
  BY DEF IInv, Moves, Made, LiveBacking, Filling, Detached
<1>5. Ordered'
  BY DEF IInv, Moves, Ordered, VerifiedIsClean, CleanupProves, Detached
<1>6. Sources'
  BY DEF IInv, Moves, Sources, NoTwoWriters, Released, Source, Early, Detached
<1>7. Spoken'
  BY DEF IInv, Moves, Spoken, TaskPhases, Detached
<1> QED
  BY <1>1, <1>2, <1>3, <1>4, <1>5, <1>6, <1>7 DEF IInv

\* A format that failed half-way leaves a file without a handle.
LEMMA HalfFormatted ==
  ASSUME IInv, run.pc = "provision", run.step = "format",
         Moves(Finish(run, "setup_error"), [host EXCEPT !.raw = TRUE])
  PROVE  IInv'
<1>1. HostTyped'
  BY DEF IInv, HostTyped, HostRow, Moves, Finish
<1>2. RunTyped'
  BY DEF IInv, RunTyped, RunRow, Moves, Going, Finish
<1>3. Handled'
  BY DEF IInv, Moves, Handled, Finish
<1>4. Made'
  BY DEF IInv, Moves, Made, LiveBacking, Finish
<1>5. Ordered'
  BY DEF IInv, Moves, Ordered, VerifiedIsClean, CleanupProves, Going, Finish
<1>6. Sources'
  BY DEF IInv, Moves, Sources, NoTwoWriters, Released, Finish
<1>7. Spoken'
  BY DEF IInv, Moves, Spoken, TaskPhases, Finish
<1> QED
  BY <1>1, <1>2, <1>3, <1>4, <1>5, <1>6, <1>7 DEF IInv

\* A checkout that failed detaches its loop before the end.
LEMMA CheckoutLost ==
  ASSUME IInv, run.pc = "provision", run.step = "detach", run.plan = "miss",
         Moves(Finish(run, "setup_error"),
               [host EXCEPT !.loop["checkout"] = Detached("checkout")])
  PROVE  IInv'
<1>1. HostTyped'
  BY DEF IInv, HostTyped, HostRow, Moves, Finish, Detached
<1>2. RunTyped'
  BY DEF IInv, RunTyped, RunRow, Moves, Going, Finish, Detached
<1>3. Handled'
  BY DEF IInv, Moves, Handled, Finish, Detached
<1>4. Made'
  BY DEF IInv, Moves, Made, LiveBacking, Finish, Detached
<1>5. Ordered'
  BY DEF IInv, Moves, Ordered, VerifiedIsClean, CleanupProves, Going, Finish, Detached
<1>6. Sources'
  BY DEF IInv, Moves, Sources, NoTwoWriters, Released, Finish, Detached
<1>7. Spoken'
  BY DEF IInv, Moves, Spoken, TaskPhases, Finish, Detached
<1> QED
  BY <1>1, <1>2, <1>3, <1>4, <1>5, <1>6, <1>7 DEF IInv

\* The loop of the source disk.
LEMMA Attached ==
  ASSUME IInv, run.pc = "provision", run.step = "losetup",
         Moves(Go("mount"), [host EXCEPT !.loop[Source] = "attached"])
  PROVE  IInv'
<1>1. HostTyped'
  BY DEF IInv, HostTyped, HostRow, Moves, Go
<1>2. RunTyped'
  BY DEF IInv, RunTyped, RunRow, Moves, Filling, Go
<1>3. Handled'
  BY DEF IInv, Moves, Handled, Go
<1>4. Made'
  BY DEF IInv, Moves, Made, LiveBacking, Filling, Go
<1>5. Ordered'
  BY DEF IInv, Moves, Ordered, VerifiedIsClean, CleanupProves, Go
<1>6. Sources'
  BY DEF IInv, Moves, Sources, NoTwoWriters, Released, Source, Early, Late, Made, Go
<1>7. Spoken'
  BY DEF IInv, Moves, Spoken, TaskPhases, Go
<1> QED
  BY <1>1, <1>2, <1>3, <1>4, <1>5, <1>6, <1>7 DEF IInv

\* Its mount.
LEMMA Mounts ==
  ASSUME IInv, run.pc = "provision", run.step = "mount",
         Moves(Go("populate"), [host EXCEPT !.mounted[Source] = TRUE])
  PROVE  IInv'
<1>1. HostTyped'
  BY DEF IInv, HostTyped, HostRow, Moves, Go
<1>2. RunTyped'
  BY DEF IInv, RunTyped, RunRow, Moves, Filling, Go
<1>3. Handled'
  BY DEF IInv, Moves, Handled, Go
<1>4. Made'
  BY DEF IInv, Moves, Made, LiveBacking, Filling, Go
<1>5. Ordered'
  BY DEF IInv, Moves, Ordered, VerifiedIsClean, CleanupProves, Go
<1>6. Sources'
  BY DEF IInv, Moves, Sources, NoTwoWriters, Released, Source, Early, Late, Made, Go
<1>7. Spoken'
  BY DEF IInv, Moves, Spoken, TaskPhases, Go
<1> QED
  BY <1>1, <1>2, <1>3, <1>4, <1>5, <1>6, <1>7 DEF IInv

\* Without a mount the loop alone is detached.
LEMMA MountFails ==
  ASSUME IInv, run.pc = "provision", run.step = "mount",
         Moves([run EXCEPT !.broken = TRUE, !.step = "detach"], host)
  PROVE  IInv'
<1>1. HostTyped'
  BY DEF IInv, HostTyped, Moves
<1>2. RunTyped'
  BY DEF IInv, RunTyped, RunRow, Moves, Filling
<1>3. Handled'
  BY DEF IInv, Moves, Handled
<1>4. Made'
  BY DEF IInv, Moves, Made, LiveBacking, Filling
<1>5. Ordered'
  BY DEF IInv, Moves, Ordered, VerifiedIsClean, CleanupProves
<1>6. Sources'
  BY DEF IInv, Moves, Sources, NoTwoWriters, Released, Early, Late
<1>7. Spoken'
  BY DEF IInv, Moves, Spoken, TaskPhases
<1> QED
  BY <1>1, <1>2, <1>3, <1>4, <1>5, <1>6, <1>7 DEF IInv

\* The contents.
LEMMA Fills ==
  ASSUME IInv, run.pc = "provision", run.step = "populate", Moves(Go("umount"), host)
  PROVE  IInv'
<1>1. HostTyped'
  BY DEF IInv, HostTyped, Moves, Go
<1>2. RunTyped'
  BY DEF IInv, RunTyped, RunRow, Moves, Filling, Go
<1>3. Handled'
  BY DEF IInv, Moves, Handled, Go
<1>4. Made'
  BY DEF IInv, Moves, Made, LiveBacking, Filling, Go
<1>5. Ordered'
  BY DEF IInv, Moves, Ordered, VerifiedIsClean, CleanupProves, Go
<1>6. Sources'
  BY DEF IInv, Moves, Sources, NoTwoWriters, Released, Early, Late, Go
<1>7. Spoken'
  BY DEF IInv, Moves, Spoken, TaskPhases, Go
<1> QED
  BY <1>1, <1>2, <1>3, <1>4, <1>5, <1>6, <1>7 DEF IInv

\* Contents that failed are noted, and the disk is unmounted all the same.
LEMMA FillFails ==
  ASSUME IInv, run.pc = "provision", run.step = "populate",
         Moves([Go("umount") EXCEPT !.broken = TRUE], host)
  PROVE  IInv'
<1>1. HostTyped'
  BY DEF IInv, HostTyped, Moves, Go
<1>2. RunTyped'
  BY DEF IInv, RunTyped, RunRow, Moves, Filling, Go
<1>3. Handled'
  BY DEF IInv, Moves, Handled, Go
<1>4. Made'
  BY DEF IInv, Moves, Made, LiveBacking, Filling, Go
<1>5. Ordered'
  BY DEF IInv, Moves, Ordered, VerifiedIsClean, CleanupProves, Go
<1>6. Sources'
  BY DEF IInv, Moves, Sources, NoTwoWriters, Released, Early, Late, Go
<1>7. Spoken'
  BY DEF IInv, Moves, Spoken, TaskPhases, Go
<1> QED
  BY <1>1, <1>2, <1>3, <1>4, <1>5, <1>6, <1>7 DEF IInv

\* The mount is gone before the loop is.
LEMMA Unmounts ==
  ASSUME IInv, run.pc = "provision", run.step = "umount",
         Moves(Go("detach"), Unmounted(Source))
  PROVE  IInv'
<1>1. HostTyped'
  BY DEF IInv, HostTyped, HostRow, Moves, Go, Unmounted
<1>2. RunTyped'
  BY DEF IInv, RunTyped, RunRow, Moves, Filling, Go, Unmounted
<1>3. Handled'
  BY DEF IInv, Moves, Handled, Go, Unmounted
<1>4. Made'
  BY DEF IInv, Moves, Made, LiveBacking, Filling, Go, Unmounted
<1>5. Ordered'
  BY DEF IInv, Moves, Ordered, VerifiedIsClean, CleanupProves, Go, Unmounted
<1>6. Sources'
   BY DEF IInv, HostTyped, HostRow, Moves, Sources, NoTwoWriters, Released, Source, Early, Late,
     Loops, Go, Unmounted
<1>7. Spoken'
  BY DEF IInv, Moves, Spoken, TaskPhases, Go, Unmounted
<1> QED
  BY <1>1, <1>2, <1>3, <1>4, <1>5, <1>6, <1>7 DEF IInv

\* A mount that stays is noted.
LEMMA UnmountFails ==
  ASSUME IInv, run.pc = "provision", run.step = "umount",
         Moves([Go("detach") EXCEPT !.broken = TRUE], host)
  PROVE  IInv'
<1>1. HostTyped'
  BY DEF IInv, HostTyped, Moves, Go
<1>2. RunTyped'
  BY DEF IInv, RunTyped, RunRow, Moves, Filling, Go
<1>3. Handled'
  BY DEF IInv, Moves, Handled, Go
<1>4. Made'
  BY DEF IInv, Moves, Made, LiveBacking, Filling, Go
<1>5. Ordered'
  BY DEF IInv, Moves, Ordered, VerifiedIsClean, CleanupProves, Go
<1>6. Sources'
  BY DEF IInv, Moves, Sources, NoTwoWriters, Released, Early, Late, Go
<1>7. Spoken'
  BY DEF IInv, Moves, Spoken, TaskPhases, Go
<1> QED
  BY <1>1, <1>2, <1>3, <1>4, <1>5, <1>6, <1>7 DEF IInv

\* Unmounted and detached, the source disk is the machine's alone.
LEMMA Detaches ==
  ASSUME IInv, run.pc = "provision", run.step = "detach", ~run.broken,
         Moves(Holding("source", AfterSource), [host EXCEPT !.loop[Source] = Detached(Source)])
  PROVE  IInv'
<1>1. HostTyped'
  BY DEF IInv, HostTyped, HostRow, Moves, Holding, AfterSource, Detached
<1>2. RunTyped'
  BY DEF IInv, RunTyped, RunRow, Moves, Late, Handles, Holding, AfterSource, Detached
<1>3. Handled'
  BY DEF IInv, Moves, Handled, Holding, AfterSource, Detached
<1>4. Made'
  BY DEF IInv, Moves, Made, LiveBacking, Filling, Late, Holding, AfterSource, Detached
<1>5. Ordered'
  BY DEF IInv, Moves, Ordered, VerifiedIsClean, CleanupProves, Holding, AfterSource, Detached
<1>6. Sources'
   BY DEF IInv, HostTyped, HostRow, Moves, Sources, NoTwoWriters, Released, Source, Early, Loops,
     Holding, AfterSource, Detached
<1>7. Spoken'
  BY DEF IInv, Moves, Spoken, TaskPhases, Holding, AfterSource, Detached
<1> QED
  BY <1>1, <1>2, <1>3, <1>4, <1>5, <1>6, <1>7 DEF IInv

\* The chainstate volume of a benchmark.
LEMMA ChainMade ==
  ASSUME IInv, run.pc = "provision", run.step = "chainstate",
         Moves(Holding("chain", "tmpfs"), [host EXCEPT !.chain = TRUE])
  PROVE  IInv'
<1>1. HostTyped'
  BY DEF IInv, HostTyped, HostRow, Moves, Holding
<1>2. RunTyped'
  BY DEF IInv, RunTyped, RunRow, Moves, Late, Handles, Holding
<1>3. Handled'
  BY DEF IInv, Moves, Handled, Holding
<1>4. Made'
  BY DEF IInv, Moves, Made, LiveBacking, Late, Holding
<1>5. Ordered'
  BY DEF IInv, Moves, Ordered, VerifiedIsClean, CleanupProves, Holding
<1>6. Sources'
  BY DEF IInv, Moves, Sources, NoTwoWriters, Released, Source, Early, Late, Holding
<1>7. Spoken'
  BY DEF IInv, Moves, Spoken, TaskPhases, Holding
<1> QED
  BY <1>1, <1>2, <1>3, <1>4, <1>5, <1>6, <1>7 DEF IInv

\* One more shard of a validation.
LEMMA ShardMade ==
  ASSUME IInv, run.pc = "provision", run.step = "shard", NEW k \in task.shards,
         Moves(run, [host EXCEPT !.shards = @ \cup {k}])
  PROVE  IInv'
<1>1. HostTyped'
  BY DriverAssumption DEF IInv, HostTyped, HostRow, Moves
<1>2. RunTyped'
  BY DEF IInv, RunTyped, Moves
<1>3. Handled'
  BY DEF IInv, Moves, Handled
<1>4. Made'
  BY DEF IInv, Moves, Made, LiveBacking
<1>5. Ordered'
  BY DEF IInv, Moves, Ordered, VerifiedIsClean, CleanupProves
<1>6. Sources'
  BY DEF IInv, Moves, Sources, NoTwoWriters, Released, Source
<1>7. Spoken'
  BY DEF IInv, Moves, Spoken, TaskPhases
<1> QED
  BY <1>1, <1>2, <1>3, <1>4, <1>5, <1>6, <1>7 DEF IInv

\* The last shard makes the set a handle.
LEMMA ShardsMade ==
  ASSUME IInv, run.pc = "provision", run.step = "shard", NEW k \in task.shards,
         host.shards \cup {k} = task.shards,
         Moves(Holding("shards", "tmpfs"), [host EXCEPT !.shards = @ \cup {k}])
  PROVE  IInv'
<1>1. HostTyped'
  BY DriverAssumption DEF IInv, HostTyped, HostRow, Moves, Holding
<1>2. RunTyped'
  BY DEF IInv, RunTyped, RunRow, Moves, Late, Handles, Holding
<1>3. Handled'
  BY DEF IInv, Moves, Handled, Holding
<1>4. Made'
  BY DEF IInv, Moves, Made, LiveBacking, Late, Holding
<1>5. Ordered'
  BY DEF IInv, Moves, Ordered, VerifiedIsClean, CleanupProves, Holding
<1>6. Sources'
  BY DEF IInv, Moves, Sources, NoTwoWriters, Released, Source, Early, Late, Holding
<1>7. Spoken'
  BY DEF IInv, Moves, Spoken, TaskPhases, Holding
<1> QED
  BY <1>1, <1>2, <1>3, <1>4, <1>5, <1>6, <1>7 DEF IInv

\* Shards whose roll-back failed have none.
LEMMA ShardsFail ==
  ASSUME IInv, run.pc = "provision", run.step = "shard", NEW kept \in SUBSET host.shards,
         Moves(Finish(run, "setup_error"), [host EXCEPT !.shards = kept])
  PROVE  IInv'
<1>1. HostTyped'
  BY DEF IInv, HostTyped, HostRow, Moves, Finish
<1>2. RunTyped'
  BY DEF IInv, RunTyped, RunRow, Moves, Going, Finish
<1>3. Handled'
  BY DEF IInv, Moves, Handled, Finish
<1>4. Made'
  BY DEF IInv, Moves, Made, LiveBacking, Finish
<1>5. Ordered'
  BY DEF IInv, Moves, Ordered, VerifiedIsClean, CleanupProves, Going, Finish
<1>6. Sources'
  BY DEF IInv, Moves, Sources, NoTwoWriters, Released, Finish
<1>7. Spoken'
  BY DEF IInv, Moves, Spoken, TaskPhases, Finish
<1> QED
  BY <1>1, <1>2, <1>3, <1>4, <1>5, <1>6, <1>7 DEF IInv

\* The results share.
LEMMA TmpfsMade ==
  ASSUME IInv, run.pc = "provision", run.step = "tmpfs",
         Moves(Holding("tmpfs", "cidata"), [host EXCEPT !.tmpfs = TRUE])
  PROVE  IInv'
<1>1. HostTyped'
  BY DEF IInv, HostTyped, HostRow, Moves, Holding
<1>2. RunTyped'
  BY DEF IInv, RunTyped, RunRow, Moves, Late, Handles, Holding
<1>3. Handled'
  BY DEF IInv, Moves, Handled, Holding
<1>4. Made'
  BY DEF IInv, Moves, Made, LiveBacking, Late, Holding
<1>5. Ordered'
  BY DEF IInv, Moves, Ordered, VerifiedIsClean, CleanupProves, Holding
<1>6. Sources'
  BY DEF IInv, Moves, Sources, NoTwoWriters, Released, Source, Early, Late, Holding
<1>7. Spoken'
  BY DEF IInv, Moves, Spoken, TaskPhases, Holding
<1> QED
  BY <1>1, <1>2, <1>3, <1>4, <1>5, <1>6, <1>7 DEF IInv

\* A cached build leaves nothing to run.
LEMMA NothingToRun ==
  ASSUME IInv, run.pc = "provision", run.step = "cidata", NextPhase = "none",
         Moves(Finish(run, "done"), host)
  PROVE  IInv'
<1>1. HostTyped'
  BY DEF IInv, HostTyped, Moves, Finish
<1>2. RunTyped'
  BY DEF IInv, RunTyped, RunRow, Moves, Going, Finish
<1>3. Handled'
  BY DEF IInv, Moves, Handled, Spoken, Finish
<1>4. Made'
  BY DEF IInv, Moves, Made, LiveBacking, Finish
<1>5. Ordered'
  BY DEF IInv, Moves, Ordered, VerifiedIsClean, CleanupProves, Going, Finish
<1>6. Sources'
  BY DEF IInv, Moves, Sources, NoTwoWriters, Released, Finish
<1>7. Spoken'
  BY DEF IInv, Moves, Spoken, TaskPhases, Finish
<1> QED
  BY <1>1, <1>2, <1>3, <1>4, <1>5, <1>6, <1>7 DEF IInv

\* All a machine needs is there.
LEMMA Seeded ==
  ASSUME IInv, run.pc = "provision", run.step = "cidata", NextPhase # "none",
         Moves(Go("define"), host)
  PROVE  IInv'
<1>1. HostTyped'
  BY DEF IInv, HostTyped, Moves, Go
<1>2. RunTyped'
  BY DEF IInv, RunTyped, RunRow, Moves, Late, Go
<1>3. Handled'
  BY DEF IInv, Moves, Handled, Go
<1>4. Made'
  BY DEF IInv, Moves, Made, LiveBacking, Late, Go
<1>5. Ordered'
  BY DEF IInv, Moves, Ordered, VerifiedIsClean, CleanupProves, Go
<1>6. Sources'
  BY DEF IInv, Moves, Sources, NoTwoWriters, Released, Source, Early, Late, Go
<1>7. Spoken'
  BY DEF IInv, Moves, Spoken, NextPhase, TaskPhases, Go
<1> QED
  BY <1>1, <1>2, <1>3, <1>4, <1>5, <1>6, <1>7 DEF IInv

\* The next machine of the task.
LEMMA Defined ==
  ASSUME IInv, run.pc = "provision", run.step = "define",
         Moves([Holding("domain", "start") EXCEPT !.phase = NextPhase],
               [host EXCEPT !.dom = "shut_off"])
  PROVE  IInv'
<1>0. TaskPhases' = TaskPhases
  BY DEF Moves, TaskPhases
<1>1. HostTyped'
  BY DEF IInv, HostTyped, HostRow, Moves, Holding
<1>2. RunTyped'
  BY PhaseOfTask DEF IInv, RunTyped, RunRow, Moves, Holding, Late, Handles
<1>3. Handled'
  BY DEF IInv, Moves, Handled, Holding
<1>4. Made'
  BY DEF IInv, Moves, Made, LiveBacking, Late, Holding
<1>5. Ordered'
  BY DEF IInv, Moves, Ordered, VerifiedIsClean, CleanupProves, Holding
<1>6. Sources'
  BY DEF IInv, Moves, Sources, NoTwoWriters, Released, Source, Early, Late, Holding
<1>7. Spoken'
  BY <1>0, PhaseOfTask DEF IInv, Moves, Holding, Spoken
<1> QED
  BY <1>1, <1>2, <1>3, <1>4, <1>5, <1>6, <1>7 DEF IInv

-----------------------------------------------------------------------------
(* The end of a phase.                                                     *)

\* A phase that does not succeed ends the attempt.
LEMMA Ends ==
  ASSUME IInv, run.pc \in {"journal", "state"},
         NEW reason \in {"setup_error", "cancelled", "phase_error", "shut_off", "timeout"},
         Moves(Finish(run, reason), host)
  PROVE  IInv'
<1>1. HostTyped'
  BY DEF IInv, HostTyped, Moves, Finish
<1>2. RunTyped'
  BY DEF IInv, RunTyped, RunRow, Moves, Going, Finish
<1>3. Handled'
  BY DEF IInv, Moves, Handled, Spoken, Finish
<1>4. Made'
  BY DEF IInv, Moves, Made, LiveBacking, Finish
<1>5. Ordered'
  BY DEF IInv, Moves, Ordered, VerifiedIsClean, CleanupProves, Going, Finish
<1>6. Sources'
  BY DEF IInv, Moves, Sources, NoTwoWriters, Released, Finish
<1>7. Spoken'
  BY DEF IInv, Moves, Spoken, TaskPhases, Finish
<1> QED
  BY <1>1, <1>2, <1>3, <1>4, <1>5, <1>6, <1>7 DEF IInv

\* The last phase, whose word was read.
LEMMA Completes ==
  ASSUME IInv, run.pc = "state", run.seen, NextPhase = "none", Moves(Finish(run, "done"), host)
  PROVE  IInv'
<1>1. HostTyped'
  BY DEF IInv, HostTyped, Moves, Finish
<1>2. RunTyped'
  BY DEF IInv, RunTyped, RunRow, Moves, Going, Finish
<1>3. Handled'
  BY DEF IInv, Moves, Handled, Spoken, Finish
<1>4. Made'
  BY DEF IInv, Moves, Made, LiveBacking, Finish
<1>5. Ordered'
  BY DEF IInv, Moves, Ordered, VerifiedIsClean, CleanupProves, Going, Finish
<1>6. Sources'
  BY DEF IInv, Moves, Sources, NoTwoWriters, Released, Finish
<1>7. Spoken'
  BY DEF IInv, Moves, Spoken, Heard, NextPhase, TaskPhases, Finish
<1> QED
  BY <1>1, <1>2, <1>3, <1>4, <1>5, <1>6, <1>7 DEF IInv

\* The next phase finds what the last one ran on.
LEMMA Continues ==
  ASSUME IInv, run.pc = "state", ~Running, NextPhase # "none",
         Moves([run EXCEPT !.pc = "provision", !.step = "define"], host)
  PROVE  IInv'
<1>1. HostTyped'
  BY DEF IInv, HostTyped, Moves, Running
<1>2. RunTyped'
  BY DEF IInv, RunTyped, RunRow, Moves, Late, Running
<1>3. Handled'
  BY DEF IInv, Moves, Handled, Running
<1>4. Made'
  BY DEF IInv, Moves, Made, LiveBacking, Late, Running
<1>5. Ordered'
  BY DEF IInv, Moves, Ordered, VerifiedIsClean, CleanupProves, Running
<1>6. Sources'
  BY DEF IInv, Moves, Sources, NoTwoWriters, Released, Source, Early, Running
<1>7. Spoken'
  BY DEF IInv, Moves, Spoken, NextPhase, TaskPhases, Running
<1> QED
  BY <1>1, <1>2, <1>3, <1>4, <1>5, <1>6, <1>7 DEF IInv

\* Another turn of the poll.
LEMMA PollsAgain ==
  ASSUME IInv, run.pc = "state", Moves([run EXCEPT !.pc = "journal"], host)
  PROVE  IInv'
<1>1. HostTyped'
  BY DEF IInv, HostTyped, Moves
<1>2. RunTyped'
  BY DEF IInv, RunTyped, RunRow, Moves
<1>3. Handled'
  BY DEF IInv, Moves, Handled
<1>4. Made'
  BY DEF IInv, Moves, Made, LiveBacking
<1>5. Ordered'
  BY DEF IInv, Moves, Ordered, VerifiedIsClean, CleanupProves
<1>6. Sources'
  BY DEF IInv, Moves, Sources, NoTwoWriters, Released, Source
<1>7. Spoken'
  BY DEF IInv, Moves, Spoken, Heard, TaskPhases
<1> QED
  BY <1>1, <1>2, <1>3, <1>4, <1>5, <1>6, <1>7 DEF IInv

\* Nothing new that counts.
LEMMA JournalRead ==
  ASSUME IInv, run.pc = "journal",
         Moves([run EXCEPT !.pc = "state", !.offset = Len(journal), !.seen = FALSE], host)
  PROVE  IInv'
<1>0. Len(journal) \in Nat
  BY DEF IInv, RunTyped
<1>1. HostTyped'
  BY DEF IInv, HostTyped, Moves
<1>2. RunTyped'
  BY <1>0 DEF IInv, RunTyped, RunRow, Moves
<1>3. Handled'
  BY DEF IInv, Moves, Handled
<1>4. Made'
  BY DEF IInv, Moves, Made, LiveBacking
<1>5. Ordered'
  BY DEF IInv, Moves, Ordered, VerifiedIsClean, CleanupProves
<1>6. Sources'
  BY DEF IInv, Moves, Sources, NoTwoWriters, Released, Source
<1>7. Spoken'
  BY DEF IInv, Moves, Spoken, TaskPhases
<1> QED
  BY <1>1, <1>2, <1>3, <1>4, <1>5, <1>6, <1>7 DEF IInv

\* A word that counts.
LEMMA SuccessRead ==
  ASSUME IInv, run.pc = "journal", run.seen \/ Heard,
         Moves([run EXCEPT !.pc = "state", !.offset = Len(journal), !.seen = TRUE], host)
  PROVE  IInv'
<1>0. Len(journal) \in Nat
  BY DEF IInv, RunTyped
<1>1. HostTyped'
  BY DEF IInv, HostTyped, Moves
<1>2. RunTyped'
  BY <1>0 DEF IInv, RunTyped, RunRow, Moves
<1>3. Handled'
  BY DEF IInv, Moves, Handled
<1>4. Made'
  BY DEF IInv, Moves, Made, LiveBacking
<1>5. Ordered'
  BY DEF IInv, Moves, Ordered, VerifiedIsClean, CleanupProves
<1>6. Sources'
  BY DEF IInv, Moves, Sources, NoTwoWriters, Released, Source
<1>7. Spoken'
  BY DEF IInv, Moves, Spoken, Heard, TaskPhases
<1> QED
  BY <1>1, <1>2, <1>3, <1>4, <1>5, <1>6, <1>7 DEF IInv

-----------------------------------------------------------------------------
(* Teardown by handle.                                                     *)

\* The domain is stopped.
LEMMA Destroyed ==
  ASSUME IInv, run.pc = "teardown", run.step = "destroy",
         NEW h \in {host, [host EXCEPT !.dom = "shut_off"]}, h # host => "domain" \in run.arts,
         "domain" \notin run.arts => h = host, Moves(Go("undefine"), h)
  PROVE  IInv'
<1>1. HostTyped'
  BY DEF IInv, HostTyped, HostRow, Moves, Go
<1>2. RunTyped'
  BY DEF IInv, RunTyped, RunRow, Moves, Going, Go
<1>3. Handled'
  BY DEF IInv, HostTyped, HostRow, Moves, Handled, Go
<1>4. Made'
  BY DEF IInv, HostTyped, HostRow, Moves, Made, LiveBacking, Handled, Go
<1>5. Ordered'
  BY DEF IInv, Moves, Ordered, VerifiedIsClean, CleanupProves, Going, Go
<1>6. Sources'
  BY DEF IInv, HostTyped, HostRow, Moves, Sources, NoTwoWriters, Released, Go
<1>7. Spoken'
  BY DEF IInv, HostTyped, HostRow, Moves, Spoken, Heard, NextPhase, TaskPhases, Go
<1> QED
  BY <1>1, <1>2, <1>3, <1>4, <1>5, <1>6, <1>7 DEF IInv

\* No handle, no domain.
LEMMA UndefineSkipped ==
  ASSUME IInv, run.pc = "teardown", run.step = "undefine", "domain" \notin run.arts,
         Moves(Go("umount_tmpfs"), host)
  PROVE  IInv'
<1>1. HostTyped'
  BY DEF IInv, HostTyped, Moves, Go
<1>2. RunTyped'
  BY DEF IInv, RunTyped, RunRow, Moves, Going, Go
<1>3. Handled'
  BY DEF IInv, Moves, Handled, Go
<1>4. Made'
  BY DEF IInv, Moves, Made, LiveBacking, Go
<1>5. Ordered'
  BY DEF IInv, Moves, Ordered, VerifiedIsClean, CleanupProves, Going, Handled, Go
<1>6. Sources'
  BY DEF IInv, Moves, Sources, NoTwoWriters, Released, Go
<1>7. Spoken'
  BY DEF IInv, Moves, Spoken, Heard, NextPhase, TaskPhases, Go
<1> QED
  BY <1>1, <1>2, <1>3, <1>4, <1>5, <1>6, <1>7 DEF IInv

\* The domain is gone.
LEMMA Undefined ==
  ASSUME IInv, run.pc = "teardown", run.step = "undefine",
         Moves(Go("umount_tmpfs"), [host EXCEPT !.dom = "undefined"])
  PROVE  IInv'
<1>1. HostTyped'
  BY DEF IInv, HostTyped, HostRow, Moves, Go
<1>2. RunTyped'
  BY DEF IInv, RunTyped, RunRow, Moves, Going, Go
<1>3. Handled'
  BY DEF IInv, Moves, Handled, Go
<1>4. Made'
  BY DEF IInv, Moves, Made, LiveBacking, Go
<1>5. Ordered'
  BY DEF IInv, Moves, Ordered, VerifiedIsClean, CleanupProves, Going, Go
<1>6. Sources'
  BY DEF IInv, Moves, Sources, NoTwoWriters, Released, Go
<1>7. Spoken'
  BY DEF IInv, Moves, Spoken, Heard, NextPhase, TaskPhases, Go
<1> QED
  BY <1>1, <1>2, <1>3, <1>4, <1>5, <1>6, <1>7 DEF IInv

\* Without proof of that nothing else is touched.
LEMMA StopFails ==
  ASSUME IInv, run.pc = "teardown", run.step \in {"destroy", "undefine"},
         Moves([run EXCEPT !.pc = "ended", !.verified = FALSE], host)
  PROVE  IInv'
<1>1. HostTyped'
  BY DEF IInv, HostTyped, Moves
<1>2. RunTyped'
  BY DEF IInv, RunTyped, RunRow, Moves
<1>3. Handled'
  BY DEF IInv, Moves, Handled
<1>4. Made'
  BY DEF IInv, Moves, Made, LiveBacking
<1>5. Ordered'
  BY DEF IInv, Moves, Ordered, VerifiedIsClean, CleanupProves
<1>6. Sources'
  BY DEF IInv, Moves, Sources, NoTwoWriters, Released
<1>7. Spoken'
  BY DEF IInv, Moves, Spoken, Heard, NextPhase, TaskPhases
<1> QED
  BY <1>1, <1>2, <1>3, <1>4, <1>5, <1>6, <1>7 DEF IInv

\* What has no handle does not exist, here the results share.
LEMMA TmpfsSkipped ==
  ASSUME IInv, run.pc = "teardown", run.step = "umount_tmpfs", "tmpfs" \notin run.arts,
         Moves(Go("chainstate"), host)
  PROVE  IInv'
<1>1. HostTyped'
  BY DEF IInv, HostTyped, Moves, Go
<1>2. RunTyped'
  BY DEF IInv, RunTyped, RunRow, Moves, Going, Go
<1>3. Handled'
  BY DEF IInv, Moves, Handled, Go
<1>4. Made'
  BY DEF IInv, Moves, Made, LiveBacking, Go
<1>5. Ordered'
  BY DEF IInv, Moves, Ordered, VerifiedIsClean, CleanupProves, Going, Handled, Go
<1>6. Sources'
  BY DEF IInv, Moves, Sources, NoTwoWriters, Released, Go
<1>7. Spoken'
  BY DEF IInv, Moves, Spoken, Heard, NextPhase, TaskPhases, Go
<1> QED
  BY <1>1, <1>2, <1>3, <1>4, <1>5, <1>6, <1>7 DEF IInv

\* The results share is released after the domain.
LEMMA TmpfsGone ==
  ASSUME IInv, run.pc = "teardown", run.step = "umount_tmpfs",
         Moves(Go("chainstate"), [host EXCEPT !.tmpfs = FALSE])
  PROVE  IInv'
<1>1. HostTyped'
  BY DEF IInv, HostTyped, HostRow, Moves, Go
<1>2. RunTyped'
  BY DEF IInv, RunTyped, RunRow, Moves, Going, Go
<1>3. Handled'
  BY DEF IInv, Moves, Handled, Go
<1>4. Made'
  BY DEF IInv, Moves, Made, LiveBacking, Ordered, Go
<1>5. Ordered'
  BY DEF IInv, Moves, Ordered, VerifiedIsClean, CleanupProves, Going, Go
<1>6. Sources'
  BY DEF IInv, Moves, Sources, NoTwoWriters, Released, Go
<1>7. Spoken'
  BY DEF IInv, Moves, Spoken, Heard, NextPhase, TaskPhases, Go
<1> QED
  BY <1>1, <1>2, <1>3, <1>4, <1>5, <1>6, <1>7 DEF IInv

\* No chainstate.
LEMMA ChainSkipped ==
  ASSUME IInv, run.pc = "teardown", run.step = "chainstate", "chain" \notin run.arts,
         Moves(Go("shards"), host)
  PROVE  IInv'
<1>1. HostTyped'
  BY DEF IInv, HostTyped, Moves, Go
<1>2. RunTyped'
  BY DEF IInv, RunTyped, RunRow, Moves, Going, Go
<1>3. Handled'
  BY DEF IInv, Moves, Handled, Go
<1>4. Made'
  BY DEF IInv, Moves, Made, LiveBacking, Go
<1>5. Ordered'
  BY DEF IInv, Moves, Ordered, VerifiedIsClean, CleanupProves, Going, Handled, Go
<1>6. Sources'
  BY DEF IInv, Moves, Sources, NoTwoWriters, Released, Go
<1>7. Spoken'
  BY DEF IInv, Moves, Spoken, Heard, NextPhase, TaskPhases, Go
<1> QED
  BY <1>1, <1>2, <1>3, <1>4, <1>5, <1>6, <1>7 DEF IInv

\* The chainstate is released after the domain.
LEMMA ChainGone ==
  ASSUME IInv, run.pc = "teardown", run.step = "chainstate",
         Moves(Go("shards"), [host EXCEPT !.chain = FALSE])
  PROVE  IInv'
<1>1. HostTyped'
  BY DEF IInv, HostTyped, HostRow, Moves, Go
<1>2. RunTyped'
  BY DEF IInv, RunTyped, RunRow, Moves, Going, Go
<1>3. Handled'
  BY DEF IInv, Moves, Handled, Go
<1>4. Made'
  BY DEF IInv, Moves, Made, LiveBacking, Ordered, Go
<1>5. Ordered'
  BY DEF IInv, Moves, Ordered, VerifiedIsClean, CleanupProves, Going, Go
<1>6. Sources'
  BY DEF IInv, Moves, Sources, NoTwoWriters, Released, Go
<1>7. Spoken'
  BY DEF IInv, Moves, Spoken, Heard, NextPhase, TaskPhases, Go
<1> QED
  BY <1>1, <1>2, <1>3, <1>4, <1>5, <1>6, <1>7 DEF IInv

\* No shards but those whose roll-back failed.
LEMMA ShardsSkipped ==
  ASSUME IInv, run.pc = "teardown", run.step = "shards", "shards" \notin run.arts,
         Moves(Go("raw"), host)
  PROVE  IInv'
<1>1. HostTyped'
  BY DEF IInv, HostTyped, Moves, Go
<1>2. RunTyped'
  BY DEF IInv, RunTyped, RunRow, Moves, Going, Go
<1>3. Handled'
  BY DEF IInv, Moves, Handled, Go
<1>4. Made'
  BY DEF IInv, Moves, Made, LiveBacking, Go
<1>5. Ordered'
  BY DEF IInv, Moves, Ordered, VerifiedIsClean, CleanupProves, Going, Handled, Go
<1>6. Sources'
  BY DEF IInv, Moves, Sources, NoTwoWriters, Released, Go
<1>7. Spoken'
  BY DEF IInv, Moves, Spoken, Heard, NextPhase, TaskPhases, Go
<1> QED
  BY <1>1, <1>2, <1>3, <1>4, <1>5, <1>6, <1>7 DEF IInv

\* The shards are released after the domain.
LEMMA ShardsGone ==
  ASSUME IInv, run.pc = "teardown", run.step = "shards",
         Moves(Go("raw"), [host EXCEPT !.shards = {}])
  PROVE  IInv'
<1>1. HostTyped'
  BY DEF IInv, HostTyped, HostRow, Moves, Go
<1>2. RunTyped'
  BY DEF IInv, RunTyped, RunRow, Moves, Going, Go
<1>3. Handled'
  BY DEF IInv, Moves, Handled, Go
<1>4. Made'
  BY DEF IInv, Moves, Made, LiveBacking, Ordered, Go
<1>5. Ordered'
  BY DEF IInv, Moves, Ordered, VerifiedIsClean, CleanupProves, Going, Go
<1>6. Sources'
  BY DEF IInv, Moves, Sources, NoTwoWriters, Released, Go
<1>7. Spoken'
  BY DEF IInv, Moves, Spoken, Heard, NextPhase, TaskPhases, Go
<1> QED
  BY <1>1, <1>2, <1>3, <1>4, <1>5, <1>6, <1>7 DEF IInv

\* No source disk with a handle.
LEMMA RawSkipped ==
  ASSUME IInv, run.pc = "teardown", run.step = "raw", "source" \notin run.arts,
         Moves(Go("boot"), host)
  PROVE  IInv'
<1>1. HostTyped'
  BY DEF IInv, HostTyped, Moves, Go
<1>2. RunTyped'
  BY DEF IInv, RunTyped, RunRow, Moves, Going, Go
<1>3. Handled'
  BY DEF IInv, Moves, Handled, Go
<1>4. Made'
  BY DEF IInv, Moves, Made, LiveBacking, Go
<1>5. Ordered'
  BY DEF IInv, Moves, Ordered, VerifiedIsClean, CleanupProves, Going, Go
<1>6. Sources'
  BY DEF IInv, Moves, Sources, NoTwoWriters, Released, Go
<1>7. Spoken'
  BY DEF IInv, Moves, Spoken, Heard, NextPhase, TaskPhases, Go
<1> QED
  BY <1>1, <1>2, <1>3, <1>4, <1>5, <1>6, <1>7 DEF IInv

\* The source disk is released after the domain.
LEMMA RawGone ==
  ASSUME IInv, run.pc = "teardown", run.step = "raw",
         Moves(Go("boot"), [host EXCEPT !.raw = FALSE])
  PROVE  IInv'
<1>1. HostTyped'
  BY DEF IInv, HostTyped, HostRow, Moves, Go
<1>2. RunTyped'
  BY DEF IInv, RunTyped, RunRow, Moves, Going, Go
<1>3. Handled'
  BY DEF IInv, Moves, Handled, Go
<1>4. Made'
  BY DEF IInv, Moves, Made, LiveBacking, Ordered, Go
<1>5. Ordered'
  BY DEF IInv, Moves, Ordered, VerifiedIsClean, CleanupProves, Going, Go
<1>6. Sources'
  BY DEF IInv, Moves, Sources, NoTwoWriters, Released, Go
<1>7. Spoken'
  BY DEF IInv, Moves, Spoken, Heard, NextPhase, TaskPhases, Go
<1> QED
  BY <1>1, <1>2, <1>3, <1>4, <1>5, <1>6, <1>7 DEF IInv

\* No boot disk.
LEMMA BootSkipped ==
  ASSUME IInv, run.pc = "teardown", run.step = "boot", "boot" \notin run.arts,
         Moves(Go("prune"), host)
  PROVE  IInv'
<1>1. HostTyped'
  BY DEF IInv, HostTyped, Moves, Go
<1>2. RunTyped'
  BY DEF IInv, RunTyped, RunRow, Moves, Going, Go
<1>3. Handled'
  BY DEF IInv, Moves, Handled, Go
<1>4. Made'
  BY DEF IInv, Moves, Made, LiveBacking, Go
<1>5. Ordered'
  BY DEF IInv, Moves, Ordered, VerifiedIsClean, CleanupProves, Going, Go
<1>6. Sources'
  BY DEF IInv, Moves, Sources, NoTwoWriters, Released, Go
<1>7. Spoken'
  BY DEF IInv, Moves, Spoken, Heard, NextPhase, TaskPhases, Go
<1> QED
  BY <1>1, <1>2, <1>3, <1>4, <1>5, <1>6, <1>7 DEF IInv

\* The boot disk is released after the domain.
LEMMA BootGone ==
  ASSUME IInv, run.pc = "teardown", run.step = "boot",
         Moves(Go("prune"), [host EXCEPT !.boot = FALSE])
  PROVE  IInv'
<1>1. HostTyped'
  BY DEF IInv, HostTyped, HostRow, Moves, Go
<1>2. RunTyped'
  BY DEF IInv, RunTyped, RunRow, Moves, Going, Go
<1>3. Handled'
  BY DEF IInv, Moves, Handled, Go
<1>4. Made'
  BY DEF IInv, Moves, Made, LiveBacking, Ordered, Go
<1>5. Ordered'
  BY DEF IInv, Moves, Ordered, VerifiedIsClean, CleanupProves, Going, Go
<1>6. Sources'
  BY DEF IInv, Moves, Sources, NoTwoWriters, Released, Go
<1>7. Spoken'
  BY DEF IInv, Moves, Spoken, Heard, NextPhase, TaskPhases, Go
<1> QED
  BY <1>1, <1>2, <1>3, <1>4, <1>5, <1>6, <1>7 DEF IInv

\* What could not be released makes the teardown unverified.
LEMMA Unreleased ==
  ASSUME IInv, run.pc = "teardown", run.step \notin {"destroy", "undefine", "rmdir"},
         NEW s \in Going \ {"destroy", "undefine", "umount_tmpfs"},
         NEW K \in SUBSET host.shards, Moves(Unverified(s), [host EXCEPT !.shards = K])
  PROVE  IInv'
<1>1. HostTyped'
  BY DEF IInv, HostTyped, HostRow, Moves, Unverified, Go
<1>2. RunTyped'
  BY DEF IInv, RunTyped, RunRow, Moves, Unverified, Go
<1>3. Handled'
  BY DEF IInv, Moves, Handled, Unverified, Go
<1>4. Made'
  BY DEF IInv, Moves, Made, LiveBacking, Ordered, Unverified, Go
<1>5. Ordered'
  BY DEF IInv, Moves, Ordered, VerifiedIsClean, CleanupProves, Unverified, Go
<1>6. Sources'
  BY DEF IInv, Moves, Sources, NoTwoWriters, Released, Unverified, Go
<1>7. Spoken'
  BY DEF IInv, Moves, Spoken, Heard, NextPhase, TaskPhases, Unverified, Go
<1> QED
  BY <1>1, <1>2, <1>3, <1>4, <1>5, <1>6, <1>7 DEF IInv

\* The reference is no part of a machine.
LEMMA Pruned ==
  ASSUME IInv, run.pc = "teardown", run.step = "prune",
         NEW h \in {host, [host EXCEPT !.ref = FALSE]}, Moves(Go("rmdir"), h)
  PROVE  IInv'
<1>0. /\ UNCHANGED <<host.dir, host.boot, host.raw, host.tmpfs, host.chain,
                     host.shards, host.dom, host.loop, host.mounted>>
  BY DEF IInv, HostTyped, HostRow, Moves
<1>1. HostTyped'
  BY DEF IInv, HostTyped, HostRow, Moves, Go
<1>2. RunTyped'
  BY DEF IInv, RunTyped, RunRow, Moves, Going, Go
<1>3. Handled'
  BY <1>0 DEF IInv, Moves, Handled, Go
<1>4. Made'
  BY <1>0 DEF IInv, Moves, Made, LiveBacking, Go
<1>5. Ordered'
  BY <1>0 DEF IInv, Moves, Ordered, VerifiedIsClean, CleanupProves, Going, Go
<1>6. Sources'
  BY <1>0 DEF IInv, Moves, Sources, NoTwoWriters, Released, Go
<1>7. Spoken'
  BY <1>0 DEF IInv, Moves, Spoken, Heard, NextPhase, TaskPhases, Go
<1> QED
  BY <1>1, <1>2, <1>3, <1>4, <1>5, <1>6, <1>7 DEF IInv

\* The directory goes when nothing in it is mounted.
LEMMA DirGone ==
  ASSUME IInv, run.pc = "teardown", run.step = "rmdir", ~Busy,
         Moves([run EXCEPT !.pc = "ended"], RemovedDir)
  PROVE  IInv'
<1>1. HostTyped'
  BY DEF IInv, HostTyped, HostRow, Moves, RemovedDir
<1>2. RunTyped'
  BY DEF IInv, RunTyped, RunRow, Moves, RemovedDir
<1>3. Handled'
  BY DEF IInv, Moves, Handled, RemovedDir
<1>4. Made'
  BY DEF IInv, Moves, Made, LiveBacking, Ordered, RemovedDir
<1>5. Ordered'
  BY DEF IInv, Moves, Ordered, VerifiedIsClean, CleanupProves, Busy, RemovedDir
<1>6. Sources'
  BY DEF IInv, Moves, Sources, NoTwoWriters, Released, RemovedDir
<1>7. Spoken'
  BY DEF IInv, Moves, Spoken, Heard, NextPhase, TaskPhases, RemovedDir
<1> QED
  BY <1>1, <1>2, <1>3, <1>4, <1>5, <1>6, <1>7 DEF IInv

\* A directory that stays makes the teardown unverified.
LEMMA DirStays ==
  ASSUME IInv, run.pc = "teardown", run.step = "rmdir", NEW h \in HalfRemoved,
         Moves([run EXCEPT !.pc = "ended", !.verified = FALSE], h)
  PROVE  IInv'
<1>0. /\ UNCHANGED <<host.dir, host.tmpfs, host.chain,
                     host.shards, host.dom, host.loop, host.mounted>>
  BY DEF IInv, HostTyped, HostRow, Moves, HalfRemoved
<1>1. HostTyped'
  BY DEF IInv, HostTyped, HostRow, Moves, HalfRemoved
<1>2. RunTyped'
  BY DEF IInv, RunTyped, RunRow, Moves, HalfRemoved
<1>3. Handled'
  BY <1>0 DEF IInv, Moves, Handled
<1>4. Made'
  BY <1>0 DEF IInv, Moves, Made, LiveBacking, Ordered
<1>5. Ordered'
  BY <1>0 DEF IInv, Moves, Ordered, VerifiedIsClean, CleanupProves
<1>6. Sources'
  BY <1>0 DEF IInv, Moves, Sources, NoTwoWriters, Released
<1>7. Spoken'
  BY <1>0 DEF IInv, Moves, Spoken, Heard, NextPhase, TaskPhases
<1> QED
  BY <1>1, <1>2, <1>3, <1>4, <1>5, <1>6, <1>7 DEF IInv

-----------------------------------------------------------------------------
(* Crash and cleanup by name.                                              *)

\* A crash forgets the handles and changes nothing on the host.
LEMMA Crashes ==
  ASSUME IInv, Moves([run EXCEPT !.pc = "crashed", !.arts = {}, !.reason = "lost"], host)
  PROVE  IInv'
<1>1. HostTyped'
  BY DEF IInv, HostTyped, Moves
<1>2. RunTyped'
  BY DEF IInv, RunTyped, RunRow, Moves
<1>3. Handled'
  BY DEF IInv, Moves, Handled
<1>4. Made'
  BY DEF IInv, Moves, Made, LiveBacking
<1>5. Ordered'
  BY DEF IInv, Moves, Ordered, VerifiedIsClean, CleanupProves
<1>6. Sources'
  BY DEF IInv, Moves, Sources, NoTwoWriters, Released
<1>7. Spoken'
  BY DEF IInv, Moves, Spoken, TaskPhases
<1> QED
  BY <1>1, <1>2, <1>3, <1>4, <1>5, <1>6, <1>7 DEF IInv

\* A cleanup starts over with the domain.
LEMMA CleanupBegins ==
  ASSUME IInv, 
         Moves([run EXCEPT !.pc = "cleanup", !.step = "domstate", !.broken = FALSE], host)
  PROVE  IInv'
<1>1. HostTyped'
  BY DEF IInv, HostTyped, Moves
<1>2. RunTyped'
  BY DEF IInv, RunTyped, RunRow, Moves, Clearing
<1>3. Handled'
  BY DEF IInv, Moves, Handled
<1>4. Made'
  BY DEF IInv, Moves, Made, LiveBacking
<1>5. Ordered'
  BY DEF IInv, Moves, Ordered, VerifiedIsClean, CleanupProves, Clearing
<1>6. Sources'
  BY DEF IInv, Moves, Sources, NoTwoWriters, Released
<1>7. Spoken'
  BY DEF IInv, Moves, Spoken, Heard, NextPhase, TaskPhases
<1> QED
  BY <1>1, <1>2, <1>3, <1>4, <1>5, <1>6, <1>7 DEF IInv

\* A cleanup gives up with the domain as it is, or gone.
LEMMA GivesUp ==
  ASSUME IInv, run.pc = "cleanup", NEW K \in SUBSET host.shards,
         host.dom # "undefined" => K = host.shards,
         Moves(Outstanding, [host EXCEPT !.shards = K])
  PROVE  IInv'
<1>1. HostTyped'
  BY DEF IInv, HostTyped, HostRow, Moves, Outstanding
<1>2. RunTyped'
  BY DEF IInv, RunTyped, RunRow, Moves, Outstanding
<1>3. Handled'
  BY DEF IInv, Moves, Handled, Outstanding
<1>4. Made'
  BY DEF IInv, Moves, Made, LiveBacking, Outstanding
<1>5. Ordered'
  BY DEF IInv, Moves, Ordered, VerifiedIsClean, CleanupProves, Outstanding
<1>6. Sources'
  BY DEF IInv, Moves, Sources, NoTwoWriters, Released, Outstanding
<1>7. Spoken'
  BY DEF IInv, Moves, Spoken, Heard, NextPhase, TaskPhases, Outstanding
<1> QED
  BY <1>1, <1>2, <1>3, <1>4, <1>5, <1>6, <1>7 DEF IInv

\* What virsh answers decides where to go on.
LEMMA Asked ==
  ASSUME IInv, run.pc = "cleanup", run.step = "domstate",
         NEW s \in {"umount_tmpfs", "undefine", "destroy"},
         s = "umount_tmpfs" <=> host.dom = "undefined", Moves(Go(s), host)
  PROVE  IInv'
<1>1. HostTyped'
  BY DEF IInv, HostTyped, Moves, Go
<1>2. RunTyped'
  BY DEF IInv, RunTyped, RunRow, Moves, Going, Go
<1>3. Handled'
  BY DEF IInv, Moves, Handled, Go
<1>4. Made'
  BY DEF IInv, Moves, Made, LiveBacking, Go
<1>5. Ordered'
  BY DEF IInv, Moves, Ordered, VerifiedIsClean, CleanupProves, Clearing, Go
<1>6. Sources'
  BY DEF IInv, Moves, Sources, NoTwoWriters, Released, Go
<1>7. Spoken'
  BY DEF IInv, Moves, Spoken, Heard, NextPhase, TaskPhases, Go
<1> QED
  BY <1>1, <1>2, <1>3, <1>4, <1>5, <1>6, <1>7 DEF IInv

\* The cleanup stops the domain.
LEMMA Forced ==
  ASSUME IInv, run.pc = "cleanup", run.step = "destroy",
         Moves(Go("undefine"), [host EXCEPT !.dom = "shut_off"])
  PROVE  IInv'
<1>1. HostTyped'
  BY DEF IInv, HostTyped, HostRow, Moves, Go
<1>2. RunTyped'
  BY DEF IInv, RunTyped, RunRow, Moves, Going, Go
<1>3. Handled'
  BY DEF IInv, Moves, Handled, Go
<1>4. Made'
  BY DEF IInv, Moves, Made, LiveBacking, Ordered, Go
<1>5. Ordered'
  BY DEF IInv, Moves, Ordered, VerifiedIsClean, CleanupProves, Clearing, Go
<1>6. Sources'
  BY DEF IInv, Moves, Sources, NoTwoWriters, Released, Go
<1>7. Spoken'
  BY DEF IInv, Moves, Spoken, Heard, NextPhase, TaskPhases, Go
<1> QED
  BY <1>1, <1>2, <1>3, <1>4, <1>5, <1>6, <1>7 DEF IInv

\* The cleanup undefines it.
LEMMA Vanished ==
  ASSUME IInv, run.pc = "cleanup", run.step = "undefine",
         Moves(Go("umount_tmpfs"), [host EXCEPT !.dom = "undefined"])
  PROVE  IInv'
<1>1. HostTyped'
  BY DEF IInv, HostTyped, HostRow, Moves, Go
<1>2. RunTyped'
  BY DEF IInv, RunTyped, RunRow, Moves, Going, Go
<1>3. Handled'
  BY DEF IInv, Moves, Handled, Go
<1>4. Made'
  BY DEF IInv, Moves, Made, LiveBacking, Go
<1>5. Ordered'
  BY DEF IInv, Moves, Ordered, VerifiedIsClean, CleanupProves, Clearing, Go
<1>6. Sources'
  BY DEF IInv, Moves, Sources, NoTwoWriters, Released, Go
<1>7. Spoken'
  BY DEF IInv, Moves, Spoken, Heard, NextPhase, TaskPhases, Go
<1> QED
  BY <1>1, <1>2, <1>3, <1>4, <1>5, <1>6, <1>7 DEF IInv

\* The results share.
LEMMA UmountT ==
  ASSUME IInv, run.pc = "cleanup", run.step = "umount_tmpfs",
         NEW h \in {host, [host EXCEPT !.tmpfs = FALSE]}, Moves(Go("umount_source"), h)
  PROVE  IInv'
<1>0. /\ UNCHANGED <<host.dir, host.boot, host.raw, host.chain,
                     host.shards, host.dom, host.loop, host.mounted>>
  BY DEF IInv, HostTyped, HostRow, Moves
<1>1. HostTyped'
  BY DEF IInv, HostTyped, HostRow, Moves, Go
<1>2. RunTyped'
  BY DEF IInv, RunTyped, RunRow, Moves, Clearing, Go
<1>3. Handled'
  BY <1>0 DEF IInv, Moves, Handled, Go
<1>4. Made'
  BY <1>0 DEF IInv, Moves, Made, LiveBacking, Ordered, Go
<1>5. Ordered'
  BY <1>0 DEF IInv, Moves, Ordered, VerifiedIsClean, CleanupProves, Clearing, Go
<1>6. Sources'
  BY <1>0 DEF IInv, Moves, Sources, NoTwoWriters, Released, Go
<1>7. Spoken'
  BY <1>0 DEF IInv, Moves, Spoken, Heard, NextPhase, TaskPhases, Go
<1> QED
  BY <1>1, <1>2, <1>3, <1>4, <1>5, <1>6, <1>7 DEF IInv

\* A mount that stays.
LEMMA UmountLost ==
  ASSUME IInv, run.pc = "cleanup", run.step = "umount_source", Moves(Go("losetup_j"), host)
  PROVE  IInv'
<1>1. HostTyped'
  BY DEF IInv, HostTyped, Moves, Go
<1>2. RunTyped'
  BY DEF IInv, RunTyped, RunRow, Moves, Clearing, Go
<1>3. Handled'
  BY DEF IInv, Moves, Handled, Go
<1>4. Made'
  BY DEF IInv, Moves, Made, LiveBacking, Go
<1>5. Ordered'
  BY DEF IInv, Moves, Ordered, VerifiedIsClean, CleanupProves, Clearing, Go
<1>6. Sources'
  BY DEF IInv, Moves, Sources, NoTwoWriters, Released, Go
<1>7. Spoken'
  BY DEF IInv, Moves, Spoken, Heard, NextPhase, TaskPhases, Go
<1> QED
  BY <1>1, <1>2, <1>3, <1>4, <1>5, <1>6, <1>7 DEF IInv

\* The topmost mount of the source disk.
LEMMA UmountS ==
  ASSUME IInv, run.pc = "cleanup", run.step = "umount_source", NEW l \in Loops,
         Moves(Go("losetup_j"), Unmounted(l))
  PROVE  IInv'
<1>1. HostTyped'
  BY DEF IInv, HostTyped, HostRow, Moves, Go, Unmounted
<1>2. RunTyped'
  BY DEF IInv, RunTyped, RunRow, Moves, Clearing, Go, Unmounted
<1>3. Handled'
  BY DEF IInv, Moves, Handled, Go, Unmounted
<1>4. Made'
  BY DEF IInv, Moves, Made, LiveBacking, Go, Unmounted
<1>5. Ordered'
  BY DEF IInv, Moves, Ordered, VerifiedIsClean, CleanupProves, Clearing, Go, Unmounted
<1>6. Sources'
  BY DEF IInv, Moves, Sources, NoTwoWriters, Released, Go, Unmounted
<1>7. Spoken'
  BY DEF IInv, Moves, Spoken, Heard, NextPhase, TaskPhases, Go, Unmounted
<1> QED
  BY <1>1, <1>2, <1>3, <1>4, <1>5, <1>6, <1>7 DEF IInv

\* No loop stays attached to the source file.
LEMMA LoopsFreed ==
  ASSUME IInv, run.pc = "cleanup", run.step = "losetup_j", host.raw,
         Moves(Go("lvremove"),
               [host EXCEPT !.loop = [l \in Loops |-> IF @[l] = "none" THEN "none" ELSE Detached(l)]])
  PROVE  IInv'
<1>1. HostTyped'
  BY DEF IInv, HostTyped, HostRow, Moves, Go, Detached
<1>2. RunTyped'
  BY DEF IInv, RunTyped, RunRow, Moves, Clearing, Go, Detached
<1>3. Handled'
  BY DEF IInv, Moves, Handled, Go, Detached
<1>4. Made'
  BY DEF IInv, Moves, Made, LiveBacking, Go, Detached
<1>5. Ordered'
  BY DEF IInv, Moves, Ordered, VerifiedIsClean, CleanupProves, Clearing, Go, Detached
<1>6. Sources'
  BY DEF IInv, Moves, Sources, NoTwoWriters, Released, Loops, Go, Detached
<1>7. Spoken'
  BY DEF IInv, Moves, Spoken, Heard, NextPhase, TaskPhases, Go, Detached
<1> QED
  BY <1>1, <1>2, <1>3, <1>4, <1>5, <1>6, <1>7 DEF IInv

\* Without the file there is nothing to ask about.
LEMMA NoFile ==
  ASSUME IInv, run.pc = "cleanup", run.step = "losetup_j", ~host.raw,
         Moves(Go("lvremove"), host)
  PROVE  IInv'
<1>1. HostTyped'
  BY DEF IInv, HostTyped, Moves, Go
<1>2. RunTyped'
  BY DEF IInv, RunTyped, RunRow, Moves, Clearing, Go
<1>3. Handled'
  BY DEF IInv, Moves, Handled, Go
<1>4. Made'
  BY DEF IInv, Moves, Made, LiveBacking, Go
<1>5. Ordered'
  BY DEF IInv, Moves, Ordered, VerifiedIsClean, CleanupProves, Clearing, Go
<1>6. Sources'
  BY DEF IInv, Moves, Sources, NoTwoWriters, Released, Go
<1>7. Spoken'
  BY DEF IInv, Moves, Spoken, Heard, NextPhase, TaskPhases, Go
<1> QED
  BY <1>1, <1>2, <1>3, <1>4, <1>5, <1>6, <1>7 DEF IInv

\* A question that failed is kept in mind.
LEMMA Doubt ==
  ASSUME IInv, run.pc = "cleanup", run.step = "losetup_j",
         Moves([Go("lvremove") EXCEPT !.broken = Uncertain], host)
  PROVE  IInv'
<1>1. HostTyped'
  BY DEF IInv, HostTyped, Moves, Go, Uncertain
<1>2. RunTyped'
  BY DEF IInv, RunTyped, RunRow, Moves, Clearing, Go, Uncertain
<1>3. Handled'
  BY DEF IInv, Moves, Handled, Go, Uncertain
<1>4. Made'
  BY DEF IInv, Moves, Made, LiveBacking, Go, Uncertain
<1>5. Ordered'
  BY DEF IInv, Moves, Ordered, VerifiedIsClean, CleanupProves, Clearing, Go, Uncertain
<1>6. Sources'
  BY DEF IInv, Moves, Sources, NoTwoWriters, Released, Go, Uncertain
<1>7. Spoken'
  BY DEF IInv, Moves, Spoken, Heard, NextPhase, TaskPhases, Go, Uncertain
<1> QED
  BY <1>1, <1>2, <1>3, <1>4, <1>5, <1>6, <1>7 DEF IInv

\* So is a detach that failed.
LEMMA DoubtOne ==
  ASSUME IInv, run.pc = "cleanup", run.step = "losetup_j", NEW l \in Loops,
         host.loop[l] # "none",
         Moves([Go("lvremove") EXCEPT !.broken = Uncertain],
               [host EXCEPT !.loop[l] = Detached(l)])
  PROVE  IInv'
<1>1. HostTyped'
  BY DEF IInv, HostTyped, HostRow, Moves, Go, Uncertain, Detached
<1>2. RunTyped'
  BY DEF IInv, RunTyped, RunRow, Moves, Clearing, Go, Uncertain, Detached
<1>3. Handled'
  BY DEF IInv, Moves, Handled, Go, Uncertain, Detached
<1>4. Made'
  BY DEF IInv, Moves, Made, LiveBacking, Go, Uncertain, Detached
<1>5. Ordered'
  BY DEF IInv, Moves, Ordered, VerifiedIsClean, CleanupProves, Clearing, Go, Uncertain, Detached
<1>6. Sources'
  BY DEF IInv, Moves, Sources, NoTwoWriters, Released, Go, Uncertain, Detached
<1>7. Spoken'
  BY DEF IInv, Moves, Spoken, Heard, NextPhase, TaskPhases, Go, Uncertain, Detached
<1> QED
  BY <1>1, <1>2, <1>3, <1>4, <1>5, <1>6, <1>7 DEF IInv

\* The chainstate volume.
LEMMA LvGone ==
  ASSUME IInv, run.pc = "cleanup", run.step = "lvremove",
         NEW h \in {host, [host EXCEPT !.chain = FALSE]}, Moves(Go("prune"), h)
  PROVE  IInv'
<1>0. /\ UNCHANGED <<host.dir, host.boot, host.raw, host.tmpfs,
                     host.shards, host.dom, host.loop, host.mounted>>
  BY DEF IInv, HostTyped, HostRow, Moves
<1>1. HostTyped'
  BY DEF IInv, HostTyped, HostRow, Moves, Go
<1>2. RunTyped'
  BY DEF IInv, RunTyped, RunRow, Moves, Going, Go
<1>3. Handled'
  BY <1>0 DEF IInv, Moves, Handled, Go
<1>4. Made'
  BY <1>0 DEF IInv, Moves, Made, LiveBacking, Ordered, Go
<1>5. Ordered'
  BY <1>0 DEF IInv, Moves, Ordered, VerifiedIsClean, CleanupProves, Clearing, Go
<1>6. Sources'
  BY <1>0 DEF IInv, Moves, Sources, NoTwoWriters, Released, Go
<1>7. Spoken'
  BY <1>0 DEF IInv, Moves, Spoken, Heard, NextPhase, TaskPhases, Go
<1> QED
  BY <1>1, <1>2, <1>3, <1>4, <1>5, <1>6, <1>7 DEF IInv

\* The reference.
LEMMA CPruned ==
  ASSUME IInv, run.pc = "cleanup", run.step = "prune",
         NEW h \in {host, [host EXCEPT !.ref = FALSE]}, Moves(Go("rmdir"), h)
  PROVE  IInv'
<1>0. /\ UNCHANGED <<host.dir, host.boot, host.raw, host.tmpfs, host.chain,
                     host.shards, host.dom, host.loop, host.mounted>>
  BY DEF IInv, HostTyped, HostRow, Moves
<1>1. HostTyped'
  BY DEF IInv, HostTyped, HostRow, Moves, Go
<1>2. RunTyped'
  BY DEF IInv, RunTyped, RunRow, Moves, Going, Go
<1>3. Handled'
  BY <1>0 DEF IInv, Moves, Handled, Go
<1>4. Made'
  BY <1>0 DEF IInv, Moves, Made, LiveBacking, Go
<1>5. Ordered'
  BY <1>0 DEF IInv, Moves, Ordered, VerifiedIsClean, CleanupProves, Clearing, Go
<1>6. Sources'
  BY <1>0 DEF IInv, Moves, Sources, NoTwoWriters, Released, Go
<1>7. Spoken'
  BY <1>0 DEF IInv, Moves, Spoken, Heard, NextPhase, TaskPhases, Go
<1> QED
  BY <1>1, <1>2, <1>3, <1>4, <1>5, <1>6, <1>7 DEF IInv

\* The directory goes only when no loop is in doubt.
LEMMA CDirGone ==
  ASSUME IInv, run.pc = "cleanup", run.step = "rmdir", ~run.broken,
         Moves(Go("shards"), RemovedDir)
  PROVE  IInv'
<1>1. HostTyped'
  BY DEF IInv, HostTyped, HostRow, Moves, Go, RemovedDir
<1>2. RunTyped'
  BY DEF IInv, RunTyped, RunRow, Moves, Going, Go, RemovedDir
<1>3. Handled'
  BY DEF IInv, Moves, Handled, Go, RemovedDir
<1>4. Made'
  BY DEF IInv, Moves, Made, LiveBacking, Ordered, Go, RemovedDir
<1>5. Ordered'
  BY DEF IInv, Moves, Ordered, VerifiedIsClean, CleanupProves, Clearing, Go, RemovedDir
<1>6. Sources'
  BY DEF IInv, Moves, Sources, NoTwoWriters, Released, Go, RemovedDir
<1>7. Spoken'
  BY DEF IInv, Moves, Spoken, Heard, NextPhase, TaskPhases, Go, RemovedDir
<1> QED
  BY <1>1, <1>2, <1>3, <1>4, <1>5, <1>6, <1>7 DEF IInv

\* Nor is it half removed otherwise.
LEMMA CDir ==
  ASSUME IInv, run.pc = "cleanup", run.step = "rmdir", ~run.broken, NEW h \in HalfRemoved,
         Moves(Go("shards"), h)
  PROVE  IInv'
<1>0. /\ UNCHANGED <<host.dir, host.tmpfs, host.chain,
                     host.shards, host.dom, host.loop, host.mounted>>
      /\ (host'.raw => host.raw)
  BY DEF IInv, HostTyped, HostRow, Moves, HalfRemoved
<1>1. HostTyped'
  BY DEF IInv, HostTyped, HostRow, Moves, Go, HalfRemoved
<1>2. RunTyped'
  BY DEF IInv, RunTyped, RunRow, Moves, Going, Go, HalfRemoved
<1>3. Handled'
  BY <1>0 DEF IInv, Moves, Handled, Go
<1>4. Made'
  BY <1>0 DEF IInv, Moves, Made, LiveBacking, Ordered, Go
<1>5. Ordered'
  BY <1>0 DEF IInv, Moves, Ordered, VerifiedIsClean, CleanupProves, Clearing, Go
<1>6. Sources'
  BY <1>0 DEF IInv, Moves, Sources, NoTwoWriters, Released, Go
<1>7. Spoken'
  BY <1>0 DEF IInv, Moves, Spoken, Heard, NextPhase, TaskPhases, Go
<1> QED
  BY <1>1, <1>2, <1>3, <1>4, <1>5, <1>6, <1>7 DEF IInv

\* Then the shards, and the cleanup is done.
LEMMA Cleaned ==
  ASSUME IInv, run.pc = "cleanup", run.step = "shards",
         Moves([run EXCEPT !.pc = "clean"], [host EXCEPT !.shards = {}])
  PROVE  IInv'
<1>1. HostTyped'
  BY DEF IInv, HostTyped, HostRow, Moves
<1>2. RunTyped'
  BY DEF IInv, RunTyped, RunRow, Moves
<1>3. Handled'
  BY DEF IInv, Moves, Handled
<1>4. Made'
  BY DEF IInv, Moves, Made, LiveBacking, Ordered
<1>5. Ordered'
  BY DEF IInv, Moves, Ordered, VerifiedIsClean, CleanupProves
<1>6. Sources'
  BY DEF IInv, Moves, Sources, NoTwoWriters, Released
<1>7. Spoken'
  BY DEF IInv, Moves, Spoken, Heard, NextPhase, TaskPhases
<1> QED
  BY <1>1, <1>2, <1>3, <1>4, <1>5, <1>6, <1>7 DEF IInv

\* A cancellation is looked at in the next turn of the poll.
LEMMA Cancels ==
  ASSUME IInv, Moves([run EXCEPT !.cancelled = TRUE], host)
  PROVE  IInv'
<1>1. HostTyped'
  BY DEF IInv, HostTyped, Moves
<1>2. RunTyped'
  BY DEF IInv, RunTyped, RunRow, Moves
<1>3. Handled'
  BY DEF IInv, Moves, Handled
<1>4. Made'
  BY DEF IInv, Moves, Made, LiveBacking
<1>5. Ordered'
  BY DEF IInv, Moves, Ordered, VerifiedIsClean, CleanupProves, Busy
<1>6. Sources'
  BY DEF IInv, Moves, Sources, NoTwoWriters, Released, Source
<1>7. Spoken'
  BY DEF IInv, Moves, Spoken, Heard, NextPhase, TaskPhases
<1> QED
  BY <1>1, <1>2, <1>3, <1>4, <1>5, <1>6, <1>7 DEF IInv

-----------------------------------------------------------------------------
(* The guest's own steps, and the start of a machine.                      *)

\* A machine boots with its disks there and none of them in the host's hands.
LEMMA Boots ==
  ASSUME IInv, At("provision", "start"), UNCHANGED <<task, journal>>,
         host' = [host EXCEPT !.dom = "running"],
         guest' = [phase |-> run.phase, wrote |-> "nothing"],
         run' = [run EXCEPT !.pc = "journal", !.offset = 0, !.seen = FALSE]
  PROVE  IInv'
<1> USE DEF At
<1>1. HostTyped'
  BY DEF IInv, HostTyped, HostRow
<1>2. RunTyped'
  BY DEF IInv, RunTyped, RunRow
<1>3. Handled'
  BY DEF IInv, HostTyped, RunTyped, RunRow, HostRow, Handled, Made, Spoken
<1>4. Made'
  BY DEF IInv, HostTyped, RunTyped, RunRow, HostRow, Made, LiveBacking
<1>5. Ordered'
  BY DEF IInv, HostTyped, RunTyped, RunRow, HostRow, Ordered, VerifiedIsClean, CleanupProves
<1>6. Sources'
   BY DEF IInv, HostTyped, RunTyped, RunRow, HostRow, Sources, NoTwoWriters, Released, Source, Late,
     Loops
<1>7. Spoken'
  BY DEF IInv, HostTyped, RunTyped, RunRow, HostRow, Spoken, Heard, TaskPhases
<1> QED
  BY <1>1, <1>2, <1>3, <1>4, <1>5, <1>6, <1>7 DEF IInv

\* What the machine writes only adds to what was said.
LEMMA Writes ==
  ASSUME IInv, GuestWrites
  PROVE  IInv'
<1>1. PICK word \in {"starting", "success", "error"} :
          /\ journal' = Append(journal, [phase |-> guest.phase, word |-> word])
          /\ guest' = [guest EXCEPT !.wrote = word]
          /\ run' = [run EXCEPT !.baseline = @ \/ (guest.phase = "calibrate" /\ word = "success")]
  BY DEF GuestWrites
<1>2. UNCHANGED <<task, host>> /\ host.dom = "running"
  BY DEF GuestWrites, Running
<1>3. HostTyped'
  BY <1>2 DEF IInv, HostTyped
<1>4. [phase |-> guest.phase, word |-> word] \in Entry
  BY DEF IInv, RunTyped, Entry
<1>5. /\ DOMAIN journal' = 1..(Len(journal) + 1)
      /\ \A i \in DOMAIN journal : i \in DOMAIN journal' /\ journal'[i] = journal[i]
      /\ journal'[Len(journal) + 1] = [phase |-> guest.phase, word |-> word]
      /\ DOMAIN journal = 1..Len(journal) /\ Len(journal) \in Nat
      /\ journal' \in Seq(Entry)
  BY <1>1, <1>4 DEF IInv, RunTyped
<1>6. /\ run' \in RunRow
      /\ guest' \in [phase : Phases, wrote : {"nothing", "starting", "success", "error"}]
  BY <1>1 DEF IInv, RunTyped, RunRow
<1>7. RunTyped'
  BY <1>5, <1>6 DEF RunTyped
<1>8. UNCHANGED <<run.pc, run.step, run.arts, run.plan, run.broken, run.phase, run.seen, run.reason,
                  run.verified>>
  BY <1>1 DEF IInv, RunTyped, RunRow
<1>9. Handled'
  BY <1>2, <1>8 DEF IInv, Handled
<1>10. Made'
  BY <1>2, <1>8 DEF IInv, Made, LiveBacking
<1>11. Ordered'
  BY <1>2, <1>8 DEF IInv, Ordered, VerifiedIsClean, CleanupProves, Busy
<1>12. Sources'
  BY <1>2, <1>8 DEF IInv, Sources, NoTwoWriters, Released, Source
<1>13. Spoken'
  <2>1. NextPhase' = NextPhase /\ TaskPhases' = TaskPhases
    BY <1>2, <1>8 DEF NextPhase, TaskPhases
  <2>2. guest'.phase = guest.phase /\ guest.phase \in TaskPhases
    BY <1>1, <1>2 DEF IInv, RunTyped, Spoken
  <2>3. \A i \in DOMAIN journal' : journal'[i].phase \in TaskPhases'
    <3>1. TAKE i \in DOMAIN journal'
    <3>2. CASE i \in DOMAIN journal
      BY <3>2, <1>5, <2>1 DEF IInv, Spoken
    <3>3. CASE i = Len(journal) + 1
      BY <3>3, <1>5, <2>1, <2>2
    <3> QED
      BY <3>1, <3>2, <3>3, <1>5
  <2>4. Heard => Heard'
    BY <1>5, <1>8 DEF Heard, is_success_for
  <2> QED
    BY <1>2, <1>8, <2>1, <2>2, <2>3, <2>4 DEF IInv, Spoken
<1> QED
  BY <1>3, <1>7, <1>9, <1>10, <1>11, <1>12, <1>13 DEF IInv

\* A machine that powers off stays defined.
LEMMA PowersOff ==
  ASSUME IInv, GuestPowersOff
  PROVE  IInv'
<1> USE DEF GuestPowersOff, Running
<1>1. HostTyped'
  BY DEF IInv, HostTyped, HostRow
<1>2. RunTyped'
  BY DEF IInv, RunTyped
<1>3. Handled'
  BY DEF IInv, HostTyped, HostRow, Handled
<1>4. Made'
  BY DEF IInv, HostTyped, HostRow, Made, LiveBacking
<1>5. Ordered'
  BY DEF IInv, HostTyped, HostRow, Ordered, VerifiedIsClean, CleanupProves, Busy, Made
<1>6. Sources'
  BY DEF IInv, HostTyped, HostRow, Sources, NoTwoWriters, Released, Source
<1>7. Spoken'
  BY DEF IInv, HostTyped, HostRow, Spoken, Heard, NextPhase, TaskPhases
<1> QED
  BY <1>1, <1>2, <1>3, <1>4, <1>5, <1>6, <1>7 DEF IInv

-----------------------------------------------------------------------------
(* The actions.                                                            *)

\* Writing back what is there changes nothing.
LEMMA SameHost ==
  ASSUME IInv
  PROVE  [host EXCEPT !.raw = host.raw] = host /\ [host EXCEPT !.shards = host.shards] = host
         /\ host.raw \in BOOLEAN /\ run.plan \in {"hit", "miss"} /\ run.broken \in BOOLEAN
  BY DEF IInv, HostTyped, RunTyped, HostRow, RunRow

\* A failed source is a checkout to come, or the end.
LEMMA SourceLost ==
  ASSUME IInv, run.pc = "provision", run.step \in Filling, Moves(SourceFails, host)
  PROVE  IInv'
<1>1. CASE run.plan = "hit"
  BY <1>1, FallsBack, SameHost DEF SourceFails, Moves
<1>2. CASE run.plan # "hit"
  BY <1>2, SetupFails DEF SourceFails
<1> QED
  BY <1>1, <1>2

\* Every command of the setup, with each of its outcomes.
LEMMA ProvisionKeeps ==
  ASSUME IInv, Provision
  PROVE  IInv'
<1> USE DEF At, HostOnly
<1>1. CASE prepare_git_mirror
   BY <1>1, SetupFails, Ensured, Fetched DEF prepare_git_mirror, ensure, fetch_sha, Provisioned,
     Moves
<1>2. CASE resolve_build_plan
  BY <1>2, Planned DEF resolve_build_plan, Moves
<1>3. CASE ProvisionBoot
  BY <1>3, SetupFails, BootMade DEF ProvisionBoot, Provisioned, Moves
<1>4. CASE FormatSource
  <2>1. CASE run' = Go("losetup") /\ host' = [host EXCEPT !.raw = TRUE]
    BY <1>4, <2>1, Formatted DEF FormatSource, Moves
  <2>2. CASE run' = SourceFails /\ host' = host
    BY <1>4, <2>2, SourceLost DEF FormatSource, Moves, Filling
  <2>3. CASE run' = SourceFails /\ host' = [host EXCEPT !.raw = TRUE] /\ run.plan = "hit"
    BY <1>4, <2>3, FallsBack DEF FormatSource, Moves, SourceFails, Filling
  <2>4. CASE run' = SourceFails /\ host' = [host EXCEPT !.raw = TRUE] /\ run.plan # "hit"
    BY <1>4, <2>4, HalfFormatted DEF FormatSource, Moves, SourceFails
  <2> QED
    BY <1>4, <2>1, <2>2, <2>3, <2>4 DEF FormatSource
<1>5. CASE AttachLoop
  BY <1>5, Attached, SourceLost DEF AttachLoop, Moves, Filling
<1>6. CASE mount_and_populate \/ mount_and_seed_minimal
  BY <1>6, Mounts, MountFails DEF mount_and_populate, mount_and_seed_minimal, MountSource, Moves
<1>7. CASE populate_checkout \/ seed_into_mount
  BY <1>7, Fills, FillFails DEF populate_checkout, seed_into_mount, FillSource, Moves
<1>8. CASE unmount
  BY <1>8, Unmounts, UnmountFails DEF unmount, Moves
<1>9. CASE detach_loop
  <2>1. CASE run' = SourceFails /\ host' = host
    BY <1>9, <2>1, SourceLost DEF detach_loop, Moves, Filling
  <2> DEFINE Let_go == [host EXCEPT !.loop[Source] = Detached(Source)]
  <2>2. CASE ~run.broken /\ host' = Let_go /\ run' = Holding("source", AfterSource)
    BY <1>9, <2>2, Detaches DEF detach_loop, Moves
  <2>3. CASE run.broken /\ host' = Let_go /\ run' = SourceFails /\ run.plan = "hit"
    BY <1>9, <2>3, LoopLost DEF detach_loop, Moves, Source, SourceFails
  <2>4. CASE run.broken /\ host' = Let_go /\ run' = SourceFails /\ run.plan # "hit"
    BY <1>9, <2>4, CheckoutLost, SameHost DEF detach_loop, Moves, Source, SourceFails
  <2> QED
    BY <1>9, <2>1, <2>2, <2>3, <2>4 DEF detach_loop
<1>10. CASE ProvisionChainstate
  BY <1>10, SetupFails, ChainMade DEF ProvisionChainstate, Provisioned, Moves
<1>11. CASE provision_latest
  <2>1. ASSUME NEW k \in task.shards, host' = [host EXCEPT !.shards = @ \cup {k}],
               run' = IF host'.shards = task.shards THEN Holding("shards", "tmpfs") ELSE run
        PROVE  IInv'
    <3>1. host'.shards = host.shards \cup {k}
      BY <2>1 DEF IInv, HostTyped, HostRow
    <3> QED
      BY <1>11, <2>1, <3>1, ShardMade, ShardsMade DEF provision_latest, Moves
  <2>2. ASSUME NEW kept \in SUBSET host.shards, host' = [host EXCEPT !.shards = kept],
               run' = Finish(run, "setup_error")
        PROVE  IInv'
    BY <1>11, <2>2, ShardsFail DEF provision_latest, Moves
  <2> QED
    BY <1>11, <2>1, <2>2 DEF provision_latest
<1>12. CASE provision_results_share
  BY <1>12, SetupFails, TmpfsMade DEF provision_results_share, Provisioned, Moves
<1>13. CASE provision_artifacts
  BY <1>13, SetupFails, NothingToRun, Seeded DEF provision_artifacts, Provisioned, Moves
<1>14. CASE DefineDomain
  BY <1>14, SetupFails, Defined DEF DefineDomain, Provisioned, Moves
<1>15. CASE run_phase
  BY <1>15, SetupFails, Boots DEF run_phase, Moves
<1> QED
  BY <1>1, <1>2, <1>3, <1>4, <1>5, <1>6, <1>7, <1>8, <1>9, <1>10, <1>11, <1>12, <1>13, <1>14, <1>15
     DEF Provision

\* Both halves of a turn of the poll.
LEMMA PollKeeps ==
  ASSUME IInv, PollJournal \/ PollState
  PROVE  IInv'
<1> USE DEF HostOnly
<1>1. CASE PollJournal
  <2> DEFINE new == {journal[i] : i \in (run.offset + 1)..Len(journal)}
             s == run.seen \/ \E e \in new : is_success_for(run.phase, e)
  <2>1. s \in BOOLEAN /\ (s => run.seen \/ Heard)
    <3>1. (run.offset + 1)..Len(journal) \subseteq DOMAIN journal
      BY DEF IInv, RunTyped, RunRow
    <3> QED
      BY <3>1 DEF Heard, IInv, RunTyped, RunRow
  <2>2. CASE run' = [run EXCEPT !.pc = "state", !.offset = Len(journal), !.seen = s]
    <3>1. run.pc = "journal" /\ UNCHANGED <<task, host, guest, journal>>
      BY <1>1 DEF PollJournal
    <3>2. CASE s
      <4>1. s = TRUE
        BY <2>1, <3>2, Zenon
      <4>2. Moves([run EXCEPT !.pc = "state", !.offset = Len(journal), !.seen = TRUE], host)
        BY <2>2, <3>1, <4>1, Zenon DEF Moves
      <4> QED
        BY <2>1, <3>1, <3>2, <4>2, SuccessRead DEF Moves
    <3>3. CASE ~s
      <4>1. s = FALSE
        BY <2>1, <3>3, Zenon
      <4>2. Moves([run EXCEPT !.pc = "state", !.offset = Len(journal), !.seen = FALSE], host)
        BY <2>2, <3>1, <4>1, Zenon DEF Moves
      <4> QED
        BY <3>1, <4>2, JournalRead DEF Moves
    <3> QED
      BY <3>2, <3>3
  <2>3. CASE run' = Finish(run, "cancelled") \/ run' = Finish(run, "phase_error")
    BY <1>1, <2>3, Ends DEF PollJournal, Moves
  <2> QED
    BY <1>1, <2>2, <2>3 DEF PollJournal
<1>2. CASE PollState
  <2>1. CASE ~Running /\ Verdict = "done" /\ PhaseDone
    <3>1. run.seen
      BY <2>1 DEF Verdict
    <3>2. run' = AfterPhase \/ run' = Finish(run, "setup_error")
      BY <2>1 DEF PhaseDone, publish_built_binary, ReduceValidation
    <3> QED
      BY <1>2, <2>1, <3>1, <3>2, Completes, Continues, Ends DEF PollState, AfterPhase, Moves
  <2>2. CASE run' = Finish(run, "shut_off") \/ run' = Finish(run, "timeout")
    BY <1>2, <2>2, Ends DEF PollState, Moves
  <2>3. CASE run' = [run EXCEPT !.pc = "journal"]
    BY <1>2, <2>3, PollsAgain DEF PollState, Moves
  <2> QED
    BY <1>2, <2>1, <2>2, <2>3 DEF PollState, Verdict
<1> QED
  BY <1>1, <1>2

\* Every step of the teardown.
LEMMA TeardownKeeps ==
  ASSUME IInv, Teardown
  PROVE  IInv'
<1> USE DEF At, HostOnly, Skip, Has
<1>1. CASE destroy
  BY <1>1, Destroyed, StopFails DEF destroy, StopDomain, Moves
<1>2. CASE undefine
  BY <1>2, UndefineSkipped, Undefined, StopFails DEF undefine, StopDomain, Moves
<1>0. ASSUME NEW s \in Going \ {"destroy", "undefine", "umount_tmpfs"},
             run.pc = "teardown", run.step \notin {"destroy", "undefine", "rmdir"},
             Moves(Unverified(s), host)
      PROVE  IInv'
  BY <1>0, Unreleased, SameHost DEF Moves
<1>3. CASE UnmountResults
  BY <1>3, <1>0, TmpfsSkipped, TmpfsGone DEF UnmountResults, Release, Moves, Going
<1>4. CASE RemoveChainstate
  BY <1>4, <1>0, ChainSkipped, ChainGone DEF RemoveChainstate, Release, Moves, Going
<1>5. CASE RemoveShards
  <2>1. CASE Release("shards", "shards", "raw", [host EXCEPT !.shards = {}])
    BY <2>1, <1>0, ShardsSkipped, ShardsGone DEF Release, Moves, Going
  <2>2. ASSUME NEW k \in host.shards, run.pc = "teardown", run.step = "shards",
               Moves(Unverified("raw"), [host EXCEPT !.shards = {k}])
        PROVE  IInv'
    BY <2>2, Unreleased DEF Going
  <2> QED
    BY <1>5, <2>1, <2>2 DEF RemoveShards, Moves
<1>6. CASE RemoveSource
  BY <1>6, <1>0, RawSkipped, RawGone DEF RemoveSource, Release, Moves, Going
<1>7. CASE RemoveBoot
  BY <1>7, <1>0, BootSkipped, BootGone DEF RemoveBoot, Release, Moves, Going
<1>8. CASE prune
  BY <1>8, Pruned, CPruned DEF prune, Moves
<1>9. CASE RemoveJobDir
  BY <1>9, DirGone, DirStays DEF RemoveJobDir, Moves
<1> QED
  BY <1>1, <1>2, <1>3, <1>4, <1>5, <1>6, <1>7, <1>8, <1>9 DEF Teardown

\* Every step of the cleanup.
LEMMA CleanupKeeps ==
  ASSUME IInv, Cleanup
  PROVE  IInv'
<1> USE DEF At, HostOnly
<1>0. ASSUME run.pc = "cleanup", Moves(Outstanding, host)
      PROVE  IInv'
  BY <1>0, GivesUp, SameHost DEF Moves
<1>1. CASE cleanup_attempt
  BY <1>1, CleanupBegins DEF cleanup_attempt, Moves
<1>2. CASE CleanupDomain
  <2>1. CASE domstate
    BY <2>1, <1>0, Asked DEF domstate, Moves, IInv, HostTyped, HostRow
  <2>2. CASE ForceDomain("destroy", "undefine", "shut_off")
    BY <2>2, <1>0, Forced DEF ForceDomain, Moves
  <2>3. CASE ForceDomain("undefine", "umount_tmpfs", "undefined")
    BY <2>3, <1>0, Vanished DEF ForceDomain, Moves
  <2> QED
    BY <1>2, <2>1, <2>2, <2>3 DEF CleanupDomain
<1>3. CASE umount_best_effort
  BY <1>3, UmountT, UmountLost, UmountS DEF umount_best_effort, BestEffort, Topmost, Moves, Loops
<1>4. CASE detach_source_loop
  BY <1>4, LoopsFreed, NoFile, Doubt, DoubtOne DEF detach_source_loop, Moves
<1>5. CASE CleanupChainstate
  BY <1>5, LvGone DEF CleanupChainstate, BestEffort, Moves
<1>6. CASE CleanupJobDir
  BY <1>6, <1>0, CDirGone, CDir DEF CleanupJobDir, Moves
<1>7. CASE cleanup_block_snapshot_set
  <2>1. CASE run' = Outstanding
    <3>1. host.dom = "undefined"
      BY <1>7 DEF cleanup_block_snapshot_set, IInv, Ordered
    <3> QED
      BY <1>7, <2>1, <3>1, GivesUp, Cleaned DEF cleanup_block_snapshot_set, Moves
  <2>2. CASE run' # Outstanding
    BY <1>7, <2>2, Cleaned DEF cleanup_block_snapshot_set, Moves
  <2> QED
    BY <2>1, <2>2
<1> QED
  BY <1>1, <1>2, <1>3, <1>4, <1>5, <1>6, <1>7 DEF Cleanup

-----------------------------------------------------------------------------
\* An attempt begins with an empty host.
LEMMA InitHolds == DriverInit => IInv
<1> SUFFICES ASSUME DriverInit PROVE IInv
  OBVIOUS
<1> USE DEF DriverInit
<1>1. HostTyped
  BY DEF HostTyped, HostRow, Loops
<1>2. RunTyped
  BY DEF RunTyped, RunRow, Early, Phases
<1>3. Handled
  BY DEF Handled
<1>4. Made
  BY DEF Made, LiveBacking, Early, Filling, Late
<1>5. Ordered
  BY DEF Ordered, VerifiedIsClean, CleanupProves
<1>6. Sources
  BY DEF Sources, NoTwoWriters, Released, Source, Early, Late, Loops
<1>7. Spoken
  BY DEF Spoken
<1> QED
  BY <1>1, <1>2, <1>3, <1>4, <1>5, <1>6, <1>7 DEF IInv

\* Every step keeps the invariant.
LEMMA NextKeeps == IInv /\ [DriverNext]_driverVars => IInv'
<1> SUFFICES ASSUME IInv, [DriverNext]_driverVars PROVE IInv'
  OBVIOUS
<1>1. CASE Driver
  BY <1>1, ProvisionKeeps, PollKeeps, TeardownKeeps, CleanupKeeps DEF Driver
<1>2. CASE GuestWrites
  BY <1>2, Writes
<1>3. CASE GuestPowersOff
  BY <1>3, PowersOff
<1>4. CASE Cancel
  BY <1>4, Cancels DEF Cancel, Moves
<1>5. CASE DriverCrash
  BY <1>5, Crashes DEF DriverCrash, HostOnly, Moves
<1>6. CASE UNCHANGED driverVars
  <2>1. Moves(run, host)
    BY <1>6 DEF driverVars, Moves
  <2> QED
     BY <2>1 DEF Moves, IInv, HostTyped, RunTyped, Handled, Made, LiveBacking, Ordered,
       VerifiedIsClean,
                CleanupProves, Busy, Sources, NoTwoWriters, Released, Source, Spoken, Heard,
                NextPhase, TaskPhases
<1> QED
  BY <1>1, <1>2, <1>3, <1>4, <1>5, <1>6 DEF DriverNext

\* The inductive invariant holds in every state of every attempt.
THEOREM DriverInvariant == DriverSpec => []IInv
  BY InitHolds, NextKeeps, PTL DEF DriverSpec

\* An attempt that completes was said to have succeeded by its last machine, or by the
\* calibration before it: the entry that was read is of a machine of the same task.
LEMMA SaidSo == IInv => SuccessIsReal
<1> SUFFICES ASSUME IInv, Completed, run.phase # "none" PROVE SuccessIsReal
  BY DEF SuccessIsReal
<1>1. NextPhase = "none" /\ Heard
  BY DEF Completed, IInv, Spoken
<1>2. PICK i \in DOMAIN journal : is_success_for(run.phase, journal[i])
  BY <1>1 DEF Heard
<1>3. journal[i].phase \in TaskPhases /\ run.phase \in TaskPhases
  BY DEF IInv, Spoken
<1>4. journal[i].phase = run.phase \/ (task.shared /\ journal[i].phase = "calibrate")
  BY <1>1, <1>2, <1>3, DriverAssumption DEF is_success_for, TaskPhases, NextPhase, IInv, HostTyped
<1> QED
  BY <1>1, <1>2, <1>4 DEF SuccessIsReal, is_success_for

\* Whatever command fails and wherever the driver dies, nothing a defined domain is
\* made of is taken from under it, no machine shares its source disk with the host, a
\* cleanup or teardown that reports success has proved what it says, and an attempt
\* completes only when its last machine said so (driver.rs, run_benchmark, teardown
\* and cleanup_attempt).
THEOREM MachinesAccountedAlways == DriverSpec => []MachinesAccounted
<1>1. IInv => MachinesAccounted
  BY SaidSo DEF MachinesAccounted, IInv, Made, Ordered, Sources
<1> QED
  BY <1>1, DriverInvariant, PTL
=============================================================================
