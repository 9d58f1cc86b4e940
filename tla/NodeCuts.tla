------------------------------- MODULE NodeCuts -------------------------------
(***************************************************************************)
(* A managed stacks-node driven through a plan of cuts: at each cut the    *)
(* backfill installs the release, starts the node and runs the snapshot    *)
(* script, which waits for the height, stops and quiesces the node, takes  *)
(* a thin snapshot and writes its provenance.  The node goes on producing  *)
(* blocks whenever it runs.  A command can fail, and a signal can arrive   *)
(* between a command and the assignment that remembers it.                 *)
(*                                                                         *)
(* The operator runs the plan with --from alone: --only, --through,        *)
(* --skip-install, --skip-start and --dry-run are left out, as is          *)
(* force_install, which runs the install hook again for the same release.  *)
(***************************************************************************)
EXTENDS Integers, Sequences, FiniteSets

CONSTANTS
    Cuts,            \* the plan: [target, release, enabled, command], enabled as cut_enabled
                     \* reads it (jq's // takes a plain false for an absent value, and runs it)
    Boundaries,      \* heights at which an epoch starts
    Quiesce,         \* "sync", "fsfreeze" or "umount"
    RestartAfter,    \* restart_after_snapshot of the plan
    AllowDrift,      \* allow_epoch_drift of the plan
    Validate,        \* unless validate_snapshot of the plan adds --no-validate
    RestartOnFailure,\* --restart-on-failure
    FollowHint,      \* the operator resumes where the script tells, or as the usage tells
    MaxHeight,       \* bound: the chain's height
    MaxRuns,         \* bound: runs of the backfill
    MaxFaults,       \* bound: failing commands
    MaxSignals       \* bound: signals

Heights == 0..MaxHeight
CutIds == 1..Len(Cuts)

CutsAssumption ==
    /\ \A c \in CutIds : Cuts[c].target \in Heights /\ Cuts[c].enabled \in BOOLEAN
    /\ Quiesce \in {"sync", "fsfreeze", "umount"}
    /\ RestartAfter \in BOOLEAN /\ AllowDrift \in BOOLEAN /\ Validate \in BOOLEAN
    /\ RestartOnFailure \in BOOLEAN

VARIABLES
    host,      \* the node, its filesystem, the snapshots and their sidecars
    bf,        \* the backfill
    sn,        \* the snapshot script it runs
    spent      \* faults, signals and runs used up

vars == <<host, bf, sn, spent>>

NoScript == [pc |-> "none", cut |-> 0, stopped |-> FALSE, frozen |-> FALSE, unmounted |-> FALSE,
             tip |-> 0, producer |-> 0, valid |-> "not_run", rc |-> 0]

Init ==
    /\ host = [node |-> "down", runs |-> 0, bin |-> 0, height |-> 0, fs |-> "mounted",
               held |-> {}, lvs |-> {}, sidecars |-> {}]
    /\ bf = [pc |-> "idle", from |-> 1, idx |-> 0, release |-> 0, current |-> 0, last |-> 0, rc |-> 0]
    /\ sn = NoScript
    /\ spent = [faults |-> 0, signals |-> 0, runs |-> 0]

epoch_for_burn_height(h) == Cardinality({b \in Boundaries : b <= h})

Cut == Cuts[sn.cut]
Name == <<sn.cut, sn.tip>>

-----------------------------------------------------------------------------
(* The node.                                                               *)

Advance ==
    /\ host.node = "up" /\ host.fs = "mounted" /\ host.height < MaxHeight
    /\ host' = [host EXCEPT !.height = @ + 1]
    /\ UNCHANGED <<bf, sn, spent>>

\* Starting a running service changes nothing: it keeps the binary it runs.
Started(h) == [h EXCEPT !.node = "up", !.runs = IF h.node = "up" THEN @ ELSE h.bin]

-----------------------------------------------------------------------------
(* The snapshot script.  Under set -e a failing command ends it; the traps *)
(* run the cleanup on every exit.                                          *)

Fault == spent.faults < MaxFaults /\ spent' = [spent EXCEPT !.faults = @ + 1]
Signal == spent.signals < MaxSignals /\ spent' = [spent EXCEPT !.signals = @ + 1]

die(s) == [s EXCEPT !.pc = "restore", !.rc = 1]

\* A command that works and is remembered, that fails, or that works and is
\* cut off by a signal before the script remembers it.
Command(pc, made, remembered) ==
    /\ sn.pc = pc
    /\ \/ host' = made /\ sn' = remembered /\ UNCHANGED spent
       \/ Fault /\ sn' = die(sn) /\ UNCHANGED host
       \/ Signal /\ host' = made /\ sn' = die(sn)
    /\ UNCHANGED bf

\* Polling: a node that does not answer ends the script.
Reached(h) == h >= Cut.target

wait_until_cut ==
    /\ sn.pc = "wait"
    /\ \/ /\ host.node = "up" /\ UNCHANGED spent
          /\ sn' = [sn EXCEPT !.pc = IF Reached(host.height) THEN "tip" ELSE "wait"]
       \/ host.node = "down" /\ sn' = die(sn) /\ UNCHANGED spent
       \/ Fault /\ sn' = die(sn)
    /\ UNCHANGED <<host, bf>>

\* The release recorded is the plan's; the one compared is what the node reports.
ProducerAccepted == host.runs = Cut.release

EpochAccepted ==
    epoch_for_burn_height(host.height) = epoch_for_burn_height(Cut.target) \/ AllowDrift

check_snapshot_absent == \A lv \in host.lvs : lv.name # <<sn.cut, host.height>>

\* The last read of the tip, with every check that rejects the cut before the
\* node is stopped.
snapshot_current_info ==
    /\ sn.pc = "tip"
    /\ \/ /\ host.node = "up" /\ ProducerAccepted /\ EpochAccepted /\ check_snapshot_absent
          /\ sn' = [sn EXCEPT !.pc = "stop", !.tip = host.height, !.producer = Cut.release]
          /\ UNCHANGED spent
       \/ /\ ~(host.node = "up" /\ ProducerAccepted /\ EpochAccepted /\ check_snapshot_absent)
          /\ sn' = die(sn) /\ UNCHANGED spent
       \/ Fault /\ sn' = die(sn)
    /\ UNCHANGED <<host, bf>>

stop_node == Command("stop", [host EXCEPT !.node = "down"], [sn EXCEPT !.pc = "quiesce", !.stopped = TRUE])

\* The mount must be there and free for the stronger modes.
MutQuiesceBase == Command("quiesce", host, [sn EXCEPT !.pc = "lvcreate"])
quiesce_base_lv ==
    \/ Quiesce = "sync" /\ Command("quiesce", host, [sn EXCEPT !.pc = "lvcreate"])
    \/ /\ Quiesce = "fsfreeze" /\ host.fs = "mounted"
       /\ Command("quiesce", [host EXCEPT !.fs = "frozen"], [sn EXCEPT !.pc = "lvcreate", !.frozen = TRUE])
    \/ /\ Quiesce = "umount" /\ host.fs = "mounted"
       /\ Command("quiesce", [host EXCEPT !.fs = "unmounted"], [sn EXCEPT !.pc = "lvcreate", !.unmounted = TRUE])
    \/ /\ sn.pc = "quiesce" /\ Quiesce # "sync" /\ host.fs # "mounted"
       /\ sn' = die(sn) /\ UNCHANGED <<host, bf, spent>>

lvcreate ==
    Command("lvcreate",
            [host EXCEPT !.lvs = @ \cup {[name |-> Name, height |-> host.height, by |-> host.runs,
                                          node |-> host.node, fs |-> host.fs, mode |-> "rw",
                                          active |-> TRUE]}],
            [sn EXCEPT !.pc = "readonly"])

Changed(field, value) ==
    [host EXCEPT !.lvs = {IF lv.name = Name
                          THEN [lv EXCEPT !.mode = IF field = "mode" THEN value ELSE @,
                                          !.active = IF field = "active" THEN value ELSE @]
                          ELSE lv : lv \in @}]

lvchange_readonly == Command("readonly", Changed("mode", "ro"), [sn EXCEPT !.pc = "unfreeze"])

\* A frozen base is thawed before the validation, an unmounted one after it.
Unfrozen(h) == [h EXCEPT !.fs = IF @ = "frozen" THEN "mounted" ELSE @]
Remounted(h) == [h EXCEPT !.fs = IF @ = "unmounted" THEN "mounted" ELSE @]

ThawBase ==
    \/ /\ sn.pc = "unfreeze" /\ ~sn.frozen
       /\ sn' = [sn EXCEPT !.pc = "validate"] /\ UNCHANGED <<host, bf, spent>>
    \/ sn.frozen /\ Command("unfreeze", Unfrozen(host), [sn EXCEPT !.pc = "validate", !.frozen = FALSE])

\* The validation runs without set -e: a failing unmount leaves the snapshot
\* mounted and is not noticed here.
validate_snapshot ==
    /\ sn.pc = "validate"
    /\ \/ /\ UNCHANGED <<host, spent>>
          /\ sn' = [sn EXCEPT !.pc = "deactivate", !.valid = IF Validate THEN "ok" ELSE "skipped"]
       \/ /\ Validate /\ Fault /\ UNCHANGED host
          /\ sn' = [sn EXCEPT !.pc = "deactivate", !.valid = "failed"]
       \/ /\ Validate /\ Fault /\ host' = [host EXCEPT !.held = @ \cup {Name}]
          /\ sn' = [sn EXCEPT !.pc = "deactivate", !.valid = "ok"]
    /\ UNCHANGED bf

\* A mounted snapshot cannot be deactivated.
lvchange_inactive ==
    \/ Name \notin host.held /\ Command("deactivate", Changed("active", FALSE), [sn EXCEPT !.pc = "remount"])
    \/ /\ sn.pc = "deactivate" /\ Name \in host.held
       /\ sn' = die(sn) /\ UNCHANGED <<host, bf, spent>>

RemountBase ==
    \/ /\ sn.pc = "remount" /\ ~sn.unmounted
       /\ sn' = [sn EXCEPT !.pc = "sidecar"] /\ UNCHANGED <<host, bf, spent>>
    \/ sn.unmounted /\ Command("remount", Remounted(host), [sn EXCEPT !.pc = "sidecar", !.unmounted = FALSE])

metadata_json ==
    [name |-> Name, epoch |-> epoch_for_burn_height(sn.tip), producer |-> sn.producer, status |-> sn.valid]

\* The sidecar is written whatever the validation found; only then does it fail.
write_metadata ==
    Command("sidecar", [host EXCEPT !.sidecars = @ \cup {metadata_json}],
            IF sn.valid = "failed" THEN die(sn) ELSE [sn EXCEPT !.pc = "start"])

start_node ==
    \/ /\ sn.pc = "start" /\ ~RestartAfter
       /\ sn' = [sn EXCEPT !.pc = "restore", !.rc = 0] /\ UNCHANGED <<host, bf, spent>>
    \/ RestartAfter /\ Command("start", Started(host), [sn EXCEPT !.pc = "restore", !.rc = 0, !.stopped = FALSE])

\* The cleanup on exit goes by what the script remembers, and does not stop at
\* a failing command.
Restored(h) ==
    IF sn.frozen THEN Unfrozen(h) ELSE IF sn.unmounted THEN Remounted(h) ELSE h

cleanup ==
    /\ sn.pc = "restore"
    /\ \/ UNCHANGED spent /\ host' = Restored(host)
       \/ (sn.frozen \/ sn.unmounted) /\ Fault /\ UNCHANGED host
    /\ sn' = [sn EXCEPT !.pc = "restart", !.frozen = FALSE, !.unmounted = FALSE]
    /\ UNCHANGED bf

restart_after_failure ==
    /\ sn.pc = "restart"
    /\ LET owed == sn.rc # 0 /\ sn.stopped /\ RestartAfter
       IN  \/ host' = (IF owed THEN Started(host) ELSE host) /\ UNCHANGED spent
           \/ owed /\ Fault /\ UNCHANGED host
    /\ sn' = [sn EXCEPT !.pc = "exited", !.stopped = FALSE]
    /\ UNCHANGED bf

-----------------------------------------------------------------------------
(* The backfill.                                                           *)

\* Targets never move backwards along the plan.
check_plan == \A i, j \in CutIds : i < j => Cuts[i].target <= Cuts[j].target

\* A cut counts as completed when its sidecar does not say the snapshot is bad.
Good(s) == s.status # "failed"
Completed(c) == \E s \in host.sidecars : s.name[1] = c /\ Good(s)

\* Where the operator resumes: at the cut the script named, or at the next enabled
\* one when the snapshot had completed.
NextEnabled(c) == {n \in CutIds : n > c /\ Cuts[n].enabled /\ \A m \in (c + 1)..(n - 1) : ~Cuts[m].enabled}
Resume ==
    IF bf.current = 0 THEN NextEnabled(bf.last)
    ELSE IF FollowHint \/ ~Completed(bf.current) THEN {bf.current} ELSE NextEnabled(bf.current)

run_plan ==
    /\ bf.pc = "idle" /\ spent.runs < MaxRuns /\ check_plan
    /\ \E from \in Resume :
         bf' = [bf EXCEPT !.pc = "cut", !.from = from, !.idx = 0, !.release = 0, !.current = 0]
    /\ spent' = [spent EXCEPT !.runs = @ + 1]
    /\ UNCHANGED <<host, sn>>

should_run_cut(c) == c >= bf.from

\* The next enabled cut of the range, or the end of the plan.
NextCut ==
    /\ bf.pc = "cut"
    /\ IF bf.idx = Len(Cuts) THEN bf' = [bf EXCEPT !.pc = "idle", !.rc = 0, !.idx = 0]
       ELSE LET c == bf.idx + 1
            IN  IF Cuts[c].enabled /\ should_run_cut(c)
                THEN bf' = [bf EXCEPT !.idx = c, !.current = c, !.pc = "install"]
                ELSE bf' = [bf EXCEPT !.idx = c]
    /\ UNCHANGED <<host, sn, spent>>

BackfillFails == [bf EXCEPT !.pc = "failed", !.rc = 1]

\* The install hook, when the release changes.
install_release ==
    /\ bf.pc = "install"
    /\ \/ /\ UNCHANGED spent
          /\ bf' = [bf EXCEPT !.pc = "start", !.release = Cuts[bf.idx].release]
          /\ host' = IF Cuts[bf.idx].release = bf.release THEN host
                     ELSE [host EXCEPT !.bin = Cuts[bf.idx].release]
       \/ Cuts[bf.idx].release # bf.release /\ Fault /\ bf' = BackfillFails /\ UNCHANGED host
    /\ UNCHANGED sn

start_current_service ==
    /\ bf.pc = "start"
    /\ \/ UNCHANGED spent /\ host' = Started(host) /\ bf' = [bf EXCEPT !.pc = "snapshot"]
       \/ Fault /\ UNCHANGED host /\ bf' = BackfillFails
    /\ UNCHANGED sn

run_snapshot ==
    /\ bf.pc = "snapshot" /\ sn.pc = "none"
    /\ sn' = [NoScript EXCEPT !.cut = bf.idx, !.pc = IF Cuts[bf.idx].command = "wait-cut" THEN "wait" ELSE "tip"]
    /\ UNCHANGED <<host, bf, spent>>

snapshot_returns ==
    /\ bf.pc = "snapshot" /\ sn.pc = "exited"
    /\ bf' = IF sn.rc = 0 THEN [bf EXCEPT !.pc = "after"] ELSE BackfillFails
    /\ sn' = [NoScript EXCEPT !.rc = sn.rc]
    /\ UNCHANGED <<host, spent>>

after_snapshot ==
    /\ bf.pc = "after"
    /\ \/ UNCHANGED spent /\ bf' = [bf EXCEPT !.pc = "cut", !.last = bf.current, !.current = 0]
       \/ Fault /\ bf' = BackfillFails
       \/ Signal /\ bf' = BackfillFails
    /\ UNCHANGED <<host, sn>>

backfill_cleanup ==
    /\ bf.pc = "failed"
    /\ bf' = [bf EXCEPT !.pc = "idle", !.idx = 0]
    /\ host' = IF RestartOnFailure THEN Started(host) ELSE host
    /\ UNCHANGED <<sn, spent>>

-----------------------------------------------------------------------------
Script ==
    \/ wait_until_cut \/ snapshot_current_info \/ stop_node \/ quiesce_base_lv \/ lvcreate
    \/ lvchange_readonly \/ ThawBase \/ validate_snapshot \/ lvchange_inactive \/ RemountBase
    \/ write_metadata \/ start_node \/ cleanup \/ restart_after_failure

Backfill ==
    \/ NextCut \/ install_release \/ start_current_service \/ run_snapshot \/ snapshot_returns
    \/ after_snapshot \/ backfill_cleanup

Next == Advance \/ Script \/ Backfill \/ run_plan

Spec == Init /\ [][Next]_vars

-----------------------------------------------------------------------------
(* Properties.                                                             *)

QuiescedFs == CASE Quiesce = "sync" -> "mounted" [] Quiesce = "fsfreeze" -> "frozen" [] OTHER -> "unmounted"

\* A snapshot whose sidecar is not marked failed, its validation skipped or passed, is
\* a read-only, inactive image of a stopped node on a quiesced filesystem, made by the
\* very release the sidecar names, at or past the height in its name.
GoodSidecarsTrue ==
    \A s \in host.sidecars : Good(s) =>
        \E lv \in host.lvs :
            /\ lv.name = s.name /\ lv.mode = "ro" /\ ~lv.active
            /\ lv.node = "down" /\ lv.fs = QuiescedFs
            /\ lv.by = s.producer /\ lv.height >= s.name[2]

\* However the snapshot script ends, with a command of its own having failed or not,
\* the base filesystem is mounted and writable, and the node is back if it was to be:
\* without signals, and unless a second command fails in the cleanup (which goes on).
LeavesNodeAsFound ==
    (sn.pc = "exited" /\ spent.signals = 0) =>
        host.fs = "mounted" /\ (RestartAfter => host.node = "up")

\* A backfill that ends without an error has a good snapshot of every enabled cut of
\* its range, and of every cut before it that an earlier run was told to make.
SuccessIsComplete ==
    (bf.pc = "idle" /\ spent.runs > 0 /\ bf.rc = 0) =>
        \A c \in CutIds : Cuts[c].enabled => Completed(c)

\* No cut has two good snapshots, so an event names one chainstate, for an operator
\* who resumes as the usage says (the hint the script prints names the current cut,
\* whose snapshot may have completed before the failure).
OneSnapshotPerCut ==
    \A s, t \in host.sidecars :
        s.name[1] = t.name[1] /\ Good(s) /\ Good(t) => s = t
=============================================================================
