--------------------------- MODULE BlockValidation ---------------------------
(***************************************************************************)
(* The validation of a range of blocks by the processes of one machine.    *)
(* The guest's runner probes the chainstate, plans shards and commands by  *)
(* itself, runs them side by side and writes a result; the host plans the  *)
(* same range again from the probed counts and reduces the result to a     *)
(* verdict, or rejects it.                                                 *)
(*                                                                         *)
(* Blocks are numbered as the plan numbers them: the pre-Nakamoto ones     *)
(* from 0, the Nakamoto ones after them.  Ranges are inclusive.            *)
(***************************************************************************)
EXTENDS Integers, Sequences, FiniteSets, SequencesExt, FiniteSetsExt

CONSTANTS
    Selections,      \* [kind |-> "full"], [kind |-> "recent", block_count |-> n] or
                     \* [kind |-> "range", range |-> [start, end]]
    Observed,        \* pairs [pre, naka] a chainstate may hold
    Targets,         \* target_blocks_per_shard
    MaxShards,       \* max_shards of the local profile
    Ceilings,        \* max_concurrency of the local profile
    MaxFaults        \* bound: failing probes, faulty processes and the timeout

ProfileAssumption ==
    /\ \A t \in Targets : t \in Nat \ {0}
    /\ MaxShards \in Nat \ {0}
    /\ \A c \in Ceilings : c \in 1..MaxShards
    /\ MaxFaults \in Nat

VARIABLES
    job,       \* the trusted plan, and the chainstate it is about
    vm,        \* the runner of the guest and its processes
    seen,      \* how often each block has been validated
    outcome,   \* of the reducer
    spent      \* faults used up

vars == <<job, vm, seen, outcome, spent>>

Span(range) == range.end - range.start + 1
Total(obs) == obs.pre + obs.naka
IsRecent(selection) == selection.kind = "recent"

-----------------------------------------------------------------------------
(* The host's planning.                                                    *)

MutPlanned(block_count, target, max_shards) == Min({block_count \div target + 1, max_shards})
planned_shard_count(block_count, target, max_shards) ==
    Min({block_count \div target + (IF block_count % target # 0 THEN 1 ELSE 0), max_shards})

\* Snapshots are made before the chainstate is probed.
provisioned_block_snapshot_count(selection, target, max_shards) ==
    CASE IsRecent(selection)      -> 1
      [] selection.kind = "full"  -> max_shards
      [] selection.kind = "range" -> planned_shard_count(Span(selection.range), target, max_shards)

Resolvable(selection, obs) ==
    obs.pre > 0 /\ obs.naka > 0 /\ (selection.kind = "range" => selection.range.end < Total(obs))

resolved_range(selection, obs) ==
    CASE IsRecent(selection)      -> [start |-> Total(obs) - Min({selection.block_count, obs.naka}),
                                      end |-> Total(obs) - 1]
      [] selection.kind = "full"  -> [start |-> 0, end |-> Total(obs) - 1]
      [] selection.kind = "range" -> selection.range

epoch_segments(range, pre) ==
    (IF range.start < pre
     THEN LET part == [start |-> range.start, end |-> Min({range.end, pre - 1})]
          IN  << [epoch |-> "pre_nakamoto", global |-> part, local |-> part] >>
     ELSE <<>>)
    \o
    (IF range.end >= pre
     THEN LET start == Max({range.start, pre})
          IN  << [epoch |-> "nakamoto", global |-> [start |-> start, end |-> range.end],
                  local |-> [start |-> start - pre, end |-> range.end - pre]] >>
     ELSE <<>>)

resolve_execution_plan(selection, obs, target, max_shards, max_concurrency) ==
    LET range == resolved_range(selection, obs)
        shard_count == IF IsRecent(selection) THEN 1
                       ELSE planned_shard_count(Span(range), target, max_shards)
    IN  [range |-> range, segments |-> epoch_segments(range, obs.pre), shard_count |-> shard_count,
         max_concurrency |-> Min({shard_count, max_concurrency})]

\* Shard k starts where the cursor stands after k shards.
partition(range, requested_shards) ==
    LET n == Min({requested_shards, Span(range)})
        length(k) == Span(range) \div n + (IF k < Span(range) % n THEN 1 ELSE 0)
        cursor[k \in 0..n] == IF k = 0 THEN range.start ELSE cursor[k - 1] + length(k - 1)
    IN  [i \in 1..n |-> [index |-> i - 1, start |-> cursor[i - 1], end |-> cursor[i] - 1]]

expected_commands(shard, selection, pre) ==
    IF IsRecent(selection)
    THEN << [kind |-> "last", start |-> shard.start - pre, end_exclusive |-> shard.end - pre + 1] >>
    ELSE (IF shard.start < pre
          THEN << [kind |-> "index-range", start |-> shard.start,
                   end_exclusive |-> Min({shard.end, pre - 1}) + 1] >>
          ELSE <<>>)
         \o
         (IF shard.end >= pre
          THEN << [kind |-> "naka-index-range", start |-> Max({shard.start, pre}) - pre,
                   end_exclusive |-> shard.end - pre + 1] >>
          ELSE <<>>)

-----------------------------------------------------------------------------
(* The guest's planning, from the runner's script.                         *)

guest_requested(selection, pre, naka) ==
    CASE IsRecent(selection)      -> LET count == Min({selection.block_count, naka})
                                     IN  [start |-> pre + naka - count, end |-> pre + naka - 1]
      [] selection.kind = "full"  -> [start |-> 0, end |-> pre + naka - 1]
      [] selection.kind = "range" -> selection.range

guest_segments(requested, pre) ==
    LET segment(epoch, first, last, base) ==
          IF first <= last
          THEN << [epoch |-> epoch, global |-> [start |-> first, end |-> last],
                   local |-> [start |-> first - base, end |-> last - base]] >>
          ELSE <<>>
    IN  segment("pre_nakamoto", requested.start, Min({requested.end, pre - 1}), 0)
        \o segment("nakamoto", Max({requested.start, pre}), requested.end, pre)

guest_shard_count(selection, count, target, max_shards) ==
    IF IsRecent(selection) THEN 1 ELSE Min({(count + target - 1) \div target, max_shards})

guest_commands(selection, first, last, pre) ==
    IF IsRecent(selection) THEN << <<"last", first - pre, last - pre>> >>
    ELSE (IF first < pre THEN << <<"index-range", first, Min({last, pre - 1})>> >> ELSE <<>>)
         \o (IF last >= pre
             THEN << <<"naka-index-range", Max({first, pre}) - pre, last - pre>> >> ELSE <<>>)

\* The script's cursor, in closed form.
guest_ranges(selection, requested, pre, shard_count) ==
    LET base == Span(requested) \div shard_count
        remainder == Span(requested) % shard_count
        first(i) == requested.start + i * base + Min({i, remainder})
    IN  [k \in 1..shard_count |->
           [index |-> k - 1, start |-> first(k - 1), end |-> first(k) - 1,
            commands |-> guest_commands(selection, first(k - 1), first(k) - 1, pre)]]

-----------------------------------------------------------------------------
(* The run.                                                                *)

Blocks == 0..(Total(job.obs) - 1)

Init ==
    \E selection \in Selections, obs \in Observed, target \in Targets, ceiling \in Ceilings :
    \E bad \in SUBSET (0..(Total(obs) - 1)) :
        /\ Cardinality(bad) <= 1
        /\ job = [selection |-> selection, target |-> target, max_concurrency |-> ceiling,
                  devices |-> provisioned_block_snapshot_count(selection, target, MaxShards),
                  obs |-> obs, bad |-> bad]
        /\ vm = [pc |-> "probe", probes |-> <<>>, plan |-> <<>>, pending |-> <<>>,
                 active |-> <<>>, finished |-> {}, shown |-> 0]
        /\ seen = [b \in 0..(Total(obs) - 1) |-> 0]
        /\ outcome = [kind |-> "none"]
        /\ spent = 0

Works == UNCHANGED spent
Fails == spent < MaxFaults /\ spent' = spent + 1
Die == [vm EXCEPT !.pc = "died", !.active = <<>>]

\* Two probes, each counting the blocks of one epoch; none may come back empty.
probe ==
    /\ vm.pc = "probe"
    /\ \/ /\ Works
          /\ LET count == IF vm.probes = <<>> THEN job.obs.pre ELSE job.obs.naka
             IN  vm' = IF count = 0 THEN Die
                       ELSE [vm EXCEPT !.probes = Append(@, count),
                                       !.pc = IF vm.probes = <<>> THEN "probe" ELSE "plan"]
       \/ Fails /\ vm' = Die
    /\ UNCHANGED <<job, seen, outcome>>

PlanShards ==
    LET pre == vm.probes[1]  naka == vm.probes[2]
        selection == job.selection
        requested == guest_requested(selection, pre, naka)
        shard_count == guest_shard_count(selection, Span(requested), job.target, MaxShards)
        ranges == guest_ranges(selection, requested, pre, shard_count)
    IN  /\ vm.pc = "plan"
        /\ vm' = IF requested.end >= pre + naka \/ shard_count > job.devices THEN Die
                 ELSE [vm EXCEPT !.pc = "loop", !.pending = ranges,
                         !.plan = [range |-> requested, segments |-> guest_segments(requested, pre),
                                   shard_count |-> shard_count,
                                   max_concurrency |-> Min({job.max_concurrency, shard_count})]]
        /\ UNCHANGED <<job, seen, outcome, spent>>

Limit == vm.plan.max_concurrency - Cardinality(DOMAIN vm.active)

\* A process validates its blocks in order; its counter starts again at zero.
start_command(state) ==
    [state EXCEPT !.todo = Tail(@), !.current = Head(state.todo), !.at = 0, !.exit = "running",
                  !.live = 0]

Fresh(shard) ==
    start_command([start |-> shard.start, end |-> shard.end, todo |-> shard.commands,
                   commands |-> <<>>, completed |-> 0, current |-> <<>>, at |-> 0, live |-> 0,
                   exit |-> "running", log |-> <<>>])

Size(command) == command[3] - command[2] + 1

\* The blocks of a command, in the numbering of the plan.
Global(command, k) ==
    CASE command[1] = "index-range"      -> command[2] + k
      [] command[1] = "naka-index-range" -> job.obs.pre + command[2] + k
      [] command[1] = "last"             -> Total(job.obs) - Size(command) + k
BlocksOf(command) == {Global(command, k) : k \in 0..(Size(command) - 1)}

validate_block(i) ==
    LET state == vm.active[i]
    IN  /\ vm.pc = "loop" /\ state.exit = "running" /\ state.at < Size(state.current)
        /\ vm' = [vm EXCEPT !.active[i].at = @ + 1]
        /\ seen' = [seen EXCEPT ![Global(state.current, state.at)] = @ + 1]
        /\ UNCHANGED <<job, outcome, spent>>

\* What a process leaves behind: its exit code, the terminal counter and the
\* summary of its output, the blocks it names as invalid, and whether it says why.
HonestLog(state) ==
    LET bad == BlocksOf(state.current) \cap job.bad
    IN  [exit |-> IF bad = {} THEN 0 ELSE 1, progress |-> Size(state.current),
         success |-> IF bad = {} THEN Size(state.current) ELSE -1, failed |-> bad, typed |-> TRUE]

\* A process killed, stopped early, ended on fewer blocks than it was given, or
\* ended with an output that cannot be read.
BrokenLogs(state) ==
    {[exit |-> 137, progress |-> -1, success |-> -1, failed |-> {}, typed |-> TRUE],
     [exit |-> 1, progress |-> -1, success |-> -1, failed |-> {}, typed |-> TRUE]}
    \cup IF state.at < Size(state.current)
         THEN {[exit |-> 0, progress |-> state.at, success |-> state.at, failed |-> {}, typed |-> TRUE]}
         ELSE {[HonestLog(state) EXCEPT !.typed = FALSE, !.success = -1]}

\* The process ends after its last block without having named a failure.
SilentLog(state) ==
    [exit |-> 1, progress |-> Size(state.current), success |-> -1, failed |-> {}, typed |-> TRUE]

Exit(i) ==
    LET state == vm.active[i]
        ends(log) == vm' = [vm EXCEPT !.active[i].exit = "exited", !.active[i].log = log]
    IN  /\ vm.pc = "loop" /\ state.exit = "running"
        /\ \/ state.at = Size(state.current) /\ Works /\ ends(HonestLog(state))
           \/ \E log \in BrokenLogs(state) : Fails /\ ends(log)
           \/ state.at = Size(state.current) /\ Fails /\ ends(SilentLog(state))
        /\ UNCHANGED <<job, seen, outcome>>

\* Progress shown: finished shards by their size, running ones by their counters.
Healthy(shard) == \A k \in DOMAIN shard.commands : shard.commands[k].log.exit \in {0, 1}
aggregate_block_progress(active, finished) ==
    Min({Span(vm.plan.range),
         MapThenSumSet(LAMBDA s : IF Healthy(s) THEN s.end - s.start + 1 ELSE 0, finished)
         + MapThenSumSet(LAMBDA i : active[i].completed + active[i].live, DOMAIN active)})

Recorded(state) == Append(state.commands, [command |-> state.current, log |-> state.log])

\* One turn: shards are started up to the limit, every process is looked at,
\* a finished one is followed by the next command of its shard unless it broke.
Turn ==
    LET admitted == {k \in DOMAIN vm.pending : k <= Limit}
        states == [i \in DOMAIN vm.active \cup {vm.pending[k].index : k \in admitted} |->
                     IF i \in DOMAIN vm.active
                     THEN [vm.active[i] EXCEPT !.live = Max({@, vm.active[i].at})]
                     ELSE Fresh(CHOOSE shard \in {vm.pending[k] : k \in admitted} : shard.index = i)]
        exited == {i \in DOMAIN states : states[i].exit = "exited"}
        follows == {i \in exited : states[i].log.exit \in {0, 1} /\ states[i].todo # <<>>}
        active == [i \in DOMAIN states \ (exited \ follows) |->
                     IF i \in follows
                     THEN start_command([states[i] EXCEPT !.commands = Recorded(states[i]),
                                           !.completed = @ + Size(states[i].current)])
                     ELSE states[i]]
        finished == vm.finished \cup
                    {[index |-> i, start |-> states[i].start, end |-> states[i].end,
                      commands |-> Recorded(states[i])] : i \in exited \ follows}
        emitted == Max({vm.shown, aggregate_block_progress(active, finished)})
    IN  /\ vm.pc = "loop" /\ (vm.pending # <<>> \/ vm.active # <<>>)
        /\ \E shown \in IF exited \ follows # {} THEN {emitted} ELSE {vm.shown, emitted} :
             vm' = [vm EXCEPT !.pending = SubSeq(@, Cardinality(admitted) + 1, Len(@)),
                              !.active = active, !.finished = finished, !.shown = shown]
        /\ UNCHANGED <<job, seen, outcome, spent>>

TimeOut ==
    /\ vm.pc = "loop" /\ (vm.pending # <<>> \/ vm.active # <<>>)
    /\ Fails /\ vm' = Die
    /\ UNCHANGED <<job, seen, outcome>>

WriteResult ==
    /\ vm.pc = "loop" /\ vm.pending = <<>> /\ vm.active = <<>>
    /\ vm' = [vm EXCEPT !.pc = "done"]
    /\ UNCHANGED <<job, seen, outcome, spent>>

-----------------------------------------------------------------------------
(* The reducer.                                                            *)

Trusted == resolve_execution_plan(job.selection, [pre |-> vm.probes[1], naka |-> vm.probes[2]],
                                  job.target, MaxShards, job.max_concurrency)
Reported == SetToSortSeq(vm.finished, LAMBDA a, b : a.index < b.index)

\* A shard is taken only as the trusted plan has it, command by command.
SameShard(shard, expected) ==
    /\ shard.index = expected.index /\ shard.start = expected.start /\ shard.end = expected.end
    /\ shard.index < job.devices
    /\ LET commands == expected_commands(expected, job.selection, vm.probes[1])
       IN  /\ Len(shard.commands) = Len(commands)
           /\ \A k \in DOMAIN commands :
                shard.commands[k].command = <<commands[k].kind, commands[k].start,
                                              commands[k].end_exclusive - 1>>

Judged(record) ==
    LET log == record.log
    IN  CASE log.exit \notin {0, 1}                          -> "rejected"
          [] log.progress # Size(record.command)             -> "rejected"
          [] log.exit = 0 /\ log.success # log.progress      -> "rejected"
          [] log.exit = 0 /\ log.success = log.progress      -> "valid"
          [] log.exit = 1 /\ log.failed # {} /\ ~log.typed   -> "rejected"
          [] log.exit = 1 /\ log.failed # {} /\ log.typed    -> "invalid"
          [] log.exit = 1 /\ log.failed = {}                 -> "panicked"

Negative(records) == \E k \in DOMAIN records : Judged(records[k]) = "invalid"

reduce_result ==
    LET expected == partition(Trusted.range, Trusted.shard_count)
        records == FlattenSeq([k \in DOMAIN Reported |-> Reported[k].commands])
        problem == SelectInSeq(records, LAMBDA r : Judged(r) \in {"rejected", "panicked"})
        checked == FoldLeft(LAMBDA n, r : n + r.log.progress, 0, records)
        invalid == UNION {records[k].log.failed : k \in DOMAIN records}
    IN  /\ vm.pc = "done" /\ outcome.kind = "none"
        /\ outcome' =
             IF \/ vm.plan # Trusted
                \/ Len(Reported) # Len(expected)
                \/ \E k \in DOMAIN expected : ~SameShard(Reported[k], expected[k])
             THEN [kind |-> "rejected"]
             ELSE IF problem # 0 THEN [kind |-> Judged(records[problem])]
             ELSE IF checked # Span(Trusted.range) THEN [kind |-> "rejected"]
             ELSE [kind |-> "reduced", valid |-> ~Negative(records), checked |-> checked,
                   invalid |-> invalid]
        /\ UNCHANGED <<job, vm, seen, spent>>

-----------------------------------------------------------------------------
Next ==
    \/ probe \/ PlanShards \/ Turn \/ TimeOut \/ WriteResult \/ reduce_result
    \/ \E i \in DOMAIN vm.active : validate_block(i) \/ Exit(i)

Spec == Init /\ [][Next]_vars

-----------------------------------------------------------------------------
(* Properties.                                                             *)

\* A verdict is exact: it covers every block of the range, names the invalid
\* ones and no other, and says valid when there are none.
VerdictExact ==
    outcome.kind = "reduced" =>
        LET range == resolved_range(job.selection, job.obs)
            asked == range.start..range.end
        IN  /\ outcome.checked = Cardinality(asked)
            /\ outcome.invalid = job.bad \cap asked
            /\ outcome.valid = (job.bad \cap asked = {})
            /\ \A b \in asked : seen[b] = 1

\* No block is validated twice, by shards that overlap at a border or by the two
\* commands of a shard across the epochs.
EachBlockOnce == \A b \in DOMAIN seen : seen[b] <= 1

\* Host and guest plan alike: without a fault the runner does not give up, and
\* its result is not rejected, whatever the selection, the chainstate and the policy.
HonestAccepted ==
    spent = 0 /\ Resolvable(job.selection, job.obs) =>
        vm.pc # "died" /\ outcome.kind \notin {"rejected", "panicked"}

\* Processes never exceed the ceiling of the profile or the snapshots attached.
WithinCeiling ==
    /\ Cardinality(DOMAIN vm.active) <= job.max_concurrency
    /\ \A i \in DOMAIN vm.active : i < job.devices

\* The progress shown never runs ahead of the blocks processed, by counters that
\* restart with each command of a shard, as long as no process is faulty.
ProgressHonest ==
    spent = 0 => vm.shown <= Cardinality({b \in DOMAIN seen : seen[b] > 0})
=============================================================================
