--------------------------- MODULE TerminalResult ---------------------------
(***************************************************************************)
(* The result of one attempt, from the files its machine leaves behind to  *)
(* the rows the daemon commits.  The driver reads the guest's output back  *)
(* under the trusted plan, the worker turns the verdict or the error into  *)
(* a terminal outcome and checks it as the daemon will, and the daemon     *)
(* holds it to the task it gave out before it writes anything.             *)
(*                                                                         *)
(* A text is a sequence of character classes: "a", "wide" (two bytes),     *)
(* "sp", "tab" (a control that is white space), "esc" (one that is not)    *)
(* and "dot".  Byte limits and the 64-bit range are scaled by constants.   *)
(***************************************************************************)
EXTENDS Integers, Sequences, FiniteSets, SequencesExt, FiniteSetsExt

CONSTANTS
    Selections,        \* of a validation task, as BlockValidation has them
    Chains,            \* [pre, naka, bad]: epoch counts and the invalid blocks
    Lines,             \* forms a diagnostic of an invalid block may take
    Texts,             \* texts an execution error may carry
    Target, MaxShards, MaxConcurrency,                     \* the local profile
    MaxTextBytes, MaxBlockBytes, MaxReasonBytes, MaxInvalidBlocks,
    MaxWireShards, MaxWireConcurrency, I64Max,
    MaxFaults          \* bound: files damaged or not read back, results altered on the way

LimitAssumption ==
    /\ MaxTextBytes \in Nat \ {0} /\ I64Max \in Nat \ {0} /\ MaxFaults \in Nat
    /\ \A chain \in Chains : chain.pre + chain.naka <= I64Max

VARIABLES
    task,      \* the assignment: its kind and selection
    chain,     \* the chainstate under the machine
    files,     \* what the machine left behind
    outcome,   \* the terminal outcome at the worker, then on the wire
    pc,        \* how far it has come
    rows,      \* what the daemon committed for the job
    faults

vars == <<task, chain, files, outcome, pc, rows, faults>>

\* The driver's own planning.
Host == INSTANCE BlockValidation WITH Observed <- {}, Targets <- {}, Ceilings <- {},
            job <- 0, vm <- 0, seen <- 0, outcome <- 0, spent <- 0

Some(x) == <<x>>
None == <<>>
Numbers(range) == range.start..range.end

-----------------------------------------------------------------------------
(* Texts *)

Control == {"tab", "esc"}
White == {"sp", "tab"}
Width(character) == IF character = "wide" THEN 2 ELSE 1
Bytes(text) == FoldLeft(LAMBDA n, c : n + Width(c), 0, text)

bounded(text, max, empty) ==
    /\ empty \/ text # <<>>
    /\ Bytes(text) <= max
    /\ \A k \in DOMAIN text : text[k] \notin Control

\* Without the characters of S at either end, or at the end.
TrimEnd(text, S) ==
    LET kept == {k \in DOMAIN text : text[k] \notin S}
    IN  IF kept = {} THEN <<>> ELSE SubSeq(text, 1, Max(kept))
Trim(text) == Reverse(TrimEnd(Reverse(TrimEnd(text, White)), White))

\* The scan of normalize: white space and controls become one space before the
\* next character, and the first character that does not fit ends it.
Scan(value) ==
    LET space(s) == s.pending /\ Bytes(s.out) < MaxTextBytes
        spaced(s) == IF space(s) THEN Append(s.out, "sp") ELSE s.out
        step(s, c) ==
          CASE s.full -> s
            [] ~s.full /\ c \in Control \cup White -> [s EXCEPT !.pending = s.out # <<>>]
            [] ~s.full /\ c \notin Control \cup White ->
                 IF \/ s.pending /\ ~space(s)
                    \/ Bytes(spaced(s)) + Width(c) > MaxTextBytes
                 THEN [s EXCEPT !.out = spaced(s), !.full = TRUE]
                 ELSE [out |-> Append(spaced(s), c), pending |-> FALSE, full |-> FALSE]
    IN  FoldLeft(step, [out |-> <<>>, pending |-> FALSE, full |-> FALSE], value).out

normalize_terminal_text(value) ==
    IF Scan(value) # <<>> THEN Scan(value) ELSE Scan(<<"a">>)

-----------------------------------------------------------------------------
(* Reading the guest's files *)

\* A file that is regular, beneath the share, no larger than the limit, and text.
Readable(file) == file.kind = "regular"

\* The last word of a probe's output, if it is a number (-1 stands for a word).
parse_probe_count(words) ==
    IF words = <<>> \/ Last(words) = -1 THEN None ELSE Some(Last(words))

\* The counts behind "Validating: 100% (": each must be complete, the last counts.
parse_terminal_progress_count(out) ==
    LET marks == SelectSeq(out, LAMBDA s : s.is \in {"progress", "cut"})
    IN  IF \/ marks = <<>>
           \/ \E k \in DOMAIN marks : marks[k].is = "cut" \/ marks[k].done # marks[k].total
        THEN None
        ELSE Some(Last(marks).total)

\* The count behind the last "Finished validating ".
parse_success_count(out) ==
    LET marks == SelectSeq(out, LAMBDA s : s.is = "finished")
    IN  IF marks = <<>> THEN None ELSE Some(Last(marks).total)

\* "Failed processing block" in its canonical forms, with an error or an unexpected
\* cost, and in the older ones.  Only the block must not be empty.
parse_invalid_block_line(shard, line) ==
    LET block == TrimEnd(Trim(line.block), {"dot"})
        reason == CASE line.form \in {"error", "colon"} -> Trim(line.detail)
                    [] line.form = "cost"               -> <<"a", "sp">> \o Trim(line.detail)
                    [] line.form = "bare"               -> <<"a">>
    IN  IF block = <<>> THEN None ELSE Some([shard |-> shard, block |-> block, reason |-> reason])

parse_invalid_blocks(shard, out) ==
    FlattenSeq([k \in DOMAIN SelectSeq(out, LAMBDA s : s.is = "failed") |->
        parse_invalid_block_line(shard, SelectSeq(out, LAMBDA s : s.is = "failed")[k].line)])

\* verify_probes: both ended well, and their counts are the ones the guest reported.
ProbesOk ==
    \A k \in 1..2 :
        /\ Readable(files.probes[k]) /\ files.probes[k].exit = 0
        /\ parse_probe_count(files.probes[k].out)
             = Some(IF k = 1 THEN files.observed.pre ELSE files.observed.naka)

\* The commands of the trusted plan in order, each with its shard and its blocks.
Plan == Host!resolve_execution_plan(task.selection, files.observed, Target, MaxShards, MaxConcurrency)
BlocksOf(command, pre) ==
    {k + (IF command.kind = "index-range" THEN 0 ELSE pre) : k \in command.start..(command.end_exclusive - 1)}
Commands(plan, observed) ==
    LET shards == Host!partition(plan.range, plan.shard_count)
        of(shard) == LET commands == Host!expected_commands(shard, task.selection, observed.pre)
                     IN  [k \in DOMAIN commands |->
                            [shard |-> shard.index, blocks |-> BlocksOf(commands[k], observed.pre)]]
    IN  FlattenSeq([k \in DOMAIN shards |-> of(shards[k])])

\* The processed blocks are exactly the command's.
Counted(log, command) ==
    parse_terminal_progress_count(log.out) = Some(Cardinality(command.blocks))

\* An exit of 0 confirms the count once more; an exit of 1 names its blocks.
LogOk(log, command) ==
    /\ Readable(log) /\ log.exit \in {0, 1}
    /\ Counted(log, command)
    /\ log.exit = 0 => parse_success_count(log.out) = parse_terminal_progress_count(log.out)
    /\ log.exit = 1 => parse_invalid_blocks(command.shard, log.out) # <<>>

\* The reduction of reduce_result, from the files of all commands.
Reduced ==
    LET commands == Commands(Plan, files.observed)
        negative == {k \in DOMAIN commands : files.logs[k].exit = 1}
        invalid == FlattenSeq([k \in DOMAIN commands |->
                     IF k \in negative THEN parse_invalid_blocks(commands[k].shard, files.logs[k].out)
                     ELSE <<>>])
    IN  IF /\ Host!Resolvable(task.selection, files.observed)
           /\ ProbesOk
           /\ Len(files.logs) = Len(commands)
           /\ \A k \in DOMAIN commands : LogOk(files.logs[k], commands[k])
        THEN Some([valid |-> negative = {}, checked |-> Cardinality(Numbers(Plan.range)),
                   invalid |-> invalid, observed |-> files.observed, range |-> Plan.range,
                   segments |-> Plan.segments, shard_count |-> Plan.shard_count,
                   max_concurrency |-> Plan.max_concurrency])
        ELSE None

-----------------------------------------------------------------------------
(* The machine *)

Regular(exit, out) == [kind |-> "regular", exit |-> exit, out |-> out]
Mark(is, n) == [is |-> is, done |-> n, total |-> n]

\* stacks-inspect over a command's blocks, with one diagnostic for each invalid one.
HonestLog(command, line) ==
    LET bad == command.blocks \cap chain.bad
        n == Cardinality(command.blocks)
    IN  IF bad = {} THEN Regular(0, <<Mark("progress", n), Mark("finished", n)>>)
        ELSE Regular(1, <<Mark("progress", n)>>
                        \o [k \in 1..Cardinality(bad) |-> [is |-> "failed", line |-> line]])

HonestFiles(line) ==
    LET observed == [pre |-> chain.pre, naka |-> chain.naka]
        plan == Host!resolve_execution_plan(task.selection, observed, Target, MaxShards, MaxConcurrency)
        commands == Commands(plan, observed)
    IN  [observed |-> observed,
         probes |-> <<Regular(0, <<-1, chain.pre>>), Regular(0, <<-1, chain.naka>>)>>,
         logs |-> [k \in DOMAIN commands |-> HonestLog(commands[k], line)]]

\* A file replaced, cut or overgrown, a process that ended badly or stopped short.
DamagedProbe(file) ==
    {[file EXCEPT !.kind = "other"], [file EXCEPT !.exit = 1],
     [file EXCEPT !.out = <<Last(@) + 1>>], [file EXCEPT !.out = <<-1>>], [file EXCEPT !.out = <<>>]}
DamagedLog(file) ==
    LET n == file.out[1].total
    IN  {[file EXCEPT !.kind = "other"], [file EXCEPT !.exit = 2],
         [file EXCEPT !.out = Tail(@)], [file EXCEPT !.out[1].is = "cut"],
         [file EXCEPT !.out[1].done = @ - 1],
         Regular(0, <<Mark("progress", n - 1), Mark("finished", n - 1)>>),
         Regular(0, <<Mark("progress", n), Mark("finished", n - 1)>>),
         [file EXCEPT !.out = <<Mark("finished", n - 1)>> \o @]}
Damaged(f) ==
    {[f EXCEPT !.observed.pre = @ + 1], [f EXCEPT !.logs = Tail(@)]}
    \cup UNION {{[f EXCEPT !.probes[k] = p] : p \in DamagedProbe(f.probes[k])} : k \in DOMAIN f.probes}
    \cup UNION {{[f EXCEPT !.logs[k] = l] : l \in DamagedLog(f.logs[k])} : k \in DOMAIN f.logs}

NoSummary == [run_json |-> None, calibration |-> None]
NoFiles == [run |-> "none"]
NoOutcome == [kind |-> "none"]
NoRows == [result |-> "none", metric |-> "none", calibration |-> None, block |-> None, event |-> "none"]

Validates ==
    /\ pc = "start" /\ task.kind = "block_validation"
    /\ Host!Resolvable(task.selection, chain)
    /\ \E line \in Lines : files' = HonestFiles(line)
    /\ pc' = "ran"
    /\ UNCHANGED <<task, chain, outcome, rows, faults>>

DamageFile ==
    /\ pc = "ran" /\ faults < MaxFaults
    /\ files' \in Damaged(files)
    /\ faults' = faults + 1
    /\ UNCHANGED <<task, chain, outcome, pc, rows>>

-----------------------------------------------------------------------------
(* The worker *)

Completed(summary, result) == [kind |-> "completed", summary |-> summary, result |-> result]

\* failed_outcome.
failed_outcome(text, summary) ==
    [kind |-> "failed", error |-> normalize_terminal_text(text), summary |-> summary]

\* run_block_validation ends, through the reducer.
ReduceResult ==
    /\ pc = "ran"
    /\ IF Reduced # None THEN outcome' = Completed(NoSummary, Reduced)
       ELSE \E text \in Texts : outcome' = failed_outcome(text, Some(NoSummary))
    /\ pc' = "terminal"
    /\ UNCHANGED <<task, chain, files, rows, faults>>

\* A benchmark ends: the run's file, if there is one, is archived by its key, and
\* the key enters the summary only after its upload.  A huge run is a complete one
\* with a counter beyond the signed range.
Benchmarks ==
    /\ pc = "start" /\ task.kind = "benchmark"
    /\ \E run \in {"none", "broken", "partial", "complete", "huge"}, uploaded, ended \in BOOLEAN,
          calibration \in {None, Some(7)}, text \in Texts :
         LET summary == [run_json |-> IF run # "none" /\ uploaded THEN Some("logical") ELSE None,
                         calibration |-> calibration]
         IN  /\ files' = [run |-> run]
             /\ outcome' = IF ended THEN Completed(summary, None) ELSE failed_outcome(text, Some(summary))
    /\ pc' = "terminal"
    /\ UNCHANGED <<task, chain, rows, faults>>

\* Setup fails before there is a summary, the machine ends without a result, or the
\* attempt is cancelled.
SetupFails ==
    /\ pc = "start"
    /\ \/ \E text \in Texts, summary \in {None, Some(NoSummary)} :
            outcome' = failed_outcome(text, summary)
       \/ outcome' = [kind |-> "cancelled", reason |-> <<"a">>]
    /\ pc' = "terminal"
    /\ UNCHANGED <<task, chain, files, rows, faults>>

\* The result of a worker whose reducer differs from this one in one respect.
Altered(o) ==
    IF o.result = None
    THEN {[o EXCEPT !.result = Some([valid |-> TRUE, checked |-> 1, invalid |-> <<>>,
            observed |-> [pre |-> 1, naka |-> 1], range |-> [start |-> 0, end |-> 0],
            segments |-> Host!epoch_segments([start |-> 0, end |-> 0], 1),
            shard_count |-> 1, max_concurrency |-> 1])]}
    ELSE LET r == o.result[1]
             to(x) == [o EXCEPT !.result = Some(x)]
         IN  {[o EXCEPT !.result = None]}
             \cup {to([r EXCEPT !.checked = @ + d]) : d \in {-1, 1}}
             \cup {to([r EXCEPT !.range.start = @ + 1]), to([r EXCEPT !.range.end = @ + 1]),
                   to([r EXCEPT !.segments = Tail(@)]), to([r EXCEPT !.segments[1].local.start = @ + 1]),
                   to([r EXCEPT !.segments[1].global.end = @ + 1])}
             \cup {to([r EXCEPT !.observed.pre = @ + 1]), to([r EXCEPT !.observed.naka = @ + 1]),
                   to([r EXCEPT !.observed.naka = I64Max + 1]), to([r EXCEPT !.observed.pre = 0])}
             \cup {to([r EXCEPT !.shard_count = n]) : n \in {0, MaxWireShards + 1}}
             \cup {to([r EXCEPT !.shard_count = MaxWireShards, !.max_concurrency = MaxWireConcurrency + 1])}
             \cup {to([r EXCEPT !.valid = ~@]),
                   to([r EXCEPT !.valid = FALSE,
                       !.invalid = Append(@, [shard |-> r.shard_count, block |-> <<"a">>,
                                              reason |-> <<"a">>])])}

AlterResult ==
    /\ pc = "terminal" /\ outcome.kind = "completed" /\ faults < MaxFaults
    /\ outcome' \in Altered(outcome)
    /\ faults' = faults + 1
    /\ UNCHANGED <<task, chain, files, pc, rows>>

\* InclusiveRange and InvalidBlock as the protocol takes them.
RangeOk(range) == range.start <= range.end /\ range.end <= I64Max
InvalidOk(block) ==
    bounded(block.block, MaxBlockBytes, FALSE) /\ bounded(block.reason, MaxReasonBytes, FALSE)

ResultOk(r) ==
    /\ RangeOk(r.range)
    /\ r.observed.pre # 0 /\ r.observed.naka # 0
    /\ r.shard_count \in 1..MaxWireShards
    /\ r.max_concurrency \in 1..Min({r.shard_count, MaxWireConcurrency})
    /\ Len(r.segments) \in 1..2
    /\ \A k \in DOMAIN r.segments : RangeOk(r.segments[k].global) /\ RangeOk(r.segments[k].local)
    /\ r.checked <= I64Max
    /\ Len(r.invalid) <= MaxInvalidBlocks
    /\ r.valid = (r.invalid = <<>>)
    /\ \A k \in DOMAIN r.invalid : InvalidOk(r.invalid[k])

\* CompleteAttemptRequest::validate.
OutcomeOk(o) ==
    CASE o.kind = "completed" -> o.result # None => ResultOk(o.result[1])
      [] o.kind = "failed"    -> bounded(o.error, MaxTextBytes, FALSE)
      [] o.kind = "cancelled" -> bounded(o.reason, MaxTextBytes, FALSE)

\* The worker checks the request as the daemon will, and ends with an error if the
\* daemon would refuse it: the terminal event is out, the outcome is not.
SendTerminal ==
    /\ pc = "terminal"
    /\ pc' = IF OutcomeOk(outcome) THEN "sent" ELSE "withheld"
    /\ UNCHANGED <<task, chain, files, outcome, rows, faults>>

-----------------------------------------------------------------------------
(* The daemon *)

\* The range a selection means, given the counts.
ExpectedRange(selection, observed) ==
    LET total == observed.pre + observed.naka
    IN  CASE selection.kind = "recent" ->
               [start |-> total - Min({selection.block_count, observed.naka}), end |-> total - 1]
          [] selection.kind = "full"   -> [start |-> 0, end |-> total - 1]
          [] selection.kind = "range"  -> selection.range

\* Its segments, one for each epoch it touches.
ExpectedSegments(range, pre) ==
    LET first == [start |-> range.start, end |-> Min({range.end, pre - 1})]
        from == Max({range.start, pre})
    IN  (IF range.start < pre THEN <<[epoch |-> "pre_nakamoto", global |-> first, local |-> first]>>
         ELSE <<>>)
        \o (IF range.end >= pre
            THEN <<[epoch |-> "nakamoto", global |-> [start |-> from, end |-> range.end],
                    local |-> [start |-> from - pre, end |-> range.end - pre]]>>
            ELSE <<>>)

\* The counts are in the durable range, and hold the selection.
CountsOk(selection, observed) ==
    /\ observed.pre # 0 /\ observed.naka # 0
    /\ observed.pre + observed.naka <= I64Max
    /\ selection.kind = "range" => selection.range.end < observed.pre + observed.naka

MutCoverageOk(selection, r) ==
    /\ r.range = ExpectedRange(selection, r.observed)
    /\ r.checked = Cardinality(Numbers(r.range))
\* The ranges, the segments and the checked count follow from the selection.
CoverageOk(selection, r) ==
    LET range == ExpectedRange(selection, r.observed)
    IN  /\ r.range = range
        /\ r.segments = ExpectedSegments(range, r.observed.pre)
        /\ r.checked = range.end - range.start + 1
        /\ \A k \in DOMAIN r.invalid : r.invalid[k].shard < r.shard_count

\* validate_terminal_for_assignment.
TaskOk(o) ==
    o.kind = "completed" =>
        IF task.kind = "block_validation"
        THEN /\ o.result # None
             /\ CountsOk(task.selection, o.result[1].observed)
             /\ CoverageOk(task.selection, o.result[1])
        ELSE o.result = None

\* staging_summary: an accepted file still is under its staging key.
staging_summary(summary) ==
    [summary EXCEPT !.run_json = IF @ = None THEN None ELSE Some("staged")]

\* metric_from_run: every column or no row; the casts wrap a huge counter.
metric_from_run(run) ==
    CASE run = "complete" -> "whole" [] run = "huge" -> "negative" [] OTHER -> "none"

\* extract_outcome: the run's file, if it is there under the key and can be read, and
\* a metric if it is whole.  A file that cannot be read counts as none.
extract_outcome(summary, readable) ==
    LET found == readable /\ summary.run_json = Some("staged") /\ files.run # "none"
    IN  [NoRows EXCEPT !.result = IF found /\ files.run # "broken" THEN "run" ELSE "empty",
                       !.metric = IF found THEN metric_from_run(files.run) ELSE "none"]

\* terminal_write with the inserts of persist_completion and persist_failure.
terminal_write(o, readable) ==
    CASE o.kind = "completed" /\ o.result # None ->
           [NoRows EXCEPT !.result = "summary", !.block = o.result, !.event = "completed",
                          !.calibration = o.summary.calibration]
      [] o.kind = "completed" /\ o.result = None ->
           [extract_outcome(staging_summary(o.summary), readable) EXCEPT
                          !.event = "completed", !.calibration = o.summary.calibration]
      [] o.kind = "failed" ->
           [NoRows EXCEPT !.event = "failed",
                          !.result = IF o.summary = None THEN "none"
                                     ELSE extract_outcome(staging_summary(o.summary[1]), readable).result]
      [] o.kind = "cancelled" -> [NoRows EXCEPT !.event = "cancelled"]

\* The conversions of persist_block_result.
Durable(r) == \A n \in {r.observed.pre, r.observed.naka, r.range.start, r.range.end, r.checked} : n <= I64Max

\* The metric's columns take no negative number.
Storable(write) ==
    /\ write.block # None => Durable(write.block[1])
    /\ write.metric # "negative"

\* complete: an error on the way to the commit leaves no row.
Complete ==
    /\ pc = "sent"
    /\ \E readable \in BOOLEAN :
         /\ ~readable => faults < MaxFaults
         /\ faults' = faults + (IF readable THEN 0 ELSE 1)
         /\ LET write == terminal_write(outcome, readable)
                accepted == OutcomeOk(outcome) /\ TaskOk(outcome)
                stored == accepted /\ Storable(write)
            IN  /\ pc' = IF stored THEN "recorded" ELSE IF accepted THEN "internal" ELSE "refused"
                /\ rows' = IF stored THEN write ELSE rows
    /\ UNCHANGED <<task, chain, files, outcome>>

-----------------------------------------------------------------------------
Init ==
    /\ task \in {[kind |-> "benchmark"]} \cup [kind : {"block_validation"}, selection : Selections]
    /\ chain \in Chains
    /\ files = NoFiles /\ outcome = NoOutcome /\ pc = "start" /\ rows = NoRows /\ faults = 0

Next ==
    \/ Validates \/ DamageFile \/ ReduceResult \/ Benchmarks \/ SetupFails
    \/ AlterResult \/ SendTerminal \/ Complete

Spec == Init /\ [][Next]_vars

-----------------------------------------------------------------------------
(* Properties *)

Asked == LET range == Host!resolved_range(task.selection, chain) IN Numbers(range)

\* An error reaches the daemon whatever text it carries: normalised, it is within
\* the limits the worker's own check applies, so only a completed outcome is ever
\* withheld.
FailureCarried == pc = "withheld" => outcome.kind = "completed"

\* A recorded validation is the task's: its segments are exactly the blocks that
\* the selection names on the recorded counts, in order, without gap or overlap, and
\* the checked count is their number, even if the worker's reducer was wrong.
RowResolvesTask ==
    rows.block # None =>
        LET r == rows.block[1]
            span(k) == Numbers(r.segments[k].global)
            total == r.observed.pre + r.observed.naka
            named == CASE task.selection.kind = "full"   -> 0..(total - 1)
                       [] task.selection.kind = "range"  -> Numbers(task.selection.range)
                       [] task.selection.kind = "recent" ->
                            {b \in r.observed.pre..(total - 1) : b + task.selection.block_count >= total}
        IN  /\ UNION {span(k) : k \in DOMAIN r.segments} = named
            /\ \A k \in DOMAIN r.segments :
                 /\ r.segments[k].epoch = "pre_nakamoto" <=> span(k) \subseteq 0..(r.observed.pre - 1)
                 /\ \A l \in DOMAIN r.segments : k < l => Max(span(k)) < Min(span(l))
            /\ r.checked = Cardinality(named) /\ r.checked > 0

\* What the daemon accepts it can store: no accepted result overflows a column,
\* except a benchmark's counter beyond the signed range, which no check looks at.
AcceptedPersists == pc = "internal" => task.kind = "benchmark" /\ files.run = "huge"

\* The daemon's resolution of a selection, written apart from the driver's, agrees
\* with it: a result that was not altered is not refused as another task's.
HonestAgreed == pc = "refused" => faults > 0

\* A recorded verdict that the files reduce to is true of the chainstate: with a
\* file damaged in any way it is negative exactly if a block of the range is
\* invalid, and every process had ended normally.
VerdictTrue ==
    (rows.block # None /\ rows.block = Reduced) =>
        /\ rows.block[1].valid = (chain.bad \cap Asked = {})
        /\ \A k \in DOMAIN files.logs : files.logs[k].exit \in {0, 1}

\* A metric comes from a whole run that was uploaded, and a completed benchmark with
\* such a run has it, unless the daemon could not read the file back.
MetricKept ==
    rows.event = "completed" /\ task.kind = "benchmark" =>
        LET uploaded == files.run = "complete" /\ outcome.summary.run_json # None
        IN  /\ rows.metric # "none" => uploaded
            /\ uploaded /\ faults = 0 => rows.metric = "whole"
=============================================================================
