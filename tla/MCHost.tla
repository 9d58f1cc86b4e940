------------------------------- MODULE MCHost -------------------------------
(***************************************************************************)
(* What runs on a worker's host, on small instances: the machines of an    *)
(* attempt (LibvirtDriver), a block validation inside one (BlockValidation)*)
(* and its result on the way to the daemon (TerminalResult), the in-process*)
(* queue runner (QueueRunner) and the chainstate snapshots (NodeCuts).  A  *)
(* behaviour is about one case, named by part; the variables of the other  *)
(* components are Off, those of QueueRunner and LibvirtDriver as in an     *)
(* initial state.                                                          *)
(***************************************************************************)
EXTENDS QueueRunner, LibvirtDriver, TLC

CONSTANTS
    a, b,
    Mishaps   \* bound: faults, crashes and stops of the runner together

VARIABLES
    part,
    job, vm, seen,                           \* BlockValidation
    node, bf, sn,                            \* NodeCuts; node is its host
    asked, chain, files, pc, rows, faults,   \* TerminalResult; asked is its task
    outcome,   \* BlockValidation and TerminalResult
    used       \* what BlockValidation and NodeCuts call spent

Off == <<>>

blockVars == <<job, vm, seen>>
cutVars == <<node, bf, sn>>
resultVars == <<asked, chain, files, pc, rows, faults>>
allVars == <<part, vars, driverVars, blockVars, cutVars, resultVars, outcome, used>>

-----------------------------------------------------------------------------
(* A benchmark, one with a calibration, a build that may find its binary,  *)
(* and a validation of two shards, each with three failing commands or     *)
(* crashes.                                                                *)

Benchmark == [kind |-> "benchmark", shared |-> FALSE, warm |-> FALSE, shards |-> {}]
MCTasks ==
    {Benchmark, [Benchmark EXCEPT !.shared = TRUE, !.warm = TRUE],
     [Benchmark EXCEPT !.kind = "build_only", !.warm = TRUE],
     [Benchmark EXCEPT !.kind = "validation", !.shards = {1, 2}]}

-----------------------------------------------------------------------------
(* Ranges within an epoch, across the border, to the last block and beyond *)
(* it: every plan without faults, and two shards with one.                 *)

MCSelections ==
    {[kind |-> "full"]}
    \cup {[kind |-> "recent", block_count |-> n] : n \in {1, 2, 5}}
    \cup {[kind |-> "range", range |-> [start |-> m, end |-> n]] :
            <<m, n>> \in {p \in (0..4) \X (0..5) : p[1] <= p[2]}}

BlockCases ==
    [plans |-> [observed |-> [pre : 1..3, naka : 1..2], targets |-> {1, 2, 3}, shards |-> 3,
                ceilings |-> {1, 2}, faults |-> 0],
     faults |-> [observed |-> [pre : 0..2, naka : 0..2], targets |-> {2}, shards |-> 2,
                 ceilings |-> {2}, faults |-> 1]]

Block(k) == INSTANCE BlockValidation WITH
    Selections <- MCSelections, Observed <- BlockCases[k].observed, Targets <- BlockCases[k].targets,
    MaxShards <- BlockCases[k].shards, Ceilings <- BlockCases[k].ceilings, MaxFaults <- BlockCases[k].faults,
    spent <- used

-----------------------------------------------------------------------------
(* Chains of three and four blocks in shards of two, with no block, one in *)
(* either epoch or one in each invalid: files damaged and results altered  *)
(* on the way, and failures with any text.                                 *)

ResultSelections ==
    {[kind |-> "full"], [kind |-> "recent", block_count |-> 1], [kind |-> "recent", block_count |-> 3]}
    \cup {[kind |-> "range", range |-> [start |-> m, end |-> n]] : m \in {0, 1}, n \in {1, 2, 3}}
MCChains == {[pre |-> pre, naka |-> 2, bad |-> bad] : pre \in {1, 2}, bad \in {{}, {0}, {2}, {0, 2}}}
\* Diagnostics within the limits, in each form.
MCLines ==
    {[form |-> "error", block |-> <<"a", "dot">>, detail |-> <<"sp", "a">>],
     [form |-> "colon", block |-> <<"sp", "a">>, detail |-> <<"a", "tab">>],
     [form |-> "cost", block |-> <<"a">>, detail |-> <<"a">>],
     [form |-> "bare", block |-> <<"a">>, detail |-> <<>>],
     [form |-> "bare", block |-> <<"sp", "dot">>, detail |-> <<>>]}

ResultCases ==
    [results |-> [texts |-> {<<>>, <<"sp", "esc">>, <<"a">>, <<"a", "tab", "sp", "a">>}, chains |-> MCChains,
                  selections |-> ResultSelections, faults |-> 1],
     texts |-> [texts |-> UNION {[1..n -> {"a", "wide", "sp", "esc"}] : n \in 0..5},
                chains |-> {[pre |-> 1, naka |-> 2, bad |-> {0}]}, selections |-> {[kind |-> "full"]},
                faults |-> 0]]

Result(k) == INSTANCE TerminalResult WITH
    Selections <- ResultCases[k].selections, Chains <- ResultCases[k].chains, Lines <- MCLines,
    Texts <- ResultCases[k].texts, Target <- 2, MaxShards <- 2, MaxConcurrency <- 2, MaxTextBytes <- 4,
    MaxBlockBytes <- 3, MaxReasonBytes <- 4, MaxInvalidBlocks <- 2, MaxWireShards <- 4, MaxWireConcurrency <- 3,
    I64Max <- 10, MaxFaults <- ResultCases[k].faults, task <- asked

-----------------------------------------------------------------------------
(* Two submissions of two runs.                                            *)

RunnerNext == Next /\ spent'.faults + spent'.crashes + spent'.stops <= Mishaps

Interchangeable == Permutations({a, b})

-----------------------------------------------------------------------------
(* Two releases with a disabled cut between them, the last cut at the top, *)
(* frozen, unmounted, or interrupted by signals; and two cuts of one       *)
(* release, the first taken at once.  The operator resumes a failed run as *)
(* the usage tells.                                                        *)

CutAt(target, release, enabled, command) ==
    [target |-> target, release |-> release, enabled |-> enabled, command |-> command]
ReleasePlan == <<CutAt(1, 1, TRUE, "wait-cut"), CutAt(1, 1, FALSE, "wait-cut"), CutAt(3, 2, TRUE, "wait-cut")>>
ManualPlan == <<CutAt(1, 1, TRUE, "snapshot-now"), CutAt(3, 1, TRUE, "wait-cut")>>

CutCases ==
    [cut_freeze |-> [cuts |-> ReleasePlan, quiesce |-> "fsfreeze", restart |-> FALSE, drift |-> FALSE,
                     retry |-> TRUE, signals |-> 0],
     cut_unmount |-> [cuts |-> ReleasePlan, quiesce |-> "umount", restart |-> TRUE, drift |-> FALSE,
                      retry |-> FALSE, signals |-> 0],
     cut_signals |-> [cuts |-> ReleasePlan, quiesce |-> "umount", restart |-> TRUE, drift |-> FALSE,
                      retry |-> TRUE, signals |-> 2],
     cut_manual |-> [cuts |-> ManualPlan, quiesce |-> "sync", restart |-> TRUE, drift |-> TRUE,
                     retry |-> TRUE, signals |-> 0]]

Cuts(k) == INSTANCE NodeCuts WITH
    Cuts <- CutCases[k].cuts, Boundaries <- IF k = "cut_manual" THEN {2} ELSE {4},
    Quiesce <- CutCases[k].quiesce, RestartAfter <- CutCases[k].restart, AllowDrift <- CutCases[k].drift,
    Validate <- k # "cut_manual",
    RestartOnFailure <- CutCases[k].retry, FollowHint <- FALSE,
    MaxHeight <- IF k = "cut_manual" THEN 3 ELSE 4, MaxRuns <- 3, MaxFaults <- 1,
    MaxSignals <- CutCases[k].signals, spent <- used, host <- node

ASSUME CasesAssumption ==
    /\ \A k \in DOMAIN BlockCases : Block(k)!ProfileAssumption
    /\ \A k \in DOMAIN ResultCases : Result(k)!LimitAssumption
    /\ \A k \in DOMAIN CutCases : Cuts(k)!CutsAssumption

-----------------------------------------------------------------------------
DriverOff == DriverInit /\ task = Benchmark
BlockOff == job = Off /\ vm = Off /\ seen = Off
CutsOff == node = Off /\ bf = Off /\ sn = Off
ResultOff == asked = Off /\ chain = Off /\ files = Off /\ pc = Off /\ rows = Off /\ faults = Off

MCInit ==
    /\ Init
    /\ \/ /\ part = "runner"
          /\ DriverOff /\ BlockOff /\ CutsOff /\ ResultOff /\ outcome = Off /\ used = Off
       \/ /\ part = "driver" /\ DriverInit
          /\ BlockOff /\ CutsOff /\ ResultOff /\ outcome = Off /\ used = Off
       \/ /\ \E k \in DOMAIN BlockCases : part = k /\ Block(k)!Init
          /\ DriverOff /\ CutsOff /\ ResultOff
       \/ /\ \E k \in DOMAIN CutCases : part = k /\ Cuts(k)!Init
          /\ DriverOff /\ BlockOff /\ ResultOff /\ outcome = Off
       \/ /\ \E k \in DOMAIN ResultCases : part = k /\ Result(k)!Init
          /\ DriverOff /\ BlockOff /\ CutsOff /\ used = Off

MCNext ==
    \/ /\ part = "runner" /\ RunnerNext
       /\ UNCHANGED <<part, driverVars, blockVars, cutVars, resultVars, outcome, used>>
    \/ /\ part = "driver" /\ DriverNext
       /\ UNCHANGED <<part, vars, blockVars, cutVars, resultVars, outcome, used>>
    \/ /\ \E k \in DOMAIN BlockCases : part = k /\ Block(k)!Next
       /\ UNCHANGED <<part, vars, driverVars, cutVars, resultVars>>
    \/ /\ \E k \in DOMAIN CutCases : part = k /\ Cuts(k)!Next
       /\ UNCHANGED <<part, vars, driverVars, blockVars, resultVars, outcome>>
    \/ /\ \E k \in DOMAIN ResultCases : part = k /\ Result(k)!Next
       /\ UNCHANGED <<part, vars, driverVars, blockVars, cutVars, used>>

MCSpec == MCInit /\ [][MCNext]_allVars

-----------------------------------------------------------------------------
(* Properties, beside those of QueueRunner and LibvirtDriver: what each    *)
(* component promises in the cases it is about.                            *)

\* BlockValidation: a verdict covers the range and names the invalid blocks exactly;
\* host and guest plan alike, so an honest result is accepted and no block is
\* validated twice; processes exceed neither the ceiling nor the snapshots, and the
\* progress shown never runs ahead of the blocks processed.
ValidationExact ==
    /\ \A k \in DOMAIN BlockCases : part = k => Block(k)!VerdictExact
    /\ part = "plans" => /\ Block("plans")!EachBlockOnce /\ Block("plans")!HonestAccepted
                         /\ Block("plans")!WithinCeiling /\ Block("plans")!ProgressHonest

\* TerminalResult: a recorded validation is exactly the task's range and true of the
\* chainstate, though files were damaged and results altered on the way; a result
\* that was not altered is not refused; what the daemon accepts it can store, but for
\* a benchmark's counter beyond 63 bits; a metric is of a whole uploaded run, and kept
\* unless the file cannot be read back; and an error reaches the daemon whatever text
\* it carries.
ResultsFaithful ==
    /\ part = "results" =>
         /\ Result("results")!RowResolvesTask /\ Result("results")!VerdictTrue
         /\ Result("results")!HonestAgreed /\ Result("results")!AcceptedPersists
         /\ Result("results")!MetricKept
    /\ part = "texts" => Result("texts")!FailureCarried

\* NodeCuts: a good sidecar tells the truth about its snapshot and no cut of a
\* release has two; a backfill that ends well has one of every enabled cut; and
\* however the snapshot script ends, signals apart, filesystem and node are back.
SnapshotsTrue ==
    /\ \A k \in DOMAIN CutCases : part = k => Cuts(k)!GoodSidecarsTrue /\ Cuts(k)!SuccessIsComplete
    /\ \A k \in DOMAIN CutCases \ {"cut_signals"} : part = k => Cuts(k)!LeavesNodeAsFound
    /\ \A k \in DOMAIN CutCases \ {"cut_manual"} : part = k => Cuts(k)!OneSnapshotPerCut
=============================================================================
