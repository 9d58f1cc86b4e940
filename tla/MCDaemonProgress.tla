-------------------------- MODULE MCDaemonProgress --------------------------
(***************************************************************************)
(* What must eventually happen on the daemon's side: DaemonLife, FleetStore*)
(* AttemptLedger, RunPlan, WebhookProcessor, SlackThread and GitHubReport  *)
(* on small instances, each under the fairness its tasks justify.  A       *)
(* behaviour is about one case, named by part; the variables of the other  *)
(* components are Off.                                                     *)
(*                                                                         *)
(* Each property says of a condition that it does not persist.  The        *)
(* conditions are such that only what is awaited ends them, so this is     *)
(* "it leads to what is awaited", in the form TLC checks without a tableau.*)
(***************************************************************************)
EXTENDS Integers, Sequences, FiniteSets, TLC

CONSTANTS None, Maintenance, a1, a2, c1, c2, p1, p2, r1

VARIABLES
    part,
    cfg, stage, boots, wired, svc, tokens, since, cookie, result,           \* DaemonLife
    registry, newest, session, attempt, submission, obligation, scheduler,
    floor, accepting, cancelled, cancelling,                                \* FleetStore
    request, status, live, authorized, event, contiguous, projected, progress,
    staging, grant, aged, staged, visible, task, proj, shown, report, failures,  \* AttemptLedger
    ref, producer, idem, frozen, carried, pending, coord, seen,             \* RunPlan
    row, proc, install, member, grants, pr, submitted, running, operator,   \* WebhookProcessor
    thread, handler, pub, view, ops, position,                              \* SlackThread
    posted, app, paused,                                                    \* GitHubReport
    job,             \* FleetStore and RunPlan
    policy, spent,   \* RunPlan and WebhookProcessor
    head,            \* WebhookProcessor and GitHubReport
    store, co, surfaces, faults, crashes   \* SlackThread and GitHubReport

Off == <<>>

lifeVars == <<cfg, stage, boots, wired, svc, tokens, since, cookie, result>>
fleetVars == <<registry, newest, session, attempt, submission, obligation, scheduler,
               floor, accepting, cancelled, cancelling>>
ledgerVars == <<request, status, live, authorized, event, contiguous, projected, progress,
                staging, grant, aged, staged, visible, task, proj, shown, report, failures>>
planVars == <<ref, producer, idem, frozen, carried, pending, coord, seen>>
hookVars == <<row, proc, install, member, grants, pr, submitted, running, operator>>
slackVars == <<thread, handler, pub, view, ops, position>>
gitHubVars == <<posted, app, paused>>
spentVars == <<policy, spent>>
bothVars == <<store, co, surfaces, faults, crashes>>
vars == <<part, lifeVars, fleetVars, ledgerVars, planVars, hookVars, slackVars, gitHubVars,
          job, spentVars, head, bothVars>>

-----------------------------------------------------------------------------
Sound == [artifacts |-> "s3", key |-> "private_long", slack |-> "on", llm |-> "on",
          ingest |-> "set", listen |-> "some", blocks |-> TRUE]

Life == INSTANCE DaemonLife WITH
    MaxBoots <- 1, Grace <- 1, Configs <- {Sound, [Sound EXCEPT !.slack = "off", !.llm = "off"]}

\* One worker whose process restarts, one job, a pause and a cancellation.
Fleet == INSTANCE FleetStore WITH
    Workers <- {"w1"}, Sessions <- {"s1", "s2"}, Submissions <- {"b1"}, Jobs <- {"j1"}, Attempts <- {a1, a2},
    WorkerOf <- [s \in {"s1", "s2"} |-> "w1"], SubmissionOf <- [j \in {"j1"} |-> "b1"],
    Submitted <- {"b1"}, Prepared <- {"j1"}, Capabilities <- {"bench"}, Benchmark <- "bench",
    Profiles <- {"fast"}, Advertised <- [s \in {"s1", "s2"} |-> {"bench"}],
    Required <- [j \in {"j1"} |-> "bench"], Revision <- [s \in {"s1", "s2"} |-> 1], Floors <- {1},
    Resident <- {}, Policies <- {[enabled |-> TRUE, caps |-> {"bench"}, profile |-> "fast"]},
    Commands <- {"cancel"}, MaxGeneration <- 1

\* One upload, listed by a completion or left out by a failure, and one failing call.
Ledger == INSTANCE AttemptLedger WITH
    MaxSeq <- 1, Progress <- {}, Unsupported <- {}, Artifacts <- {"f1"}, Handlers <- {"h1"},
    Requests <- {[last |-> 1, outcome |-> "completed", manifest |-> {"f1"}],
                 [last |-> 1, outcome |-> "failed", manifest |-> {}]},
    MaxFailures <- 1

\* A comparison of two specs, the first repeated, of which runs may fail, be
\* cancelled or requeued, with two crashes, failed reports or lost attempts.
Plan == INSTANCE RunPlan WITH
    Producers <- {"p1"}, Keys <- {"k1"}, KeyOf <- [p1 |-> "k1"], LegacyOf <- <<>>, Subs <- {"s1"},
    Requested <- <<2, 1>>, Commits <- {c1, c2}, Daemons <- {"d1"}, MaxMoves <- 1, MaxRetries <- 0,
    MaxGeneration <- 0, MaxFaults <- 2, MayFail <- TRUE, MayLoseFile <- FALSE

\* A comment and the removal of its repository, two processors and a crash.
HookKinds == [c1 |-> "comment", x1 |-> "removed"]
Hook == INSTANCE WebhookProcessor WITH
    Deliveries <- DOMAIN HookKinds, Kind <- HookKinds, ReposOf <- [d \in DOMAIN HookKinds |-> <<r1>>],
    Processors <- {p1, p2}, Repos <- {r1}, Supported <- {r1}, Commits <- {c1}, Unparsed <- {},
    Established <- TRUE, Allowlisted <- TRUE, ValidationEnabled <- TRUE,
    Grants <- {[role |-> "trigger_pr_benchmark", scope |-> r1]},
    MaxAttempts <- 2, MaxFaults <- 1, MaxMoves <- 0, MaxOps <- 0

Slack == INSTANCE SlackThread WITH
    Handlers <- {"h1"}, Overlap <- FALSE, Runs <- 1, Positions <- 1, MaxProgress <- 0,
    SubmitFaults <- {"before"}, MaxFaults <- 1, MaxCrashes <- 1, Stride <- 20

GitHub == INSTANCE GitHubReport WITH
    PullRequest <- TRUE, Wants <- {"comment", "check"}, Runs <- 1, MaxProgress <- 1,
    MaxMoves <- 0, MaxFaults <- 1, MaxCrashes <- 1

-----------------------------------------------------------------------------
LifeOff == /\ cfg = Off /\ stage = Off /\ boots = Off /\ wired = Off /\ svc = Off
           /\ tokens = Off /\ since = Off /\ cookie = Off /\ result = Off
FleetOff == /\ registry = Off /\ newest = Off /\ session = Off /\ attempt = Off /\ submission = Off
            /\ obligation = Off /\ scheduler = Off /\ floor = Off /\ accepting = Off
            /\ cancelled = Off /\ cancelling = Off
LedgerOff == /\ request = Off /\ status = Off /\ live = Off /\ authorized = Off /\ event = Off
             /\ contiguous = Off /\ projected = Off /\ progress = Off /\ staging = Off /\ grant = Off
             /\ aged = Off /\ staged = Off /\ visible = Off /\ task = Off /\ proj = Off
             /\ shown = Off /\ report = Off /\ failures = Off
PlanOff == /\ ref = Off /\ producer = Off /\ idem = Off /\ frozen = Off /\ carried = Off
           /\ pending = Off /\ coord = Off /\ seen = Off
HookOff == /\ row = Off /\ proc = Off /\ install = Off /\ member = Off /\ grants = Off
           /\ pr = Off /\ submitted = Off /\ running = Off /\ operator = Off
SlackOff == thread = Off /\ handler = Off /\ pub = Off /\ view = Off /\ ops = Off /\ position = Off
GitHubOff == posted = Off /\ app = Off /\ paused = Off
SpentOff == policy = Off /\ spent = Off
BothOff == store = Off /\ co = Off /\ surfaces = Off /\ faults = Off /\ crashes = Off

Init ==
    \/ /\ part = "life" /\ Life!Init /\ FleetOff /\ LedgerOff /\ PlanOff /\ HookOff /\ SlackOff
       /\ GitHubOff /\ job = Off /\ SpentOff /\ head = Off /\ BothOff
    \/ /\ part = "fleet" /\ Fleet!Init /\ LifeOff /\ LedgerOff /\ PlanOff /\ HookOff /\ SlackOff
       /\ GitHubOff /\ SpentOff /\ head = Off /\ BothOff
    \/ /\ part = "ledger" /\ Ledger!Init /\ LifeOff /\ FleetOff /\ PlanOff /\ HookOff /\ SlackOff
       /\ GitHubOff /\ job = Off /\ SpentOff /\ head = Off /\ BothOff
    \/ /\ part = "plan" /\ Plan!Init /\ LifeOff /\ FleetOff /\ LedgerOff /\ HookOff /\ SlackOff
       /\ GitHubOff /\ head = Off /\ BothOff
    \/ /\ part = "hook" /\ Hook!Init /\ LifeOff /\ FleetOff /\ LedgerOff /\ PlanOff /\ SlackOff
       /\ GitHubOff /\ job = Off /\ BothOff
    \/ /\ part = "slack" /\ Slack!Init /\ LifeOff /\ FleetOff /\ LedgerOff /\ PlanOff /\ HookOff
       /\ GitHubOff /\ job = Off /\ SpentOff /\ head = Off
    \/ /\ part = "github" /\ GitHub!Init /\ LifeOff /\ FleetOff /\ LedgerOff /\ PlanOff /\ HookOff
       /\ SlackOff /\ job = Off /\ SpentOff

Next ==
    \/ /\ part = "life" /\ Life!Next
       /\ UNCHANGED <<part, fleetVars, ledgerVars, planVars, hookVars, slackVars, gitHubVars,
                      job, spentVars, head, bothVars>>
    \/ /\ part = "fleet" /\ Fleet!Next
       /\ UNCHANGED <<part, lifeVars, ledgerVars, planVars, hookVars, slackVars, gitHubVars,
                      spentVars, head, bothVars>>
    \/ /\ part = "ledger" /\ Ledger!Next
       /\ UNCHANGED <<part, lifeVars, fleetVars, planVars, hookVars, slackVars, gitHubVars,
                      job, spentVars, head, bothVars>>
    \/ /\ part = "plan" /\ Plan!Next
       /\ UNCHANGED <<part, lifeVars, fleetVars, ledgerVars, hookVars, slackVars, gitHubVars,
                      head, bothVars>>
    \/ /\ part = "hook" /\ Hook!Next
       /\ UNCHANGED <<part, lifeVars, fleetVars, ledgerVars, planVars, slackVars, gitHubVars,
                      job, bothVars>>
    \/ /\ part = "slack" /\ Slack!Next
       /\ UNCHANGED <<part, lifeVars, fleetVars, ledgerVars, planVars, hookVars, gitHubVars,
                      job, spentVars, head>>
    \/ /\ part = "github" /\ GitHub!Next
       /\ UNCHANGED <<part, lifeVars, fleetVars, ledgerVars, planVars, hookVars, slackVars,
                      job, spentVars>>

-----------------------------------------------------------------------------
(* Fairness.                                                               *)

\* The supervisor polls its services and the clock of the grace period runs.
LifeFair == /\ WF_(Life!vars)(part = "life" /\ Life!SuperviseServices)
            /\ WF_(Life!vars)(part = "life" /\ Life!Tick)

\* An offer's deadline is fixed when it is made, and the coordinator sweeps every
\* two seconds for as long as the daemon runs; a row it skips is locked by a
\* transaction that ends.  Nothing is assumed of workers or operators.
FleetFair == \A a \in {a1, a2} : /\ WF_(Fleet!vars)(part = "fleet" /\ Fleet!OfferTimesOut(a))
                                 /\ WF_(Fleet!vars)(part = "fleet" /\ Fleet!Swept(a))

\* The two loops tick for as long as the daemon runs, and time passes.
LedgerFair ==
    /\ WF_(Ledger!vars)(part = "ledger" /\ Ledger!TickNext)
    /\ WF_(Ledger!vars)(part = "ledger" /\ Ledger!Expire)
    /\ WF_(Ledger!vars)(part = "ledger" /\ (Ledger!MaintenanceNext \/ Ledger!PromoteNext(Maintenance)))
    /\ WF_(Ledger!vars)(part = "ledger" /\ Ledger!GrantLapses("f1"))
    /\ WF_(Ledger!vars)(part = "ledger" /\ Ledger!StagingAges("f1"))

\* The producer retries and the coordinator's calls return.  Nothing is assumed of
\* the workers: they may never take a run, and it may end in any way.
PlanFair ==
    /\ WF_(Plan!vars)(part = "plan" /\ Plan!Submitting("p1"))
    /\ WF_(Plan!vars)(part = "plan" /\ Plan!Preparing("d1"))
    /\ WF_(Plan!vars)(part = "plan" /\ (Plan!Projecting("d1") \/ Plan!ReportFails("d1")))

\* A processor goes on with the delivery it has, and stuck claims are swept.
HookFair ==
    /\ \A p \in {p1, p2} : /\ WF_(Hook!vars)(part = "hook" /\ Hook!Handle(p))
                           /\ WF_(Hook!vars)(part = "hook" /\ Hook!process_one(p))
    /\ \A d \in DOMAIN HookKinds :
         WF_(Hook!vars)(part = "hook" /\ ~Hook!Alive(d) /\ Hook!sweep_stuck_claims(d))

\* Publications are driven by tasks of the daemon, and the coordinators tick.
ReportFair == /\ WF_(Slack!vars)(part = "slack" /\ Slack!Publishing)
              /\ WF_(Slack!vars)(part = "slack" /\ Slack!Coordinator)
              /\ WF_(GitHub!vars)(part = "github" /\ GitHub!Coordinator)

\* What competes for an idle task is not passed over for ever: the branches of
\* the coordinator's select and of the reporting task, and the deliveries for
\* which free processors compete, oldest first.
own == CASE part = "plan" -> Plan!vars [] part = "hook" -> Hook!vars [] OTHER -> GitHub!vars
Chosen == /\ UNCHANGED part
          /\ \/ part = "plan" /\ Plan!Tick("d1")
             \/ part = "hook" /\ \E p \in {p1, p2} : Hook!claim_next(p, "c1")
             \/ part = "github" /\ GitHub!project_events
ChosenToo == /\ UNCHANGED part
             /\ \/ part = "plan" /\ \E j \in Plan!Jobs : Plan!PrepareJob("d1", j)
                \/ part = "hook" /\ \E p \in {p1, p2} : Hook!claim_next(p, "x1")

Spec == /\ Init /\ [][Next]_vars
        /\ LifeFair /\ FleetFair /\ LedgerFair /\ PlanFair /\ HookFair /\ ReportFair
        /\ SF_own(Chosen) /\ SF_own(ChosenToo)

-----------------------------------------------------------------------------
(* Properties.                                                             *)

\* The runs of the plan are in the workers' hands; it is over.
WithWorkers == \E j \in Plan!Jobs : \/ job[j].status = "running"
                                    \/ job[j].status = "queued" /\ job[j].prepared
Broken == \E j \in Plan!Jobs : job[j].status \in {"failed", "cancelled"}
PlanOver == Broken \/ \A j \in Plan!Jobs : job[j].status = "completed"

\* What was accepted is settled.  A daemon that is told to stop, or one of whose
\* core services failed, is down in the end, whatever its services do; no job stays
\* claimed for ever, although the worker it was offered to may never be heard of
\* again; a running job is never left for ever without a worker that holds its
\* lease or owes its teardown; a stored submission whose plan is not over has a run
\* that is running or ready to be taken, so that only the workers may keep it waiting;
\* and every delivery reaches a result, though a processor dies with it.
WorkSettles ==
    /\ []<>(part = "life" /\ Life!Serving =>
              ~tokens.draining /\ \A s \in Life!Core : svc[s] # "failed")
    /\ []<>(part = "fleet" => job["j1"].status # "claimed")
    /\ []<>(part = "fleet" /\ job["j1"].status = "running" =>
              attempt[job["j1"].claim].live \/ obligation[job["j1"].claim].status # "none")
    /\ []<>(part = "plan" /\ Plan!Exists(<<"s1", 1, 0>>) => WithWorkers \/ PlanOver)
    /\ []<>(part = "hook" => \A d \in DOMAIN HookKinds : row[d].status \in {"none"} \cup Hook!Terminal)

\* What was decided is projected.  An accepted outcome is projected although reporting
\* it fails; so is the end of every run of a plan, but for a completed run's that is
\* still unreported when a later run fails or is cancelled; the coordinators come to
\* mark a job's end as reported to Slack and on the pull request; and the staged
\* uploads of a lost attempt are reaped.
OutcomesProjected ==
    /\ []<>(part = "ledger" /\ Ledger!Terminal => event[request.last] = "projected")
    /\ []<>(part = "ledger" /\ Ledger!Lost => staging["f1"] \in {"none", "reaped"})
    /\ []<>(part = "plan" => \A i \in DOMAIN pending : job[pending[i]].status = "completed" /\ Broken)
    /\ []<>(part = "slack" /\ Slack!Job(0).status \in Slack!Terminals => Slack!Job(0).marked = 3)
    /\ []<>(part = "github" /\ GitHub!Job(0).status \in GitHub!Terminals => GitHub!Job(0).marked = 3)
=============================================================================
