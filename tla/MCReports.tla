------------------------------ MODULE MCReports ------------------------------
(***************************************************************************)
(* From a submission to its reports: RunPlan, SlackThread and GitHubReport *)
(* on small instances.  A behaviour is about one case, named by part; the  *)
(* variables of the other components are Off, those of RunPlan as in an    *)
(* initial state.                                                          *)
(***************************************************************************)
EXTENDS RunPlan, TLC

CONSTANTS s1, s2, s3, c1, c2, d1, d2

VARIABLES
    part,
    thread, handler, pub, view, ops, position,                    \* SlackThread
    posted, app, paused, head,                                    \* GitHubReport
    store, co, surfaces, faults, crashes                          \* both reports

Off == <<>>

slackVars == <<thread, handler, pub, view, ops, position>>
gitHubVars == <<posted, app, paused, head>>
bothVars == <<store, co, surfaces, faults, crashes>>
allVars == <<part, vars, slackVars, gitHubVars, bothVars>>

-----------------------------------------------------------------------------
(* A comparison of two specs, the first repeated, asked for under one key by *)
(* two deliveries, and another one an older release left unresolved.  In     *)
(* race the deliveries meet, one of them comes again and the branch moves; in *)
(* legacy two daemons freeze, prepare and run the old submission while the   *)
(* scheduler is paused and resumed; in runs one delivery's plan is run to    *)
(* its end, with crashes, failing runs and lost files.                       *)

MCKeyOf == [p1 |-> "k1", p2 |-> "k1"]
MCLegacyOf == "k2" :> s3
MCRequested == <<2, 1>>

PlanParts == {"race", "legacy", "runs"}
Rests(p) == producer'[p] = producer[p]
Untouched(s) == \A j \in Jobs : SubOf(j) = s => job'[j] = job[j]

PlanNext ==
    /\ part \in PlanParts
    /\ Next
    /\ part = "race" =>
         /\ Untouched(s3) /\ pending' = <<>> /\ coord'[d2] = Idle
         /\ policy'.generation <= 1 /\ spent'.faults = 0
    /\ part = "legacy" =>
         /\ Rests("p1") /\ Rests("p2")
         /\ \A j \in Jobs : job'[j].status \in {"none", "queued", "running", "completed"}
         /\ spent'.faults = 0
    /\ part = "runs" =>
         /\ Rests("p2") /\ Untouched(s3)
         /\ policy' = policy /\ ref' = ref /\ spent'.retries = 0

-----------------------------------------------------------------------------
(* One Slack mention: failing calls, a second delivery, a second run,        *)
(* debounced progress over a restart, and progress an outcome overtakes.     *)

SlackCases ==
    [slack_faults |-> [handlers |-> {"h1"}, runs |-> 1, progress |-> 0, faults |-> 2, crashes |-> 0],
     slack_again |-> [handlers |-> {"h1", "h2"}, runs |-> 1, progress |-> 0, faults |-> 0, crashes |-> 1],
     slack_repeat |-> [handlers |-> {"h1"}, runs |-> 2, progress |-> 0, faults |-> 1, crashes |-> 0],
     slack_progress |-> [handlers |-> {"h1"}, runs |-> 1, progress |-> 2, faults |-> 0, crashes |-> 1],
     slack_late |-> [handlers |-> {"h1"}, runs |-> 1, progress |-> 2, faults |-> 1, crashes |-> 0]]

Slack(k) == INSTANCE SlackThread WITH
    Handlers <- SlackCases[k].handlers, Overlap <- FALSE, Runs <- SlackCases[k].runs, Positions <- 2,
    MaxProgress <- SlackCases[k].progress, SubmitFaults <- {"before"},
    MaxFaults <- SlackCases[k].faults, MaxCrashes <- SlackCases[k].crashes, Stride <- 20

-----------------------------------------------------------------------------
(* A pull request's comment and check with failing calls and a push, over two *)
(* runs, with progress, and the check of a commit.                            *)

GitHubCases ==
    [pull |-> [pr |-> TRUE, wants |-> {"comment", "check"}, runs |-> 1, moves |-> 1, faults |-> 3,
                 progress |-> 0],
     pull_runs |-> [pr |-> TRUE, wants |-> {"comment", "check"}, runs |-> 2, moves |-> 0, faults |-> 1,
                 progress |-> 0],
     pull_late |-> [pr |-> TRUE, wants |-> {"comment", "check"}, runs |-> 1, moves |-> 0, faults |-> 1,
                 progress |-> 1],
     commit |-> [pr |-> FALSE, wants |-> {"check"}, runs |-> 2, moves |-> 0, faults |-> 2,
                 progress |-> 0]]

GitHub(k) == INSTANCE GitHubReport WITH
    PullRequest <- GitHubCases[k].pr, Wants <- GitHubCases[k].wants, Runs <- GitHubCases[k].runs,
    MaxProgress <- GitHubCases[k].progress, MaxMoves <- GitHubCases[k].moves,
    MaxFaults <- GitHubCases[k].faults, MaxCrashes <- 1

ASSUME CasesAssumption ==
    /\ \A k \in DOMAIN SlackCases : Slack(k)!CountAssumption
    /\ \A k \in DOMAIN GitHubCases : GitHub(k)!GitHubAssumption

-----------------------------------------------------------------------------
SlackOff == thread = Off /\ handler = Off /\ pub = Off /\ view = Off /\ ops = Off /\ position = Off
GitHubOff == posted = Off /\ app = Off /\ paused = Off /\ head = Off
BothOff == store = Off /\ co = Off /\ surfaces = Off /\ faults = Off /\ crashes = Off

MCInit ==
    /\ Init
    /\ \/ part \in PlanParts /\ SlackOff /\ GitHubOff /\ BothOff
       \/ \E k \in DOMAIN SlackCases : part = k /\ Slack(k)!Init /\ GitHubOff
       \/ \E k \in DOMAIN GitHubCases : part = k /\ GitHub(k)!Init /\ SlackOff

MCNext ==
    \/ PlanNext /\ UNCHANGED <<part, slackVars, gitHubVars, bothVars>>
    \/ \E k \in DOMAIN SlackCases :
         part = k /\ Slack(k)!Next /\ UNCHANGED <<part, vars, gitHubVars>>
    \/ \E k \in DOMAIN GitHubCases :
         part = k /\ GitHub(k)!Next /\ UNCHANGED <<part, vars, slackVars>>

MCSpec == MCInit /\ [][MCNext]_allVars

\* Submissions of deliveries, and commits, are interchangeable.
Interchangeable == Permutations({s1, s2}) \cup Permutations({c1, c2})

-----------------------------------------------------------------------------
(* Properties: what each component promises in the cases it is about.      *)

\* SlackThread: however calls fail, and though a delivery comes again after the
\* first was handled, a mention has one status message and a job that may run has
\* it to report to.  While the daemon stays up, the last outcome is marked reported
\* when the message shows it, and only progress it overtook is shown after it; over
\* restarts the version number of the message never goes back.
MessageTrue ==
    /\ [](/\ \A k \in {"slack_faults", "slack_again"} : part = k => Slack(k)!OneMessage
          /\ part = "slack_faults" => Slack("slack_faults")!RunnableIsReported)
    /\ [][/\ \A k \in {"slack_faults", "slack_repeat", "slack_late"} :
               part = k => Slack(k)!AcknowledgedShown
          /\ \A k \in {"slack_again", "slack_progress"} : part = k => Slack(k)!VersionsGrow]_allVars

\* GitHubReport: a job has one sticky comment and one check run, though creating them
\* fails or the daemon restarts in between; when its end is marked reported they
\* show it, and of all that is reported later only progress the end overtook takes
\* a concluded check or its comment back.
ChecksTrue ==
    /\ [](\A k \in DOMAIN GitHubCases : part = k => GitHub(k)!OneReport)
    /\ [][/\ \A k \in DOMAIN GitHubCases : part = k => GitHub(k)!FinalShown
          /\ \A k \in {"pull", "pull_late"} : part = k => GitHub(k)!CheckStaysConcluded]_allVars
=============================================================================
