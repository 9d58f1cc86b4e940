------------------------------ MODULE MCIntake ------------------------------
(***************************************************************************)
(* Requests on small instances: TaskIntake, from a mention or a trigger to *)
(* a payload, and WebhookProcessor, GitHub's deliveries.  A behaviour is   *)
(* about one case, named by part: "requests", in one of the scenes below,  *)
(* or a set of deliveries, during which TaskIntake stays as it starts and  *)
(* otherwise the variables of WebhookProcessor are Off.                    *)
(***************************************************************************)
EXTENDS TaskIntake

CONSTANTS Nil, r1, r2, k1, h1, h2, p1, p2

VARIABLES
    part,
    row, proc, install, member, policies, grants, pr, head, submitted, running, operator, spent

Off == <<>>

hookVars == <<row, proc, install, member, policies, grants, pr, head, submitted, running, operator, spent>>
allVars == <<part, vars, hookVars>>

-----------------------------------------------------------------------------
(* Scenes: answers of every shape with one field changed, from a provider  *)
(* that ignores the schema, to users entitled to some, all or none of the  *)
(* tasks; three deliveries at the rate limit; a changing repository        *)
(* policy; and restarts with other default arguments between the queueing  *)
(* of arguments and their placement.                                       *)

Quiet == [senders |-> {TaskKinds}, deliveries |-> {1}, templates |-> {"block_range"},
          changed |-> {"block_range"}, strict |-> TRUE, triggers |-> {}, stored |-> {<<>>},
          defaults |-> {<<>>}, restarts |-> 0, policy_changes |-> 0, time |-> 0]

MCScenes ==
    [answers |-> [Quiet EXCEPT !.senders = SUBSET TaskKinds, !.templates = DOMAIN Template,
                               !.changed = DOMAIN IntentResolutionJson, !.strict = FALSE],
     limits |-> [Quiet EXCEPT !.deliveries = {1, 2, 3}, !.templates = {"invalid"}, !.changed = {"status"},
                              !.restarts = 1, !.time = 3],
     revoked |-> [Quiet EXCEPT !.templates = {"block_range", "recent"}, !.changed = {"repository"},
                               !.policy_changes = 2],
     frozen |-> [Quiet EXCEPT !.triggers = {k1}, !.restarts = 2,
         !.defaults = {<<>>, <<"--start-at", "7", "--count", "5">>, <<"--block", "7", "--repetitions", "3">>},
         !.stored = {<<>>, <<"--count", "9">>, <<"--repetitions=9", "--block", "7">>,
                     <<"--repetitions", "9", "--txid", "ab", "-v">>,
                     <<"--repetitions", "--repetitions", "9", "--block", "7">>,
                     <<"--start-at", "7", "--count=5", "--repetitions", "9">>,
                     <<"--start-at", "7", "--repetitions", "--end-at", "9">>}]]

-----------------------------------------------------------------------------
(* Deliveries: commands on a pull request while the installation is        *)
(* suspended; pushes and tags beside a removal; a removal and a deletion   *)
(* beside an addition, with two processors; an installation from nothing;  *)
(* the events of a pull request, one without a body; and an operator.      *)

Established == [processors |-> {p1}, repos |-> {r1}, supported |-> {r1}, commits |-> {h1}, unparsed |-> {},
                established |-> TRUE, faults |-> 1, moves |-> 0, ops |-> 0]
On(kinds, repos) == [kind |-> kinds, repos_of |-> repos]
At1(kinds) == On(kinds, [d \in DOMAIN kinds |-> <<r1>>])

HookCases ==
    [commands |-> [Established EXCEPT !.commits = {h1, h2}, !.moves = 1]
        @@ At1([c1 |-> "comment", c2 |-> "comment", s1 |-> "suspend", u1 |-> "unsuspend"]),
     triggers |-> [Established EXCEPT !.commits = {h1, h2}, !.moves = 1]
        @@ At1([v1 |-> "validate", b1 |-> "push", t1 |-> "tag", x1 |-> "removed"]),
     registry |-> [Established EXCEPT !.processors = {p1, p2}, !.repos = {r1, r2}, !.supported = {r1, r2}]
        @@ On([a1 |-> "added", x1 |-> "removed", d1 |-> "deleted"],
              [a1 |-> <<r1>>, x1 |-> <<r1, r2>>, d1 |-> <<r1>>]),
     install |-> [Established EXCEPT !.processors = {p1, p2}, !.repos = {r1, r2}, !.established = FALSE,
                                     !.faults = 2]
        @@ On([i1 |-> "created", d1 |-> "deleted"], [i1 |-> <<r1, r2>>, d1 |-> <<r1>>]),
     pulls |-> [Established EXCEPT !.processors = {p1, p2}, !.unparsed = {"z1"}, !.faults = 0]
        @@ At1([o1 |-> "pr_opened", k1 |-> "pr_closed", q1 |-> "pr_reopened", e1 |-> "pr_edited", z1 |-> "other"]),
     operators |-> [Established EXCEPT !.ops = 1]
        @@ At1([c1 |-> "comment", c2 |-> "comment", a1 |-> "added", d1 |-> "deleted"])]

Hook(k) == INSTANCE WebhookProcessor WITH
    Deliveries <- DOMAIN HookCases[k].kind, Kind <- HookCases[k].kind, ReposOf <- HookCases[k].repos_of,
    Processors <- HookCases[k].processors, Repos <- HookCases[k].repos, Supported <- HookCases[k].supported,
    Commits <- HookCases[k].commits, Unparsed <- HookCases[k].unparsed,
    Established <- HookCases[k].established, Allowlisted <- TRUE, ValidationEnabled <- TRUE,
    Grants <- {[role |-> "trigger_pr_benchmark", scope |-> r1],
               [role |-> "trigger_block_validation", scope |-> Nil]},
    MaxAttempts <- 2, MaxFaults <- HookCases[k].faults, MaxMoves <- HookCases[k].moves,
    MaxOps <- HookCases[k].ops, None <- Nil, policy <- policies

ASSUME CasesAssumption == \A k \in DOMAIN HookCases : Hook(k)!WebhookAssumption

-----------------------------------------------------------------------------
HookOff ==
    /\ row = Off /\ proc = Off /\ install = Off /\ member = Off /\ policies = Off /\ grants = Off
    /\ pr = Off /\ head = Off /\ submitted = Off /\ running = Off /\ operator = Off /\ spent = Off

MCInit ==
    /\ Init
    /\ \/ part = "requests" /\ HookOff
       \/ scene = "answers" /\ sender = TaskKinds /\ \E k \in DOMAIN HookCases : part = k /\ Hook(k)!Init

MCNext ==
    \/ part = "requests" /\ Next /\ UNCHANGED <<part, hookVars>>
    \/ \E k \in DOMAIN HookCases : part = k /\ Hook(k)!Next /\ UNCHANGED <<part, vars>>

MCSpec == MCInit /\ [][MCNext]_allVars

-----------------------------------------------------------------------------
(* Properties: what each component promises in the cases it is about.      *)

\* TaskIntake: what is queued is what was asked, whatever shape the answer had, and
\* an invalid answer is never accepted nor refused without a reason; the rate limit
\* counts every request of its window; a policy that was revoked meanwhile is
\* honoured; and the frozen arguments are placed where they belong, with one
\* repetition in the process, though the daemon restarted with other defaults.
RequestsHonoured ==
    /\ RunsWhatWasAsked /\ AcceptedNeverInvalid /\ RefusalExplained /\ RateLimited
    /\ RevocationHonoured /\ FrozenArgsPlaced /\ OneInProcessRepetition

\* WebhookProcessor: with the one processor a daemon runs, a job is created only in a
\* state that the deliveries handled before allow, as long as no operator's command
\* comes between its checks and its insert, and two comments never have active jobs on
\* one commit (with two processors the lookup is best effort, webhook_processor.rs:572).
\* Also with two, a revoked repository keeps no enabled target, trigger or grant, and a
\* retired installation never regains a membership.
JobsAllowed ==
    /\ [](/\ \A k \in {"commands", "operators"} : part = k => Hook(k)!OneActivePerCommit
          /\ part = "registry" => Hook("registry")!RevokedIsDisarmed
          /\ \A k \in {"registry", "install", "operators"} : part = k => Hook(k)!RetiredHasNoMembers)
    /\ [][\A k \in {"commands", "triggers"} : part = k => Hook(k)!JobsAuthorized]_allVars

\* WebhookProcessor: a result is never replaced by a processor that lost its claim, a
\* delivery is given up exactly when its last permitted attempt failed, and a closed
\* pull request is reopened by a reopened event and nothing else.
DeliveriesFinal ==
    /\ [](part = "install" => Hook("install")!GivenUpExactly)
    /\ [][/\ part = "registry" => Hook("registry")!ResultsFinal
          /\ part = "pulls" => Hook("pulls")!ReopenedByEvent]_allVars
=============================================================================
