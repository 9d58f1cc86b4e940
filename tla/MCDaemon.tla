------------------------------ MODULE MCDaemon ------------------------------
(***************************************************************************)
(* The daemon's process and its worker gateway on small instances:         *)
(* ConfigLoad, what it is configured with; DaemonLife, from start to       *)
(* shutdown; FleetGateway, what a worker's calls do; and FleetWire, how    *)
(* each is carried.  A behaviour is about one case, named by part; the     *)
(* variables of the other components are Off, those of DaemonLife as in an *)
(* initial state.                                                          *)
(***************************************************************************)
EXTENDS ConfigLoad, DaemonLife, Integers, Sequences, FiniteSets, TLC

CONSTANTS Nil, p1, p2, k1, k2, w1, w2, c1, c2

VARIABLES
    part,
    registry, keys, floor, session, attempt, debt, call, polls, contract, assured, now,  \* FleetGateway
    phase, rpc, sent, wire, got, fault, view, skew   \* FleetWire

Off == <<>>   \* as ConfigLoad's Nothing: the daemon it is about does not run

gatewayVars == <<registry, keys, floor, session, attempt, debt, call, polls, contract, assured, now>>
wireVars == <<phase, rpc, sent, wire, got, fault, view, skew>>
allVars == <<part, vars, configVars, gatewayVars, wireVars>>

-----------------------------------------------------------------------------
(* Three operators: one tunes the fleet's timing, one everything else, and *)
(* one the Slack surface with its policy.  The numbers lie at the borders  *)
(* of the integer widths.                                                  *)

MCOperators ==
    {[profile |-> "minimal", sections |-> {"fleet"}, numbers |-> {0, 45, 1049, U64MAX}, edits |-> 3],
     [profile |-> "minimal", numbers |-> {0, 5}, edits |-> 2,
      sections |-> {"server", "github", "vm", "paths", "lvm", "stacks_bench", "api", "reporting",
                    "runner", "artifacts", "binary_cache", "llm"}],
     [profile |-> "slack", sections |-> {"slack", "llm", "block_validation", "artifacts"},
      numbers |-> {0, 45, 46, I64MAX + 1}, edits |-> 2]}

-----------------------------------------------------------------------------
(* What a process registers with: a previous worker, a current one, one    *)
(* from the future, and one that offers nothing of the rest.               *)

Tasks == {"build_only_v1", "benchmark_v1", "block_validation_v1"}
Old == [version |-> 1, offer |-> Nil]
Current == [version |-> 2, offer |-> [min |-> 1, max |-> 2,
                                      features |-> Tasks \cup {"resident_cordon", "shutdown_after_idle"}]]
Future == [version |-> 3, offer |-> [min |-> 2, max |-> 3, features |-> Tasks \cup {"later"}]]
Malformed == [version |-> 1, offer |-> [min |-> 1, max |-> 1, features |-> {}]]

Work == {"register", "poll", "accept", "heartbeat"}

\* One process with two calls in flight while its key is revoked, under a lease
\* long enough for the second to begin after the first renewed it; two processes of
\* one worker while it is disabled or a key revoked; two workers that compete for
\* the keys; and two processes whose protocol offers are odd.
GatewayCases ==
    [revocation |-> [workers |-> {w1}, keys |-> {k1}, requests |-> p1 :> Current,
                     callers |-> {c1, c2}, ops |-> Work, commands |-> {"emergency"}, floors |-> {1}, ttl |-> 3, now |-> 3, offers |-> 1],
     operators |-> [workers |-> {w1}, keys |-> {k1, k2}, requests |-> p1 :> Current @@ p2 :> Current,
                    callers |-> {c1}, ops |-> Work \cup {"deregister", "credential", "grant"},
                    commands |-> {"revoke", "disable"}, floors |-> {1}, ttl |-> 1, now |-> 1, offers |-> 1],
     enrolment |-> [workers |-> {w1, w2}, keys |-> {k1, k2}, requests |-> p1 :> Old @@ p2 :> Current,
                    callers |-> {c1}, ops |-> {"register", "poll"},
                    commands |-> {"create", "update", "drain", "authorize", "revoke", "emergency"},
                    floors |-> {1, 2}, ttl |-> 1, now |-> 0, offers |-> 0],
     contracts |-> [workers |-> {w1}, keys |-> {k1, k2}, requests |-> p1 :> Future @@ p2 :> Malformed,
                    callers |-> {c1}, ops |-> Work, commands |-> {"drain"}, floors |-> {1, 2}, ttl |-> 1, now |-> 2, offers |-> 1]]

Gateway(k) == INSTANCE FleetGateway WITH
    Workers <- GatewayCases[k].workers, Keys <- GatewayCases[k].keys, None <- Nil,
    Sessions <- DOMAIN GatewayCases[k].requests,
    SessionKey <- [s \in DOMAIN GatewayCases[k].requests |-> IF s = p1 THEN k1 ELSE k2],
    Requests <- GatewayCases[k].requests, Callers <- GatewayCases[k].callers, Ops <- GatewayCases[k].ops,
    Commands <- GatewayCases[k].commands, Floors <- GatewayCases[k].floors,
    LeaseTtl <- GatewayCases[k].ttl, OfferTtl <- 1, MaxNow <- GatewayCases[k].now, MaxOffers <- GatewayCases[k].offers

\* Every call, with at most one damaged message.
Wire == INSTANCE FleetWire WITH
    Rpcs <- {"CheckRegistration", "Register", "Poll", "IdlePoll", "Accept", "FetchRepositoryCredential",
             "Heartbeat", "PublishReliableEvent", "PublishProgress", "GrantArtifact", "CompleteAttempt",
             "ListCleanup", "CompleteCleanup", "Deregister"},
    MaxSkew <- 1, stage <- phase

-----------------------------------------------------------------------------
(* Two starts, under a sound configuration or one departure from it.       *)

Sound == [artifacts |-> "s3", key |-> "private_long", slack |-> "on", llm |-> "on",
          ingest |-> "set", listen |-> "some", blocks |-> TRUE]
MCConfigs ==
    {Sound,
     [Sound EXCEPT !.artifacts = "local"],
     [Sound EXCEPT !.key = "group_readable"],
     [Sound EXCEPT !.key = "short"],
     [Sound EXCEPT !.slack = "off", !.llm = "off"],
     [Sound EXCEPT !.slack = "no_bot_token"],
     [Sound EXCEPT !.slack = "no_app_token"],
     [Sound EXCEPT !.llm = "on_without_key"],
     [Sound EXCEPT !.ingest = "empty"],
     [Sound EXCEPT !.ingest = "unset", !.blocks = FALSE],
     [Sound EXCEPT !.listen = "empty"]}

ASSUME CasesAssumption ==
    /\ \A k \in DOMAIN GatewayCases : Gateway(k)!TtlAssumption /\ Gateway(k)!KeyAssumption
    /\ Wire!SkewAssumption

-----------------------------------------------------------------------------
GatewayOff ==
    /\ registry = Off /\ keys = Off /\ floor = Off /\ session = Off /\ attempt = Off /\ debt = Off
    /\ call = Off /\ polls = Off /\ contract = Off /\ assured = Off /\ now = Off
WireOff ==
    /\ rpc = Off /\ sent = Off /\ wire = Off /\ got = Off
    /\ fault = Off /\ view = Off /\ skew = Off /\ phase = Off

LifeOff == Init /\ cfg = Sound /\ cookie.mode = "absent"

ConfigOff ==
    /\ operator = Off /\ file = Off /\ stray = FALSE /\ place = "nowhere" /\ env = Off
    /\ running = Off /\ edits = 0

MCInit ==
    \/ part = "config" /\ ConfigInit /\ GatewayOff /\ WireOff /\ LifeOff
    \/ /\ ConfigOff
       /\ \/ \E k \in DOMAIN GatewayCases : part = k /\ Gateway(k)!Init /\ WireOff /\ LifeOff
          \/ part = "wire" /\ Wire!Init /\ GatewayOff /\ LifeOff
          \/ part = "life" /\ Init /\ GatewayOff /\ WireOff

MCNext ==
    \/ part = "config" /\ ConfigNext /\ UNCHANGED <<part, vars, gatewayVars, wireVars>>
    \/ \E k \in DOMAIN GatewayCases :
         part = k /\ Gateway(k)!Next /\ UNCHANGED <<part, vars, configVars, wireVars>>
    \/ part = "wire" /\ Wire!Next /\ UNCHANGED <<part, vars, configVars, gatewayVars>>
    \/ part = "life" /\ Next /\ UNCHANGED <<part, configVars, gatewayVars, wireVars>>

MCSpec == MCInit /\ [][MCNext]_allVars

-----------------------------------------------------------------------------
(* Properties, beside LifeOrderly of DaemonLife: what each component       *)
(* promises in the cases it is about.                                      *)

\* ConfigLoad: what a daemon that starts serves is sound.  A timing it hands to a
\* worker is one the worker trusts, and the Slack surface and the block-validation
\* policy it accepted are complete.
ConfigServable == TimingTrusted /\ SlackServable /\ PolicyServable

\* FleetGateway: a session comes to life only under a key active at that moment, the
\* work of a revoked key outlives it by less than one term per call that was in
\* flight, and a key an operator was told is revoked stays revoked, whatever calls
\* were in flight; at most one long poll answers for a session, and worker and
\* daemon leave registration with the same contract.
CallersAuthorized ==
    /\ [](/\ \A k \in {"revocation", "operators"} : part = k => Gateway(k)!RevocationBounded
          /\ \A k \in {"operators", "enrolment"} : part = k => Gateway(k)!RevokedForGood
          /\ part = "revocation" => Gateway("revocation")!OnePoll
          /\ part = "contracts" => Gateway("contracts")!ContractsAgree)
    /\ [][\A k \in {"revocation", "operators", "enrolment"} : part = k => Gateway(k)!BornAuthorized]_allVars

\* FleetWire: whatever a peer of another build leaves out of a message or writes
\* that this build does not know, the message is refused, or read as what was
\* written, or its lost optional field is read as not given.
WireExact == part = "wire" => Wire!NeverMisread
=============================================================================
