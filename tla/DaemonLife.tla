------------------------------ MODULE DaemonLife ------------------------------
(***************************************************************************)
(* The life of one sbgh-daemon process: the startup steps of lib.rs's run  *)
(* in their order, the administration cookie, the bearer tokens and route  *)
(* groups of the API, the five services joined by try_join!, and the       *)
(* shutdown supervision of shutdown.rs.                                    *)
(*                                                                         *)
(* What the services do for the fleet is modelled elsewhere; here a        *)
(* service is its life: running, busy (inside work that no shutdown token  *)
(* interrupts), ended or failed.  The admin token carries the number of    *)
(* the boot that drew it, so two boots never share one; <<>> is an empty   *)
(* file and <<"ingest">> the configured handler token.                     *)
(***************************************************************************)
EXTENDS Naturals

CONSTANTS
    MaxBoots,   \* how many times the process is started
    Grace,      \* [fleet].heartbeat_interval, in ticks
    Configs     \* the configurations a start may load (after DaemonConfig::load)

VARIABLES
    cfg,        \* the configuration this boot loaded
    stage,      \* the startup step about to be taken, "serving" or "down"
    boots,      \* starts so far; the admin token of the current boot
    wired,      \* the surfaces composed so far
    svc,        \* the life of each service
    tokens,     \* draining, exit, forced
    since,      \* ticks since exit was cancelled
    cookie,     \* the cookie file: content and who may read it
    result      \* how the last process ended

vars == <<cfg, stage, boots, wired, svc, tokens, since, cookie, result>>

Core == {"processor", "api", "fleet", "coordinator"}
Service == Core \cup {"slack"}
Life == {"off", "running", "busy", "ended", "failed"}
AllOff == [s \in Service |-> "off"]
Clear == [draining |-> FALSE, exit |-> FALSE, forced |-> FALSE]
Empty == <<>>
HandlerToken == <<"ingest">>
AdminTokenOf(n) == <<"admin", n>>
AdminToken == AdminTokenOf(boots)

-----------------------------------------------------------------------------
(* Routes, scopes and tokens *)

IngestRoutes == {<<"POST", "webhooks">>}

\* Every GET listing.
ReadRoutes ==
    {"GET"} \X {"whoami", "webhooks", "installations", "resolve", "installers", "repos",
                "target", "source", "triggers", "users", "roles", "jobs", "submissions",
                "work", "report", "fleet", "protocol", "scheduler", "worker", "lifecycle",
                "metrics"}

\* Every write, and the two GETs that hand out artifact content.
AdminRoutes ==
    ({"GET"} \X {"artifacts", "content"})
    \cup ({"POST"} \X {"installers", "installers_disable", "repos", "repos_disable", "target",
                       "target_disable", "source", "source_disable", "triggers",
                       "trigger_disable", "trigger_pin", "roles", "roles_revoke",
                       "block_validation", "workers", "protocol", "pause", "abort", "resume",
                       "identities", "emergency_disable", "emergency_revoke", "drain",
                       "lifecycle", "cancel", "recover"})
    \cup {<<"PATCH", "worker">>, <<"DELETE", "identity">>}

Routes == IngestRoutes \cup ReadRoutes \cup AdminRoutes \cup {<<"GET", "health">>}

\* build_router: the scope whose layer guards a route; health has none.
ScopeOf(r) ==
    CASE r \in IngestRoutes -> "ingest"
      [] r \in ReadRoutes -> "read"
      [] r \in AdminRoutes -> "admin"
      [] OTHER -> "public"

\* Scope::satisfies: ingest is apart, admin implies read.
Satisfies(have, required) ==
    \/ have = required
    \/ required = "read" /\ have = "admin"

\* ApiTokens::new refuses an empty token and two scopes with one token.  The
\* admin token is drawn afresh, so only the configured one can be wrong.
ApiTokensNew(c) == c.ingest # "empty"

\* ApiTokens::resolve; "none" when no configured token matches.
Resolve(t) ==
    CASE t = AdminToken -> "admin"
      [] t = HandlerToken /\ cfg.ingest = "set" -> "ingest"
      [] OTHER -> "none"

\* authorize: the status of a call of route r with the bearer token t.
Authorize(r, t) ==
    LET required == ScopeOf(r) IN
    IF required = "public" THEN 200
    ELSE IF Resolve(t) = "none" THEN 401
    ELSE IF Satisfies(Resolve(t), required) THEN 200 ELSE 403

-----------------------------------------------------------------------------
(* Startup *)

\* run, in its order: what follows each step.  The cookie's three system calls
\* are steps of their own.
After ==
    [config |-> "connect", connect |-> "migrate", migrate |-> "credentials",
     credentials |-> "compose", compose |-> "artifacts", artifacts |-> "lease_key",
     lease_key |-> "slack", slack |-> "coordinator", coordinator |-> "cookie_open",
     cookie_open |-> "cookie_tighten", cookie_tighten |-> "cookie_write",
     cookie_write |-> "tokens", tokens |-> "router", router |-> "signals", signals |-> "serving"]
Steps == DOMAIN After

\* execution_artifact_store_config after the ensure!: the fleet needs S3.
ArtifactsAccepted(c) == c.artifacts = "s3"

\* LeaseSigner::load, under FleetRuntime::build: private to its owner and at
\* least 32 bytes.
LeaseKeyAccepted(c) == c.key = "private_long"

\* build_openai_intent_resolver needs a key, and only when [llm].enabled.
IntentAccepted(c) == c.llm # "on_without_key"

\* The Slack surface is built only when enabled; its settings are then fatal.
SlackAccepted(c) == c.slack # "off" => c.slack # "no_bot_token" /\ IntentAccepted(c)

\* The steps a configuration cannot pass; every other failure is outside.
Accepted(st) ==
    CASE st = "artifacts" -> ArtifactsAccepted(cfg)
      [] st = "lease_key" -> LeaseKeyAccepted(cfg)
      [] st = "slack" -> SlackAccepted(cfg)
      [] st = "tokens" -> ApiTokensNew(cfg)
      [] OTHER -> TRUE

\* Plain construction, which nothing can fail.
Infallible == {"compose", "coordinator", "router"}

\* The surfaces a step adds: the webhook handlers (with the block-validation
\* queue when its policy is configured), then Slack, then the API.
Handlers(c) ==
    {"issue_comment", "installation", "installation_repositories", "pull_request", "push",
     "create"} \cup (IF c.blocks THEN {"block_comment"} ELSE {})
SlackSurface(c) ==
    IF c.slack = "off" THEN {}
    ELSE {"slack"} \cup (IF c.blocks THEN {"slack_block"} ELSE {})
                  \cup (IF c.llm = "on" THEN {"intent"} ELSE {})
Surfaces(st) ==
    CASE st = "compose" -> Handlers(cfg)
      [] st = "slack" -> SlackSurface(cfg)
      [] st = "router" -> {"api"} \cup (IF cfg.blocks THEN {"api_block"} ELSE {})
      [] OTHER -> {}

\* bootstrap_cookie: O_TRUNC empties the file, O_CREAT's mode holds only for a
\* new one, an existing file is tightened before the secret is written.
CookieStep(st) ==
    CASE st = "cookie_open" ->
            [content |-> Empty, mode |-> IF cookie.mode = "absent" THEN "private" ELSE cookie.mode]
      [] st = "cookie_tighten" -> [cookie EXCEPT !.mode = "private"]
      [] st = "cookie_write" -> [cookie EXCEPT !.content = AdminToken]
      [] OTHER -> cookie

Init ==
    /\ cfg \in Configs
    /\ stage = "down"
    /\ boots = 0
    /\ wired = {}
    /\ svc = AllOff
    /\ tokens = Clear
    /\ since = 0
    /\ cookie \in {[content |-> Empty, mode |-> "absent"],
                  [content |-> AdminTokenOf(0), mode |-> "private"],
                  [content |-> AdminTokenOf(0), mode |-> "open"]}
    /\ result = "none"

\* main: an env file, tracing and a configuration, then run.  An operator may
\* have edited the configuration since the last start.
Boot ==
    /\ stage = "down" /\ boots < MaxBoots
    /\ cfg' \in Configs
    /\ stage' = "config"
    /\ boots' = boots + 1
    /\ wired' = {}
    /\ svc' = AllOff
    /\ tokens' = Clear
    /\ since' = 0
    /\ result' = "none"
    /\ UNCHANGED cookie

StartupStep ==
    /\ stage \in Steps
    /\ Accepted(stage)
    /\ stage' = After[stage]
    /\ wired' = wired \cup Surfaces(stage)
    /\ cookie' = CookieStep(stage)
    /\ svc' = IF stage' = "serving"
              THEN [s \in Service |->
                      IF s \in {"api", "fleet"} THEN "busy"
                      ELSE IF s = "slack" THEN (IF "slack" \in wired THEN "busy" ELSE "off")
                      ELSE "running"]
              ELSE svc
    /\ UNCHANGED <<cfg, boots, tokens, since, result>>

\* Any `?` of run: what the configuration rules out, or the outside failing.
StartupFails ==
    /\ stage \in Steps \ Infallible
    /\ stage' = "down"
    /\ result' = "err"
    /\ UNCHANGED <<cfg, boots, wired, svc, tokens, since, cookie>>

\* Power, SIGKILL, or any signal before watch_signals installed its handlers.
Killed ==
    /\ stage # "down"
    /\ stage' = "down"
    /\ result' = "killed"
    /\ UNCHANGED <<cfg, boots, wired, svc, tokens, since, cookie>>

-----------------------------------------------------------------------------
(* The services *)

Serving == stage = "serving"
SetLife(s, l) ==
    /\ svc' = [svc EXCEPT ![s] = l]
    /\ UNCHANGED <<cfg, stage, boots, wired, tokens, since, cookie, result>>

\* The processor is dropped at exit wherever it stands; a run of errors fails it.
ProcessorEnds ==
    /\ Serving /\ svc["processor"] = "running"
    /\ \/ SetLife("processor", "failed")
       \/ tokens.exit /\ SetLife("processor", "ended")

\* api::serve binds every listener (busy until then), serves, and after exit
\* finishes the requests in flight.
ApiStep ==
    /\ Serving
    /\ \/ svc["api"] = "busy" /\ SetLife("api", "failed")
       \/ svc["api"] = "busy" /\ cfg.listen = "some" /\ SetLife("api", "running")
       \/ svc["api"] = "running" /\ ~tokens.exit /\ SetLife("api", "busy")
       \/ svc["api"] = "running" /\ tokens.exit /\ SetLife("api", "ended")

\* fleet::run binds its mTLS listener, serves, and finishes calls after exit.
FleetStep ==
    /\ Serving
    /\ \/ svc["fleet"] = "busy" /\ SetLife("fleet", "failed")
       \/ svc["fleet"] = "busy" /\ SetLife("fleet", "running")
       \/ svc["fleet"] = "running" /\ ~tokens.exit /\ SetLife("fleet", "busy")
       \/ svc["fleet"] = "running" /\ tokens.exit /\ SetLife("fleet", "ended")

\* The coordinator's loop: a tick's handler runs to its end whatever was
\* cancelled meanwhile, its errors are logged; exit is seen between handlers,
\* and select! may still take a tick that is ready beside it.
CoordinatorStep ==
    /\ Serving
    /\ \/ svc["coordinator"] = "running" /\ SetLife("coordinator", "busy")
       \/ svc["coordinator"] = "busy" /\ SetLife("coordinator", "running")
       \/ svc["coordinator"] = "running" /\ tokens.exit /\ SetLife("coordinator", "ended")

\* sbgh_slack::run: connecting may hang or fail, which is only logged; once
\* connected it holds until draining and closes the socket.
SlackStep ==
    /\ Serving
    /\ \/ svc["slack"] = "busy" /\ SetLife("slack", "ended")
       \/ svc["slack"] = "busy" /\ cfg.slack = "on" /\ SetLife("slack", "running")
       \/ svc["slack"] = "running" /\ tokens.draining /\ SetLife("slack", "ended")

-----------------------------------------------------------------------------
(* Shutdown *)

Quiesce == [tokens EXCEPT !.draining = TRUE, !.exit = TRUE]

Interrupt == IF tokens.exit THEN [tokens EXCEPT !.forced = TRUE] ELSE Quiesce

\* watch_signals.
Signal ==
    /\ Serving
    /\ tokens' \in {Interrupt, Quiesce}
    /\ tokens' # tokens
    /\ UNCHANGED <<cfg, stage, boots, wired, svc, since, cookie, result>>

\* The arms of try_join!: the Slack arm idles until exit when it has ended.
ArmDone(s) ==
    IF s = "slack" THEN svc[s] \in {"off", "ended"} /\ tokens.exit ELSE svc[s] = "ended"
ArmFailed == \E s \in Service : svc[s] = "failed"
ArmsDone == \A s \in Service : ArmDone(s)

Finish(r) ==
    /\ stage' = "down"
    /\ result' = r
    /\ UNCHANGED <<cfg, boots, wired, svc, tokens, since, cookie>>

MutSuperviseServices ==
    /\ Serving
    /\ \/ tokens.forced /\ Finish("ok")
       \/ ~tokens.forced /\ ArmFailed /\ Finish("err")
       \/ ~tokens.forced /\ ~ArmFailed /\ ArmsDone /\ Finish("ok")
       \/ /\ ~tokens.forced /\ ~ArmFailed /\ ~ArmsDone
          /\ tokens.exit /\ Finish("ok")

\* supervise_services: biased, so forced is seen before the services and the
\* services before the end of the grace period.
SuperviseServices ==
    /\ Serving
    /\ \/ tokens.forced /\ Finish("ok")
       \/ ~tokens.forced /\ ArmFailed /\ Finish("err")
       \/ ~tokens.forced /\ ~ArmFailed /\ ArmsDone /\ Finish("ok")
       \/ /\ ~tokens.forced /\ ~ArmFailed /\ ~ArmsDone
          /\ tokens.exit /\ since >= Grace /\ Finish("ok")

\* The grace period's clock; what happens once it has run out no longer depends on it.
Tick ==
    /\ Serving /\ tokens.exit /\ since < Grace
    /\ since' = since + 1
    /\ UNCHANGED <<cfg, stage, boots, wired, svc, tokens, cookie, result>>

Next ==
    \/ Boot \/ StartupStep \/ StartupFails \/ Killed
    \/ ProcessorEnds \/ ApiStep \/ FleetStep \/ CoordinatorStep \/ SlackStep
    \/ Signal \/ SuperviseServices \/ Tick

Spec == Init /\ [][Next]_vars

-----------------------------------------------------------------------------
(* Properties *)

Presented == {Empty, HandlerToken} \cup {AdminTokenOf(n) : n \in 0..MaxBoots}

\* A pre-existing world-readable cookie never holds the running boot's admin
\* token, whichever of bootstrap_cookie's calls fails or is cut (api/mod.rs).
CookiePrivate == cookie.mode = "open" => cookie.content # AdminToken \/ boots = 0

\* While the daemon serves, the token in the cookie file opens every read and
\* every admin route, after any history of failed and killed starts.
CookieServes ==
    Serving => \A r \in ReadRoutes \cup AdminRoutes : Authorize(r, cookie.content) = 200

\* A route that is not a GET is served to nobody but the holder of this boot's
\* cookie, except the webhook submission, which takes the handler's token: not
\* to an earlier boot's cookie, nor to an empty token, nor across scopes.
OnlyOperatorWrites ==
    Serving => \A r \in Routes, t \in Presented :
        Authorize(r, t) = 200 /\ r[1] # "GET" =>
            \/ t = AdminToken /\ r # <<"POST", "webhooks">>
            \/ t = HandlerToken /\ r = <<"POST", "webhooks">>

\* The daemon never ends with success on its own: systemd restarts it only on
\* failure, so a clean end nobody asked for would leave the host without it.
CleanEndMeansSignal == result = "ok" => tokens.exit

\* Slack is an optional surface: once serving, a failed end is always the
\* failure of another service (lib.rs, the Slack arm of try_join!).
SlackOptional == result = "err" /\ svc # AllOff => \E s \in Core : svc[s] = "failed"

\* A shutdown waits for its services until each has returned, a repeated interrupt
\* comes or the whole grace period has passed.  (A service that returns at the exit
\* token may leave work of its own unfinished: the webhook processor is dropped
\* where it stands, lib.rs:397-400, and Slack's dispatches are detached, socket.rs:97.)
GraceHonoured ==
    result = "ok" /\ ~ArmsDone => tokens.forced \/ since >= Grace

\* While the daemon serves, the holder of this boot's cookie and nobody else can
\* write, webhooks apart; it never ends with success unless it was asked to end, a
\* failed end is the failure of a service other than Slack, and a service that has
\* not returned is cut only by force or after the grace period.
LifeOrderly ==
    /\ CookiePrivate /\ CookieServes /\ OnlyOperatorWrites
    /\ CleanEndMeansSignal /\ SlackOptional /\ GraceHonoured
=============================================================================
