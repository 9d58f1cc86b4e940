-------------------------- MODULE DaemonLifeProofs ---------------------------
(***************************************************************************)
(* LifeOrderly, for any number of starts, any grace period and any set of  *)
(* configurations.  Nothing is assumed of the constants.                   *)
(*                                                                         *)
(* The argument: startup is a chain of steps, each of which knows what the *)
(* ones before it left (CookieFollowsStart), a file others may read never  *)
(* holds a token drawn by a start, and a process that ended has a result   *)
(* that its services and tokens, which nothing touches any more, explain.  *)
(***************************************************************************)
EXTENDS DaemonLife, TLAPS

\* The steps at which the cookie is already tightened, and already written.
Tightened == {"cookie_write", "tokens", "router", "signals", "serving"}
Written == {"tokens", "router", "signals", "serving"}

\* The types the argument rests on.
Typed ==
    /\ stage \in Steps \cup {"serving", "down"}
    /\ svc \in [Service -> Life]
    /\ tokens \in [draining : BOOLEAN, exit : BOOLEAN, forced : BOOLEAN]
    /\ cookie \in [content : {Empty} \cup {AdminTokenOf(n) : n \in Nat},
                   mode : {"absent", "private", "open"}]
    /\ boots \in Nat

\* What bootstrap_cookie leaves, call by call.
CookieFollowsStart ==
    /\ cookie.mode = "open" => cookie.content \in {Empty, AdminTokenOf(0)}
    /\ stage \in Tightened => cookie.mode = "private"
    /\ stage \in Written => cookie.content = AdminToken

\* No service runs before try_join!, the Slack arm swallows its errors, and the
\* second interrupt comes after the first.
ServicesFollowStart ==
    /\ stage \in Steps => svc = AllOff
    /\ svc["slack"] # "failed"
    /\ tokens.forced => tokens.exit

\* A result is that of a process that is down.
ResultIsLast ==
    /\ result # "none" => stage = "down"
    /\ CleanEndMeansSignal /\ SlackOptional /\ GraceHonoured

IInv == Typed /\ CookieFollowsStart /\ ServicesFollowStart /\ ResultIsLast

-----------------------------------------------------------------------------
(* The steps of run, and the routes.                                       *)

LEMMA StepsListed ==
  Steps = {"config", "connect", "migrate", "credentials", "compose", "artifacts", "lease_key",
           "slack", "coordinator", "cookie_open", "cookie_tighten", "cookie_write", "tokens",
           "router", "signals"}
  BY DEF Steps, After

\* The chain of run, where the cookie is concerned.
LEMMA StepsFollow ==
  ASSUME NEW st \in Steps
  PROVE  /\ After[st] \in Steps \cup {"serving"}
         /\ After[st] \in Tightened <=> st \in {"cookie_tighten"} \cup Tightened
         /\ After[st] \in Written <=> st \in {"cookie_write"} \cup Written
  BY StepsListed DEF After, Tightened, Written

\* build_router puts no route in two groups, and only GETs outside the guarded writes.
LEMMA RouteGroups ==
  ASSUME NEW r \in Routes
  PROVE  /\ r \in IngestRoutes <=> r = <<"POST", "webhooks">>
         /\ r \in ReadRoutes => r \notin IngestRoutes
         /\ r \in AdminRoutes => r \notin IngestRoutes /\ r \notin ReadRoutes
         /\ r \notin IngestRoutes \cup AdminRoutes => r[1] = "GET"
<1>1. r \in ReadRoutes => r[1] = "GET"
  BY DEF ReadRoutes
<1>2. r \in AdminRoutes => r # <<"POST", "webhooks">> /\ r \notin ReadRoutes
  <2>1. CASE r \in {"GET"} \X {"artifacts", "content"}
    BY <2>1 DEF ReadRoutes
  <2>2. CASE r[1] # "GET" /\ r # <<"POST", "webhooks">>
    BY <2>2, <1>1
  <2> QED
    BY <2>1, <2>2 DEF AdminRoutes
<1> QED
  BY <1>1, <1>2 DEF Routes, IngestRoutes

\* No two boots draw the same token, and none that of the handler.
LEMMA TokensDiffer ==
  /\ AdminToken # HandlerToken /\ AdminToken # Empty
  /\ boots # 0 => AdminToken # AdminTokenOf(0)
<1>1. AdminToken[1] = "admin" /\ AdminToken[2] = boots /\ AdminTokenOf(0)[2] = 0
  BY DEF AdminToken, AdminTokenOf
<1>2. HandlerToken[1] = "ingest" /\ DOMAIN Empty = {} /\ 1 \in DOMAIN AdminToken
  BY DEF HandlerToken, Empty, AdminToken, AdminTokenOf
<1> QED
  BY <1>1, <1>2

\* authorize: the administration cookie opens every read and every admin route.
LEMMA AdminServed ==
  ASSUME NEW r \in ReadRoutes \cup AdminRoutes
  PROVE  Authorize(r, AdminToken) = 200
<1>1. r \in Routes
  BY DEF Routes
<1>2. ScopeOf(r) \in {"read", "admin"}
  BY <1>1, RouteGroups DEF ScopeOf
<1>3. Resolve(AdminToken) = "admin"
  BY TokensDiffer DEF Resolve
<1> QED
  BY <1>2, <1>3 DEF Authorize, Satisfies

\* authorize: whatever a caller presents, a write is refused unless it is this boot's
\* cookie or, for the submission of a webhook, the handler's token.
LEMMA OthersRefused ==
  ASSUME NEW r \in Routes, NEW t, Authorize(r, t) = 200, r[1] # "GET"
  PROVE  \/ t = AdminToken /\ r # <<"POST", "webhooks">>
         \/ t = HandlerToken /\ r = <<"POST", "webhooks">>
<1>1. CASE r \in IngestRoutes
  <2>1. ScopeOf(r) = "ingest"
    BY <1>1, RouteGroups DEF ScopeOf
  <2>2. Resolve(t) = "ingest"
    BY <2>1 DEF Authorize, Satisfies
  <2>3. t = HandlerToken
    BY <2>2 DEF Resolve
  <2> QED
    BY <2>3, <1>1, RouteGroups
<1>2. CASE r \in AdminRoutes
  <2>1. ScopeOf(r) = "admin"
    BY <1>2, RouteGroups DEF ScopeOf
  <2>2. Resolve(t) = "admin"
    BY <2>1 DEF Authorize, Satisfies
  <2>3. t = AdminToken
    BY <2>2 DEF Resolve
  <2> QED
    BY <2>3, <1>2, RouteGroups
<1> QED
  BY <1>1, <1>2, RouteGroups

-----------------------------------------------------------------------------
(* The inductive invariant.                                                *)

LEMMA InitHolds == Init => IInv
<1> SUFFICES ASSUME Init PROVE IInv
  OBVIOUS
<1>1. Typed
  BY DEF Init, Typed, AllOff, Life, Clear, Empty, AdminTokenOf
<1>2. CookieFollowsStart
  BY DEF Init, CookieFollowsStart, Tightened, Written
<1>3. ServicesFollowStart
  BY StepsListed DEF Init, ServicesFollowStart, AllOff, Service, Core, Clear
<1>4. ResultIsLast
  BY DEF Init, ResultIsLast, CleanEndMeansSignal, SlackOptional, GraceHonoured
<1> QED
  BY <1>1, <1>2, <1>3, <1>4 DEF IInv

\* main: the next start forgets the last one, except for the cookie's file.
LEMMA BootKeeps == IInv /\ Boot => IInv'
<1> SUFFICES ASSUME IInv, Boot PROVE IInv'
  OBVIOUS
<1>1. Typed'
  BY StepsListed DEF IInv, Boot, Typed, AllOff, Life, Clear
<1>2. CookieFollowsStart'
  BY DEF IInv, Boot, CookieFollowsStart, Tightened, Written
<1>3. ServicesFollowStart'
  BY DEF Boot, ServicesFollowStart, AllOff, Service, Core, Clear
<1>4. ResultIsLast'
  BY DEF Boot, ResultIsLast, CleanEndMeansSignal, SlackOptional, GraceHonoured
<1> QED
  BY <1>1, <1>2, <1>3, <1>4 DEF IInv

\* run: each step finds what the steps before it left.
LEMMA StartupKeeps == IInv /\ StartupStep => IInv'
<1> SUFFICES ASSUME IInv, StartupStep PROVE IInv'
  OBVIOUS
<1> USE DEF IInv
<1>0. stage \in Steps /\ stage' = After[stage] /\ svc = AllOff /\ stage # "down"
  BY StepsListed DEF StartupStep, ServicesFollowStart
<1>1. svc' \in [Service -> Life] /\ svc'["slack"] # "failed" /\ (stage' \in Steps => svc' = AllOff)
  <2>1. CASE stage' = "serving"
    BY <2>1, StepsListed DEF StartupStep, Service, Core, Life
  <2>2. CASE stage' # "serving"
    BY <2>2, <1>0 DEF StartupStep, AllOff, Service, Core, Life
  <2> QED
    BY <2>1, <2>2
<1>2. cookie' = CookieStep(stage)
  BY DEF StartupStep
<1>3. Typed'
  <2>1. AdminToken \in {AdminTokenOf(n) : n \in Nat}
    BY DEF Typed, AdminToken
  <2>2. cookie' \in [content : {Empty} \cup {AdminTokenOf(n) : n \in Nat},
                     mode : {"absent", "private", "open"}]
    BY <1>2, <2>1 DEF CookieStep, Typed
  <2> QED
    BY <1>0, <1>1, <2>2, StepsFollow DEF Typed, StartupStep
<1>4. CookieFollowsStart'
  <2>1. AdminToken' = AdminToken
    BY DEF StartupStep, AdminToken
  <2>2. CASE stage = "cookie_open"
    BY <2>2, <1>0, <1>2, StepsFollow DEF CookieStep, CookieFollowsStart, Typed, Tightened, Written
  <2>3. CASE stage = "cookie_tighten"
    BY <2>3, <1>0, <1>2, StepsFollow DEF CookieStep, CookieFollowsStart, Typed, Tightened, Written
  <2>4. CASE stage = "cookie_write"
    BY <2>4, <2>1, <1>0, <1>2, StepsFollow DEF CookieStep, CookieFollowsStart, Typed, Tightened, Written
  <2>5. CASE stage \notin {"cookie_open", "cookie_tighten", "cookie_write"}
    <3>1. cookie' = cookie
      BY <2>5, <1>2 DEF CookieStep
    <3> QED
      BY <2>5, <2>1, <3>1, <1>0, StepsFollow DEF CookieFollowsStart
  <2> QED
    BY <2>2, <2>3, <2>4, <2>5
<1>5. ServicesFollowStart'
  BY <1>1 DEF StartupStep, ServicesFollowStart
<1>6. ResultIsLast'
  BY <1>0 DEF StartupStep, ResultIsLast, CleanEndMeansSignal, SlackOptional, GraceHonoured
<1> QED
  BY <1>3, <1>4, <1>5, <1>6

\* A process that fails or is killed before it serves, or is killed while it serves.
LEMMA CutKeeps == IInv /\ (StartupFails \/ Killed) => IInv'
<1> SUFFICES ASSUME IInv, StartupFails \/ Killed PROVE IInv'
  OBVIOUS
<1> USE DEF IInv
<1>1. /\ stage' = "down" /\ stage # "down"
      /\ \/ result' = "err" /\ stage \in Steps
         \/ result' = "killed"
      /\ UNCHANGED <<cfg, boots, wired, svc, tokens, since, cookie>>
  BY StepsListed DEF StartupFails, Killed
<1>2. Typed'
  BY <1>1 DEF Typed
<1>3. CookieFollowsStart'
  BY <1>1 DEF CookieFollowsStart, Tightened, Written
<1>4. ServicesFollowStart'
  BY <1>1, StepsListed DEF ServicesFollowStart
<1>5. ResultIsLast'
  BY <1>1 DEF ResultIsLast, ServicesFollowStart, CleanEndMeansSignal, SlackOptional, GraceHonoured
<1> QED
  BY <1>2, <1>3, <1>4, <1>5

\* What changes while the daemon serves and no result is in: services, tokens, time.
LEMMA ServingKeeps ==
  ASSUME IInv, Serving, UNCHANGED <<stage, boots, cookie, result>>,
         svc' \in [Service -> Life], svc'["slack"] # "failed",
         tokens' \in [draining : BOOLEAN, exit : BOOLEAN, forced : BOOLEAN],
         tokens'.forced => tokens'.exit
  PROVE  IInv'
<1> USE DEF IInv
<1>0. result' = "none" /\ stage' \notin Steps
  BY StepsListed DEF ResultIsLast, Serving
<1>1. Typed'
  BY DEF Typed
<1>2. CookieFollowsStart'
  BY DEF CookieFollowsStart, AdminToken
<1>3. ServicesFollowStart'
  BY <1>0 DEF ServicesFollowStart
<1>4. ResultIsLast'
  BY <1>0 DEF ResultIsLast, CleanEndMeansSignal, SlackOptional, GraceHonoured
<1> QED
  BY <1>1, <1>2, <1>3, <1>4

\* The services: only those of Core fail.
LEMMA ServicesKeep ==
  IInv /\ (ProcessorEnds \/ ApiStep \/ FleetStep \/ CoordinatorStep \/ SlackStep) => IInv'
<1> SUFFICES ASSUME IInv, ProcessorEnds \/ ApiStep \/ FleetStep \/ CoordinatorStep \/ SlackStep
             PROVE  IInv'
  OBVIOUS
<1>1. Serving
  BY DEF ProcessorEnds, ApiStep, FleetStep, CoordinatorStep, SlackStep
<1>2. PICK s \in Service, l \in Life : SetLife(s, l) /\ (s = "slack" => l # "failed")
  <2>1. CASE ProcessorEnds \/ ApiStep
    BY <2>1 DEF ProcessorEnds, ApiStep, Service, Core, Life
  <2>2. CASE FleetStep \/ CoordinatorStep
    BY <2>2 DEF FleetStep, CoordinatorStep, Service, Core, Life
  <2>3. CASE SlackStep
    BY <2>3 DEF SlackStep, Service, Core, Life
  <2> QED
    BY <2>1, <2>2, <2>3
<1>3. UNCHANGED <<stage, boots, cookie, result, tokens>> /\ svc' = [svc EXCEPT ![s] = l]
  BY <1>2 DEF SetLife
<1>4. svc' \in [Service -> Life] /\ svc'["slack"] # "failed"
  BY <1>2, <1>3 DEF IInv, Typed, ServicesFollowStart, Service
<1> QED
  BY <1>1, <1>3, <1>4, ServingKeeps DEF IInv, Typed, ServicesFollowStart

\* watch_signals and the clock of the grace period.
LEMMA SignalsKeep == IInv /\ (Signal \/ Tick) => IInv'
<1> SUFFICES ASSUME IInv, Signal \/ Tick PROVE IInv'
  OBVIOUS
<1>1. /\ tokens' \in [draining : BOOLEAN, exit : BOOLEAN, forced : BOOLEAN]
      /\ tokens'.forced => tokens'.exit
  <2>1. CASE Tick
    BY <2>1 DEF Tick, IInv, Typed, ServicesFollowStart
  <2>2. CASE Signal
    BY <2>2 DEF Signal, Interrupt, Quiesce, IInv, Typed, ServicesFollowStart
  <2> QED
    BY <2>1, <2>2
<1>2. Serving /\ UNCHANGED <<stage, boots, cookie, result, svc>>
  BY DEF Signal, Tick
<1> QED
  BY <1>1, <1>2, ServingKeeps DEF IInv, Typed, ServicesFollowStart

\* supervise_services: every way to end has a cause in the services and tokens.
LEMMA SuperviseKeeps == IInv /\ SuperviseServices => IInv'
<1> SUFFICES ASSUME IInv, SuperviseServices PROVE IInv'
  OBVIOUS
<1> USE DEF IInv
<1>1. /\ stage' = "down"
      /\ UNCHANGED <<cfg, boots, wired, svc, tokens, since, cookie>>
      /\ \/ result' = "ok" /\ tokens.forced
         \/ result' = "err" /\ ArmFailed
         \/ result' = "ok" /\ ArmsDone
         \/ result' = "ok" /\ tokens.exit /\ since >= Grace
  BY DEF SuperviseServices, Finish
<1>2. ArmsDone => tokens.exit
  BY DEF ArmsDone, ArmDone, Service
<1>3. ArmFailed => \E s \in Core : svc[s] = "failed"
  BY DEF ArmFailed, Service, ServicesFollowStart
<1>4. ArmsDone' <=> ArmsDone
  BY <1>1 DEF ArmsDone, ArmDone
<1>5. Typed'
  BY <1>1 DEF Typed
<1>6. CookieFollowsStart'
  BY <1>1 DEF CookieFollowsStart, Tightened, Written
<1>7. ServicesFollowStart'
  BY <1>1, StepsListed DEF ServicesFollowStart
<1>8. ResultIsLast'
  <2>1. CleanEndMeansSignal'
    BY <1>1, <1>2 DEF CleanEndMeansSignal, ServicesFollowStart
  <2>2. SlackOptional'
    BY <1>1, <1>3 DEF SlackOptional
  <2>3. GraceHonoured'
    BY <1>1, <1>4 DEF GraceHonoured
  <2> QED
    BY <1>1, <2>1, <2>2, <2>3 DEF ResultIsLast
<1> QED
  BY <1>5, <1>6, <1>7, <1>8

LEMMA StutterKeeps == IInv /\ UNCHANGED vars => IInv'
<1> SUFFICES ASSUME IInv, UNCHANGED vars PROVE IInv'
  OBVIOUS
<1> USE DEF vars
<1>1. Typed'
  BY DEF IInv, Typed
<1>2. CookieFollowsStart' /\ ServicesFollowStart'
  BY DEF IInv, CookieFollowsStart, ServicesFollowStart, AdminToken
<1>3. ResultIsLast'
  BY DEF IInv, ResultIsLast, CleanEndMeansSignal, SlackOptional, GraceHonoured, ArmsDone, ArmDone
<1> QED
  BY <1>1, <1>2, <1>3 DEF IInv

\* Every start, step of run, service, signal and end keeps IInv.
THEOREM LifeInvariant == Spec => []IInv
<1>1. IInv /\ [Next]_vars => IInv'
  BY BootKeeps, StartupKeeps, CutKeeps, ServicesKeep, SignalsKeep, SuperviseKeeps, StutterKeeps
     DEF Next
<1> QED
  BY <1>1, InitHolds, PTL DEF Spec

-----------------------------------------------------------------------------
(* What follows.                                                           *)

\* Whatever token a caller comes up with, while the daemon serves it writes nothing
\* without this boot's cookie, webhooks apart, and the cookie on disk is that one.
NoOtherWriter ==
    Serving =>
        /\ cookie = [content |-> AdminToken, mode |-> "private"]
        /\ \A r \in Routes : \A t : Authorize(r, t) = 200 /\ r[1] # "GET" =>
             t = cookie.content \/ (t = HandlerToken /\ r = <<"POST", "webhooks">>)

\* api::bootstrap_cookie and authorize together, for any token a caller presents.
THEOREM OnlyTheCookieWrites == Spec => []NoOtherWriter
<1>1. IInv => NoOtherWriter
  <2> SUFFICES ASSUME IInv, Serving
               PROVE  /\ cookie = [content |-> AdminToken, mode |-> "private"]
                      /\ \A r \in Routes : \A t : Authorize(r, t) = 200 /\ r[1] # "GET" =>
                           t = cookie.content \/ (t = HandlerToken /\ r = <<"POST", "webhooks">>)
    BY DEF NoOtherWriter
  <2>1. cookie.content = AdminToken /\ cookie.mode = "private"
    BY DEF IInv, CookieFollowsStart, Serving, Tightened, Written
  <2>2. cookie = [content |-> AdminToken, mode |-> "private"]
    BY <2>1 DEF IInv, Typed
  <2> QED
    BY <2>1, <2>2, OthersRefused
<1> QED
  BY <1>1, LifeInvariant, PTL

\* lib.rs and shutdown.rs: the cookie, the ends of the process and its grace period,
\* for any number of starts, any configurations and any grace period.
THEOREM LifeOrderlyAlways == Spec => []LifeOrderly
<1>1. IInv => LifeOrderly
  <2> SUFFICES ASSUME IInv PROVE LifeOrderly
    OBVIOUS
  <2>1. CookiePrivate
    BY TokensDiffer DEF IInv, CookieFollowsStart, CookiePrivate
  <2>2. CookieServes
    <3>1. Serving => cookie.content = AdminToken
      BY DEF IInv, CookieFollowsStart, Serving, Written
    <3> QED
      BY <3>1, AdminServed DEF CookieServes
  <2>3. OnlyOperatorWrites
    BY OthersRefused DEF OnlyOperatorWrites
  <2>4. CleanEndMeansSignal /\ SlackOptional /\ GraceHonoured
    BY DEF IInv, ResultIsLast
  <2> QED
    BY <2>1, <2>2, <2>3, <2>4 DEF LifeOrderly
<1> QED
  BY <1>1, LifeInvariant, PTL
=============================================================================
