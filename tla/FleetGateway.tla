----------------------------- MODULE FleetGateway -----------------------------
(***************************************************************************)
(* Who may speak for a worker.  Every remote call is authorized by the key *)
(* of its connection and only then runs its store transaction; operators   *)
(* enrol, revoke and disable in between.  A transaction's NOW() is the time *)
(* it began, so an answer can rest on a clock older than a row it reads.   *)
(*                                                                         *)
(* Work is reduced to the one attempt a session may hold; what becomes of  *)
(* its job is in FleetStore, of its reports in AttemptLedger.              *)
(***************************************************************************)
EXTENDS Integers, FiniteSets, FiniteSetsExt

CONSTANTS
    Workers, Keys, None,
    Sessions,      \* worker processes
    SessionKey,    \* the private key a process presents
    Requests,      \* [Sessions -> the version and protocol offer it registers with]
    Callers,       \* calls that may be in flight at once
    Ops,           \* the remote calls of this instance
    Commands,      \* the operator commands of this instance
    Floors,        \* compatibility floors the deployment may run with
    LeaseTtl, OfferTtl,
    MaxNow,        \* bound: the clock
    MaxOffers      \* bound: offers a session is made

TtlAssumption == LeaseTtl \in Nat \ {0} /\ OfferTtl \in Nat \ {0} /\ MaxNow \in Nat
                        /\ MaxOffers \in Nat
KeyAssumption == SessionKey \in [Sessions -> Keys] /\ None \notin Workers

VARIABLES
    registry,      \* worker_registry
    keys,          \* worker_identity_key: owner, revoked, and when
    floor,
    session,       \* worker_session
    attempt,       \* the attempt a session holds
    debt,          \* workers with a pending cleanup obligation
    call,          \* calls in flight
    polls,         \* ActivePolls
    contract,      \* what each process understood from its registration
    assured,       \* keys an operator was told are revoked
    now

vars == <<registry, keys, floor, session, attempt, debt, call, polls, contract, assured, now>>
store == <<registry, keys, session, attempt, debt>>

Live == {"registered", "idle", "offered", "running", "draining"}
Quiet == {"registered", "idle", "draining"}
Owner(s) == keys[SessionKey[s]].owner
Of(w) == {s \in Sessions : session[s].status # "none" /\ session[s].worker = w}
Active(s) == attempt[s].status # "none"
Started(s) == attempt[s].status \in {"running", "cancel_requested"}
Busy(w) == w \in debt \/ \E s \in Of(w) : Active(s)

-----------------------------------------------------------------------------
(* Negotiation.  Revision 1 has fixed semantics; 2 is the newest.          *)

Previous == 1
Negotiated == 2
legacy == {"build_only_v1", "benchmark_v1", "block_validation_v1"}
supported == legacy \cup {"resident_cordon", "shutdown_after_idle"}

validate(offer) ==
    /\ offer.min # 0 /\ offer.min <= offer.max
    /\ offer.max = Previous => offer.features = {}

\* The offer a request stands for, or None.
registration(request) ==
    CASE request.offer = None ->
           IF request.version # Previous THEN None
           ELSE [min |-> Previous, max |-> Previous, features |-> {}]
      [] request.offer # None ->
           IF /\ validate(request.offer)
              /\ request.version = request.offer.max
              /\ request.version # Previous
           THEN request.offer ELSE None

features_at(offer, revision) ==
    IF revision = Previous THEN legacy ELSE supported \cap offer.features

negotiate(offer, minimum) ==
    LET revision == Min({offer.max, Negotiated})
    IN  IF ~validate(offer) \/ revision < Max({offer.min, minimum}) THEN None
        ELSE [revision |-> revision, features |-> features_at(offer, revision)]

validate_selection(offer, selected) ==
    /\ validate(offer)
    /\ selected.revision \in (offer.min..offer.max) \cap (Previous..Negotiated)
    /\ selected.features \subseteq features_at(offer, selected.revision)
    /\ selected.revision = Previous => selected.features = legacy

\* What the worker makes of the daemon's answer; the daemon sends the contract
\* only to a worker that sent an offer.
response(request, selected) ==
    LET offer == registration(request)
        understood == IF request.offer # None THEN selected
                      ELSE IF offer.max = Previous /\ selected.revision = Previous
                      THEN negotiate(registration([version |-> Previous, offer |-> None]), Previous)
                      ELSE None
    IN  IF understood # None /\ validate_selection(offer, understood) THEN understood
        ELSE [revision |-> 0, features |-> {}]

-----------------------------------------------------------------------------
(* Authorization of a call.                                                *)

authorize_worker(k) ==
    /\ keys[k].owner # None
    /\ keys[k].revoked = "no"
    /\ registry[keys[k].owner].enabled

session_is_active(s) ==
    /\ session[s].status \in Live
    /\ registry[session[s].worker].enabled
    /\ session[s].expires > now

offered_assignment(c) ==
    LET s == call[c].session IN
    /\ Active(s) /\ attempt[s].gen = call[c].gen /\ attempt[s].lease > now
    /\ registry[session[s].worker].enabled
    /\ session[s].status \in Live /\ session[s].expires > now

Idle == [pc |-> "idle"]
Reply(c) == /\ call' = [call EXCEPT ![c] = Idle]
            /\ polls' = IF call[c].op = "poll" /\ call[c].pc # "authorized"
                        THEN polls \ {call[c].session} ELSE polls
Refused(c) == Reply(c) /\ UNCHANGED <<store, contract>>
Step(c, pc) == call' = [call EXCEPT ![c].pc = pc]

\* authorized_worker, then the request is validated: nothing is written yet.
authorize_peer(c, s, op) ==
    /\ call[c].pc = "idle"
    /\ authorize_worker(SessionKey[s])
    /\ op = "register" \/ session[s].status # "none"
    /\ op \in {"register", "poll", "deregister"} \/ Active(s)   \* authorize_attempt: a token was issued
    /\ call' = [call EXCEPT ![c] = [pc |-> "authorized", op |-> op, session |-> s,
                                    worker |-> Owner(s), gen |-> attempt[s].gen, began |-> 0]]
    /\ UNCHANGED <<store, polls, contract, floor, assured, now>>

\* The transaction's BEGIN fixes its NOW().
Begin(c) ==
    /\ \/ call[c].pc = "authorized" /\ call[c].op \in {"register", "heartbeat", "credential"}
       \/ call[c].pc = "polling"
       \/ call[c].pc = "checked" /\ call[c].op = "accept"
    /\ call' = [call EXCEPT ![c].pc = "begun", ![c].began = now]
    /\ UNCHANGED <<store, polls, contract, floor, assured, now>>

-----------------------------------------------------------------------------
(* Registration.                                                           *)

\* The transaction asks again for the key and the worker, under their locks.
Policy(c) ==
    LET k == SessionKey[call[c].session]  w == call[c].worker
    IN  keys[k].owner = w /\ keys[k].revoked = "no" /\ registry[w].enabled

Superseded(c, s) ==
    \E t \in Of(call[c].worker) \ {s} :
        \/ session[t].started >= session[s].started
        \/ session[t].status \in Live /\ session[t].expires > call[c].began

\* A fenced predecessor's started work must be torn down.
Fence(w, s) ==
    LET lost == {t \in Of(w) \ {s} : Active(t)}
    IN  /\ attempt' = [t \in Sessions |->
                         IF t \in lost THEN [attempt[t] EXCEPT !.status = "none"] ELSE attempt[t]]
        /\ debt' = IF \E t \in lost : attempt[t].status # "offered" THEN debt \cup {w} ELSE debt

register(c) ==
    LET s == call[c].session  w == call[c].worker
        offer == registration(Requests[s])
        selected == IF offer = None THEN None ELSE negotiate(offer, floor)
        status == IF registry[w].draining THEN "draining" ELSE "registered"
        recovering == session[s].status = "offline" \/ session[s].expires <= call[c].began
    IN  /\ call[c].pc = "begun" /\ call[c].op = "register"
        /\ UNCHANGED <<registry, keys, floor, assured, now>>
        /\ \/ /\ Policy(c) /\ selected # None
              /\ session[s].status = "none"
              /\ Fence(w, s)
              /\ session' = [t \in Sessions |->
                   IF t = s THEN [status |-> status, worker |-> w, contract |-> selected,
                                  expires |-> call[c].began + 2 * LeaseTtl,
                                  started |-> 1 + Cardinality({u \in Sessions : session[u].started > 0})]
                   ELSE IF t \in Of(w) /\ session[t].status \in Live
                   THEN [session[t] EXCEPT !.status = "offline"] ELSE session[t]]
              /\ contract' = [contract EXCEPT ![s] = response(Requests[s], selected)]
              /\ Reply(c)
           \/ /\ Policy(c) /\ selected # None
              /\ session[s].status \notin {"none", "deregistered"}
              /\ ~Superseded(c, s)
              /\ recovering => \A t \in Of(w) : ~Active(t)
              /\ session' = [session EXCEPT ![s].expires = call[c].began + 2 * LeaseTtl,
                               ![s].status = IF registry[w].draining THEN "draining"
                                             ELSE IF recovering THEN "idle" ELSE @]
              /\ contract' = [contract EXCEPT ![s] = response(Requests[s], session[s].contract)]
              /\ Reply(c)
              /\ UNCHANGED <<attempt, debt>>
           \/ /\ \/ ~Policy(c)
                 \/ selected = None
                 \/ session[s].status = "deregistered"
                 \/ /\ session[s].status # "none"
                    /\ Superseded(c, s) \/ (recovering /\ \E t \in Of(w) : Active(t))
              /\ Refused(c)

deregister(c) ==
    LET s == call[c].session
    IN  /\ call[c].pc = "authorized" /\ call[c].op = "deregister"
        /\ session' = IF session[s].status \in Quiet \cup {"offline"} /\ ~Active(s)
                         /\ session[s].worker \notin debt
                      THEN [session EXCEPT ![s].status = "deregistered"] ELSE session
        /\ Reply(c)
        /\ UNCHANGED <<registry, keys, attempt, debt, contract, floor, assured, now>>

-----------------------------------------------------------------------------
(* Calls of a session.                                                     *)

enter(s) == s \notin polls

\* One long poll per session, entered only by an active one.
poll_enter(c) ==
    LET s == call[c].session
    IN  /\ call[c].pc = "authorized" /\ call[c].op = "poll"
        /\ IF session_is_active(s) /\ enter(s)
           THEN Step(c, "polling") /\ polls' = polls \cup {s} /\ UNCHANGED <<store, contract>>
           ELSE Refused(c)
        /\ UNCHANGED <<floor, assured, now>>

\* poll_offer: the session row is read with the transaction's clock.  No session
\* is below the floor here: the floor moves in FleetStore only.
Pollable(c) ==
    LET s == call[c].session
    IN  /\ session[s].status \in Quiet \cup {"offered"}
        /\ registry[session[s].worker].enabled
        /\ session[s].expires > call[c].began

poll_offer(c) ==
    LET s == call[c].session  w == session[s].worker
        renewed == [session EXCEPT ![s].expires = call[c].began + 2 * LeaseTtl]
    IN  /\ call[c].pc = "begun" /\ call[c].op = "poll"
        /\ UNCHANGED <<registry, keys, debt, contract, floor, assured, now>>
        /\ \/ /\ Pollable(c)
              /\ \/ /\ registry[w].draining
                    /\ session' = [renewed EXCEPT ![s].status = "draining"]
                    /\ Step(c, "looping") /\ UNCHANGED <<attempt, polls>>
                 \/ /\ ~registry[w].draining
                    /\ \/ w \in debt /\ session' = renewed
                       \/ w \notin debt /\ session' = [renewed EXCEPT ![s].status = "idle"]
                          /\ ~(attempt[s].status = "offered" /\ attempt[s].offer > call[c].began)
                    /\ Step(c, "looping") /\ UNCHANGED <<attempt, polls>>
                 \/ /\ ~registry[w].draining /\ w \notin debt
                    /\ attempt[s].status = "offered" /\ attempt[s].offer > call[c].began
                    /\ session' = renewed
                    /\ Reply(c) /\ UNCHANGED attempt
                 \/ /\ ~registry[w].draining /\ w \notin debt /\ ~Active(s)
                    /\ attempt[s].gen < MaxOffers
                    /\ attempt' = [attempt EXCEPT ![s] =
                          [status |-> "offered", gen |-> @.gen + 1,
                           offer |-> now + OfferTtl, lease |-> now + LeaseTtl]]
                    /\ session' = [renewed EXCEPT ![s].status = "offered"]
                    /\ Reply(c)
           \/ /\ ~Pollable(c)
              /\ Step(c, "looping") /\ UNCHANGED <<session, attempt, polls>>

\* Between two rounds the poll asks for a reason to stop: an inactive session,
\* an idle worker told to leave, or its own deadline.
poll_round(c) ==
    LET s == call[c].session  w == session[s].worker
    IN  /\ call[c].pc = "looping"
        /\ \/ Refused(c)
           \/ /\ session_is_active(s)
              /\ Busy(w) \/ ~registry[w].draining \/ "resident_cordon" \in session[s].contract.features
              /\ Step(c, "polling") /\ UNCHANGED <<store, polls, contract>>
        /\ UNCHANGED <<floor, assured, now>>

\* accept and artifact_grant first read the assignment.
read_assignment(c) ==
    /\ call[c].pc = "authorized" /\ call[c].op \in {"accept", "grant"}
    /\ IF offered_assignment(c)
       THEN Step(c, "checked") /\ UNCHANGED <<store, polls, contract>> ELSE Refused(c)
    /\ UNCHANGED <<floor, assured, now>>

\* accept_offer compares the offer's deadline with the transaction's clock.
accept(c) ==
    LET s == call[c].session  w == session[s].worker
    IN  /\ call[c].pc = "begun" /\ call[c].op = "accept"
        /\ IF /\ attempt[s].status = "offered" /\ attempt[s].gen = call[c].gen
              /\ attempt[s].offer > call[c].began
              /\ registry[w].enabled /\ ~registry[w].draining /\ w \notin debt
              /\ session[s].contract.revision >= floor
           THEN /\ attempt' = [attempt EXCEPT ![s].status = "running",
                                              ![s].lease = call[c].began + LeaseTtl]
                /\ session' = [session EXCEPT ![s].status = "running"]
           ELSE UNCHANGED <<attempt, session>>
        /\ Reply(c)
        /\ UNCHANGED <<registry, keys, debt, contract, floor, assured, now>>

MutRenewable(c) == Started(call[c].session) /\ attempt[call[c].session].gen = call[c].gen
Renewable(c) ==
    LET s == call[c].session
    IN  /\ registry[session[s].worker].enabled
        /\ Started(s) /\ attempt[s].gen = call[c].gen
        /\ attempt[s].lease > call[c].began

\* A heartbeat, and the same renewal inside event and repository_credential.
heartbeat(c) ==
    LET s == call[c].session
    IN  /\ call[c].pc = "begun" /\ call[c].op \in {"heartbeat", "credential"}
        /\ IF Renewable(c)
           THEN /\ attempt' = [attempt EXCEPT ![s].lease = call[c].began + LeaseTtl]
                /\ session' = [session EXCEPT ![s].expires = call[c].began + 2 * LeaseTtl]
                /\ IF call[c].op = "credential" /\ attempt[s].status = "running"
                   THEN Step(c, "held") /\ UNCHANGED polls
                   ELSE Reply(c)
           ELSE Reply(c) /\ UNCHANGED <<attempt, session>>
        /\ UNCHANGED <<registry, keys, debt, contract, floor, assured, now>>

\* The credential is minted over the network after one more look at the row;
\* a grant is signed and recorded after the assignment was read.
hand_out(c) ==
    /\ \/ call[c].pc = "held"
       \/ call[c].pc = "checked" /\ call[c].op = "grant"
    /\ Refused(c)
    /\ UNCHANGED <<floor, assured, now>>

\* The connection breaks or the request times out: the handler is dropped, its
\* transaction rolled back and its poll guard released.
Abandon(c) ==
    /\ call[c].pc # "idle"
    /\ Refused(c)
    /\ UNCHANGED <<floor, assured, now>>

-----------------------------------------------------------------------------
(* What else happens to an attempt, in the terms of this module.           *)

Settle(s) ==
    LET w == session[s].worker
    IN  /\ Active(s)
        /\ \/ /\ attempt[s].status # "offered" /\ attempt[s].lease > now
              /\ registry[w].enabled /\ session[s].status \in Live
              /\ session' = [session EXCEPT ![s].status =
                                IF registry[w].draining THEN "draining" ELSE "idle"]
              /\ UNCHANGED debt
           \/ /\ IF attempt[s].status = "offered" THEN attempt[s].offer <= now
                                                  ELSE attempt[s].lease <= now
              /\ session' = [session EXCEPT ![s].status = IF @ \in Live THEN "offline" ELSE @]
              /\ debt' = IF attempt[s].status = "offered" THEN debt ELSE debt \cup {w}
        /\ attempt' = [attempt EXCEPT ![s].status = "none"]
        /\ UNCHANGED <<registry, keys, floor, call, polls, contract, assured, now>>

RequestCancel(s) ==
    /\ attempt[s].status = "running"
    /\ attempt' = [attempt EXCEPT ![s].status = "cancel_requested"]
    /\ UNCHANGED <<registry, keys, floor, session, debt, call, polls, contract, assured, now>>

CompleteCleanup(s) ==
    /\ session[s].status \in Live /\ session[s].worker \in debt
    /\ session[s].expires > now /\ authorize_worker(SessionKey[s])
    /\ debt' = debt \ {session[s].worker}
    /\ UNCHANGED <<registry, keys, floor, session, attempt, call, polls, contract, assured, now>>

-----------------------------------------------------------------------------
(* The operator's commands, as the administration API answers them.        *)

\* Applied and unchanged are both success to the operator.
mutation_response(mutation) == mutation \in {"applied", "unchanged"}

\* A worker enters disabled and draining.
create_worker(w) ==
    /\ ~registry[w].exists
    /\ registry' = [registry EXCEPT ![w] = [exists |-> TRUE, enabled |-> FALSE, draining |-> TRUE]]
    /\ UNCHANGED <<keys, floor, session, attempt, debt, call, polls, contract, assured, now>>

update_worker(w, enabled) ==
    /\ registry[w].exists /\ registry[w].enabled # enabled
    /\ registry[w].draining /\ ~Busy(w)
    /\ enabled => \E k \in Keys : keys[k].owner = w /\ keys[k].revoked = "no"
    /\ registry' = [registry EXCEPT ![w].enabled = enabled]
    /\ session' = [s \in Sessions |-> IF s \in Of(w) /\ session[s].status \in Quiet
                                      THEN [session[s] EXCEPT !.status = "offline"] ELSE session[s]]
    /\ UNCHANGED <<keys, floor, attempt, debt, call, polls, contract, assured, now>>

\* Cordon withdraws the worker's offers.
set_drain(w, draining) ==
    /\ registry[w].exists /\ registry[w].draining # draining
    /\ registry' = [registry EXCEPT ![w].draining = draining]
    /\ attempt' = [s \in Sessions |->
         IF draining /\ s \in Of(w) /\ attempt[s].status = "offered"
         THEN [attempt[s] EXCEPT !.status = "none"] ELSE attempt[s]]
    /\ session' = [s \in Sessions |->
         IF s \in Of(w) /\ session[s].status \in Quiet \cup {"offered"} /\ session[s].expires > now
         THEN [session[s] EXCEPT !.status = IF draining THEN "draining" ELSE "idle"] ELSE session[s]]
    /\ UNCHANGED <<keys, floor, debt, call, polls, contract, assured, now>>

\* ON CONFLICT DO NOTHING: a digest belongs to the first worker for ever.
authorize_identity(w, k) ==
    /\ registry[w].exists
    /\ keys[k].owner = None
    /\ keys' = [keys EXCEPT ![k] = [owner |-> w, revoked |-> "no", at |-> 0]]
    /\ UNCHANGED <<registry, floor, session, attempt, debt, call, polls, contract, assured, now>>

Using(w, k) == {s \in Of(w) : SessionKey[s] = k /\ session[s].status \in Live}
LastKey(w, k) == \A l \in Keys \ {k} : keys[l].owner # w \/ keys[l].revoked # "no"

revoke_decision(w, k) ==
    CASE keys[k].owner # w          -> "not_found"
      [] keys[k].owner = w /\ keys[k].revoked # "no" -> "unchanged"
      [] OTHER ->
           IF /\ Using(w, k) # {} \/ (LastKey(w, k) /\ registry[w].enabled)
              /\ ~registry[w].draining \/ Busy(w)
           THEN "busy" ELSE "applied"

Closed(w, k) ==
    [s \in Sessions |-> IF s \in Using(w, k) /\ session[s].status \in Quiet
                        THEN [session[s] EXCEPT !.status = "offline"] ELSE session[s]]

revoke_identity(w, k) ==
    LET mutation == revoke_decision(w, k)
    IN  /\ IF mutation = "applied"
           THEN /\ session' = Closed(w, k)
                /\ keys' = [keys EXCEPT ![k].revoked = "ordinary", ![k].at = now]
           ELSE UNCHANGED <<session, keys>>
        /\ assured' = IF mutation_response(mutation) THEN assured \cup {k} ELSE assured
        /\ UNCHANGED <<registry, floor, attempt, debt, call, polls, contract, now>>

\* Every deadline of the given sessions has passed; the sweep does the rest.
expire_worker_leases(S) ==
    /\ attempt' = [s \in Sessions |->
         IF s \in S /\ Active(s)
         THEN [attempt[s] EXCEPT !.offer = Min({@, now}), !.lease = Min({@, now})] ELSE attempt[s]]
    /\ session' = [s \in Sessions |->
         IF s \in S /\ session[s].status \in Live
         THEN [session[s] EXCEPT !.expires = Min({@, now}),
                                 !.status = IF @ \in Quiet THEN "draining" ELSE @]
         ELSE session[s]]

emergency_disable_worker(w) ==
    /\ registry[w].exists
    /\ registry' = [registry EXCEPT ![w].enabled = FALSE, ![w].draining = TRUE]
    /\ expire_worker_leases(Of(w))
    /\ UNCHANGED <<keys, floor, debt, call, polls, contract, assured, now>>

emergency_revoke_identity(w, k) ==
    /\ keys[k].owner = w
    /\ IF keys[k].revoked # "no" THEN UNCHANGED <<keys, attempt, session>>
       ELSE /\ keys' = [keys EXCEPT ![k].revoked = "emergency", ![k].at = now]
            /\ expire_worker_leases({s \in Of(w) : SessionKey[s] = k})
    /\ assured' = assured \cup {k}
    /\ UNCHANGED <<registry, floor, debt, call, polls, contract, now>>

Tick == /\ now < MaxNow /\ now' = now + 1
        /\ UNCHANGED <<registry, keys, floor, session, attempt, debt, call, polls, contract, assured>>

-----------------------------------------------------------------------------
Init ==
    /\ registry = [w \in Workers |-> [exists |-> "create" \notin Commands,
                                      enabled |-> "create" \notin Commands,
                                      draining |-> "create" \in Commands]]
    /\ keys = [k \in Keys |-> [owner |-> IF "create" \in Commands THEN None
                                         ELSE CHOOSE w \in Workers : TRUE,
                               revoked |-> "no", at |-> 0]]
    /\ floor \in Floors
    /\ session = [s \in Sessions |-> [status |-> "none", worker |-> None, contract |-> None,
                                      expires |-> 0, started |-> 0]]
    /\ attempt = [s \in Sessions |-> [status |-> "none", gen |-> 0, offer |-> 0, lease |-> 0]]
    /\ debt = {} /\ polls = {} /\ assured = {}
    /\ call = [c \in Callers |-> Idle]
    /\ contract = [s \in Sessions |-> None]
    /\ now = 0

CallNext(c) ==
    \/ \E s \in Sessions, op \in Ops : authorize_peer(c, s, op)
    \/ Begin(c) \/ register(c) \/ deregister(c) \/ poll_enter(c) \/ poll_offer(c) \/ poll_round(c)
    \/ read_assignment(c) \/ accept(c) \/ heartbeat(c) \/ hand_out(c) \/ Abandon(c)

Operate(w) ==
    \/ "create" \in Commands /\ create_worker(w)
    \/ "update" \in Commands /\ \E enabled \in BOOLEAN : update_worker(w, enabled)
    \/ "drain" \in Commands /\ \E draining \in BOOLEAN : set_drain(w, draining)
    \/ "disable" \in Commands /\ emergency_disable_worker(w)
    \/ \E k \in Keys :
         \/ "authorize" \in Commands /\ authorize_identity(w, k)
         \/ "revoke" \in Commands /\ revoke_identity(w, k)
         \/ "emergency" \in Commands /\ emergency_revoke_identity(w, k)

Next ==
    \/ \E c \in Callers : CallNext(c)
    \/ \E s \in Sessions : Settle(s) \/ RequestCancel(s) \/ CompleteCleanup(s)
    \/ \E w \in Workers : Operate(w)
    \/ Tick

Spec == Init /\ [][Next]_vars

-----------------------------------------------------------------------------
(* Properties.                                                             *)

\* A session comes to life only under a key that is active for its worker at
\* that moment, although the call was authorized in an earlier step (fleet.rs:1298).
BornAuthorized ==
    \A s \in Sessions : session[s].status \notin Live /\ session'[s].status \in Live =>
        authorize_worker(SessionKey[s]) /\ session'[s].worker = Owner(s)

\* What a revocation leaves behind is bounded by the calls that were authorized
\* before it.  The first of them to begin before the revocation puts back a lease
\* the revocation cut, and each later one can begin under the lease the one before
\* it renewed (fleet.rs:2587 compares the lease with the transaction's clock and
\* never asks for the key again), so the work of a revoked key outlives it by less
\* than one term per call in flight, and not for ever.  An ordinary revocation
\* leaves no started work at all.
RevocationBounded ==
    \A s \in Sessions : LET k == keys[SessionKey[s]] IN
        k.revoked # "no" /\ Started(s) =>
           /\ k.revoked = "emergency"
           /\ attempt[s].lease < k.at + Cardinality(Callers) * LeaseTtl

\* Once an operator was told a key is revoked it stays revoked (decision 0005):
\* no enrolment, retry or race brings it back.
RevokedForGood == \A k \in assured : keys[k].revoked # "no"

\* At most one long poll answers for a session, so no second offer is lost
\* between two of them (service.rs:299).
OnePoll ==
    \A c, d \in Callers : c # d /\ call[c].pc \in {"polling", "looping"}
        /\ call[d].pc \in {"polling", "looping"} => call[c].session # call[d].session

\* Worker and daemon leave registration with the same contract, at or above the floor.
ContractsAgree ==
    \A s \in Sessions : contract[s] # None =>
        contract[s] = session[s].contract /\ contract[s].revision >= floor
=============================================================================
