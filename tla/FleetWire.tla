------------------------------- MODULE FleetWire -------------------------------
(***************************************************************************)
(* One call of the worker fleet's RPC surface: the worker's client encodes *)
(* a request (crates/sbgh-worker/src/transport.rs), the daemon decodes and *)
(* validates it before any handler runs (crates/sbgh-daemon/src/fleet/     *)
(* grpc.rs, service.rs), and the answer or the error travels back.  The    *)
(* conversions are those of crates/sbgh-proto/src/convert.rs and the       *)
(* checks those of crates/sbgh-fleet/src/validate.rs.                      *)
(*                                                                         *)
(* The peers may be builds of different protocol revisions, so protobuf    *)
(* can deliver a message with one field the other side did not write or    *)
(* wrote with a value this side does not know (Skew).  A message is a      *)
(* function from its field names to values; a field's kind says how it is  *)
(* converted and checked.  Texts, numbers and digests are represented by   *)
(* the classes the checks tell apart.                                      *)
(***************************************************************************)
EXTENDS Naturals, FiniteSets, TLC

CONSTANTS
    Rpcs,          \* the calls of the instance, a subset of DOMAIN Request
    MaxSkew        \* how many messages of a call a peer may damage

SkewAssumption == MaxSkew \in 0..2

VARIABLES
    stage,         \* where the call is
    rpc,           \* the call
    sent,          \* the domain value the current message was made from
    wire,          \* the message on the wire
    got,           \* what the receiver handed on, or Nothing
    fault,         \* the service error of the handler, or None
    view,          \* what the worker concluded of the call
    skew           \* messages of this call a peer damaged

vars == <<stage, rpc, sent, wire, got, fault, view, skew>>

Absent == "absent"
Refused == "refused"
Nothing == [nothing |-> TRUE]

(***************************************************************************)
(* Kinds of fields: the values a correct peer writes, and what else the    *)
(* decoder can be handed in their place: a number it does not know, and    *)
(* what protobuf delivers when the peer did not write the field (Absent of *)
(* a message or an optional field, "none" of a list, 0 or an empty text of *)
(* a scalar).  A plain field is neither checked nor decided upon.          *)
(***************************************************************************)
capability_wire == ("Benchmark" :> "1") @@ ("BuildOnly" :> "2") @@ ("BlockValidation" :> "3")
epoch_wire == ("PreNakamoto" :> "1") @@ ("Nakamoto" :> "2")
desired_state_wire == ("Continue" :> "1") @@ ("Cancel" :> "2") @@ ("Drain" :> "3")
artifact_operation_wire == ("Put" :> "1") @@ ("Get" :> "2")

\* Converting back: only a recognized, non-UNSPECIFIED number has a meaning.
ReadEnum(numbers, w) ==
    IF \E v \in DOMAIN numbers : numbers[v] = w
    THEN CHOOSE v \in DOMAIN numbers : numbers[v] = w
    ELSE Refused
capability(w) == ReadEnum(capability_wire, w)
epoch(w) == ReadEnum(epoch_wire, w)
MutDesiredState(w) == IF w = "0" THEN "Continue" ELSE ReadEnum(desired_state_wire, w)
desired_state(w) == ReadEnum(desired_state_wire, w)
artifact_operation(w) == ReadEnum(artifact_operation_wire, w)

\* A sub-message or a oneof that must be there.
required(w) == IF w = Absent THEN Refused ELSE w
\* An identifier is the canonical text of a UUID.
uuid(w) == IF w \in {Absent, "malformed"} THEN Refused ELSE w
\* Revisions travel as u32 and live as u16.
protocol_version(w) == IF w = "over" THEN Refused ELSE w

Tasks == {"benchmark", "benchmark, default arguments", "build", "recent", "full", "range"}
task_payload(w) ==
    IF w \in {Absent, "selection absent"} THEN Refused ELSE w
requirements(w) == required(w)
event_payload(w) == required(w)
Outcomes == {"completed", "validated", "failed", "cancelled"}
terminal(w) == IF w \in {Absent, "not json"} THEN Refused ELSE w
\* A validation result needs its ranges and a recognized epoch per segment.
validation_result(w) ==
    IF w \in {"observed absent", "range absent"} \/ epoch(w) = Refused THEN Refused ELSE epoch(w)
\* The negotiated contract: recognized features and the revision the answer
\* itself names (Revision, below).
selected(w) == IF w \in {"unknown feature", "another revision"} THEN Refused ELSE w
offered(w) == IF w \in {"duplicate feature", "reversed"} THEN Refused ELSE w

(***************************************************************************)
(* The values of a kind, and what a peer of another build makes of them.   *)
(***************************************************************************)
Kind(values, skewed) == [values |-> values, skewed |-> skewed]
Kinds ==
    [ message    |-> Kind({"present"}, {Absent}),
      session    |-> Kind({"s1"}, {Absent, "malformed", "nil"}),
      id         |-> Kind({"u1"}, {Absent, "malformed"}),
      trace      |-> Kind({"t1"}, {Absent, "malformed", "nil"}),
      fence      |-> Kind({"1", "i64 max"}, {"0", "above i64"}),
      token      |-> Kind({"signed"}, {"short"}),
      seq        |-> Kind({"1", "i64 max"}, {"0", "above i64"}),
      buffer     |-> Kind({"0", "4096"}, {"above 4096"}),
      plain      |-> Kind({"written"}, {"default"}),
      revision   |-> Kind({"1", "2"}, {"0", "over"}),
      capability |-> Kind(DOMAIN capability_wire, {"0", "9"}),
      capabilities |-> Kind(DOMAIN capability_wire, {"none", "0", "9"}),
      state      |-> Kind(DOMAIN desired_state_wire, {"0", "9"}),
      operation  |-> Kind(DOMAIN artifact_operation_wire, {"0", "9"}),
      epoch      |-> Kind(DOMAIN epoch_wire, {"0", "9", "observed absent", "range absent"}),
      payload    |-> Kind(Tasks, {Absent, "selection absent", "benchmark, default arguments"}),
      needs      |-> Kind({"Benchmark", "BuildOnly", "BlockValidation"}, {Absent}),
      event      |-> Kind({"phase", "terminal"}, {Absent, "empty label", "beyond the longest task"}),
      outcome    |-> Kind(Outcomes, {Absent, "not json", "untyped error", "no shards"}),
      digest     |-> Kind({"digest"}, {"", "of another value"}),
      contract   |-> Kind({Absent, "selected"}, {Absent, "unknown feature", "another revision"}),
      offer      |-> Kind({Absent, "current"}, {Absent, "duplicate feature", "reversed"}),
      preflight  |-> Kind({Absent, "passed"}, {Absent, "revision 0", "upper-case digest"}),
      facts      |-> Kind({"discovered"}, {"zero"}),
      count      |-> Kind({"0 of 1", "1 of 2"}, {"1 of 1", "0 of 0"}),
      total      |-> Kind({Absent, "not less"}, {Absent, "0", "less than progress"}),
      label      |-> Kind({"label"}, {"", "control", "too long"}),
      key        |-> Kind({"relative"}, {"", "parent", "absolute"}),
      size       |-> Kind({Absent, "i64 max"}, {Absent, "above i64"}),
      artifacts  |-> Kind({"none", "unique"}, {"none", "repeated key", "too many"}),
      positive   |-> Kind({"1"}, {"0"}),
      number     |-> Kind({"1"}, {"0"}),
      timing     |-> Kind({"heartbeat within lease"}, {"zero", "lease not longer"}),
      flag       |-> Kind({"true", "false"}, {"false"}),
      offering   |-> Kind({"Offer"}, {Absent}),
      poll       |-> Kind({"NoWork", "Drain", "ShutdownAfterIdle"}, {Absent}) ]

Encode(kind, v) ==
    CASE kind = "capability" -> capability_wire[v]
      [] kind = "capabilities" -> capability_wire[v]
      [] kind = "epoch" -> epoch_wire[v]
      [] kind = "state" -> desired_state_wire[v]
      [] kind = "operation" -> artifact_operation_wire[v]
      [] OTHER -> v

Decode(kind, w) ==
    CASE kind = "capability" -> capability(w)
      [] kind = "capabilities" -> IF w = "none" THEN w ELSE capability(w)
      [] kind = "epoch" -> validation_result(w)
      [] kind = "state" -> desired_state(w)
      [] kind = "operation" -> artifact_operation(w)
      [] kind \in {"session", "id", "trace"} -> uuid(w)
      [] kind = "message" -> required(w)
      [] kind = "revision" -> protocol_version(w)
      [] kind = "payload" -> task_payload(w)
      [] kind = "needs" -> requirements(w)
      [] kind = "event" -> event_payload(w)
      [] kind = "outcome" -> terminal(w)
      [] kind = "contract" -> selected(w)
      [] kind = "offer" -> offered(w)
      [] kind = "preflight" -> IF w \notin Kinds.preflight.values THEN Refused ELSE w
      [] kind \in {"poll", "offering"} -> required(w)
      [] OTHER -> w

(***************************************************************************)
(* The messages: field names to kinds.  An embedded message lends its      *)
(* fields, and a field of kind "message" for its presence.                 *)
(***************************************************************************)
identity == [identity |-> "message", worker_session_id |-> "session", attempt_id |-> "id",
             fencing_generation |-> "fence", lease_token |-> "token"]
offer == identity @@ [job_id |-> "id", trace_id |-> "trace", capability |-> "capability",
                      requirements |-> "needs", payload_hash |-> "plain"]
assignment == identity @@ [context |-> "message", job_id |-> "id", trace_id |-> "trace",
                           payload |-> "payload", payload_hash |-> "digest",
                           repository |-> "label", commit |-> "label", vcpu_cpuset |-> "plain"]
progress_update == [update |-> "message", workflow_step |-> "label", phase |-> "label",
                    run |-> "count", total |-> "total", message |-> "plain"]

RegisterRequest ==
    [protocol_version |-> "revision", worker_session_id |-> "session", preflight |-> "preflight",
     protocol_offer |-> "offer", software_version |-> "label",
     advertised_capabilities |-> "capabilities", resources |-> "message", facts |-> "facts"]
CheckRegistrationRequest ==
    [protocol_version |-> "revision", protocol_offer |-> "offer", software_version |-> "label",
     advertised_capabilities |-> "capabilities", resources |-> "message", facts |-> "facts"]
ListCleanupRequest == [worker_session_id |-> "session"]
CompleteCleanupRequest == [worker_session_id |-> "session", obligation_id |-> "positive"]
DeregisterRequest == [worker_session_id |-> "session"]
PollRequest == [worker_session_id |-> "session"]
AcceptRequest == identity
FetchRepositoryCredentialRequest == identity
HeartbeatRequest == identity @@ [reliable_buffer_len |-> "buffer"]
PublishReliableEventRequest ==
    identity @@ [trace_id |-> "trace", reliable_seq |-> "seq", payload |-> "event",
                 payload_digest |-> "digest", worker_timestamp_ms |-> "positive"]
PublishProgressRequest ==
    identity @@ [trace_id |-> "trace", progress_seq |-> "seq"] @@ progress_update
GrantArtifactRequest ==
    identity @@ [operation |-> "operation", key |-> "key", size |-> "size"]
CompleteAttemptRequest ==
    identity @@ [trace_id |-> "trace", terminal_reliable_seq |-> "seq", outcome |-> "outcome",
                 segments |-> "epoch", terminal_payload_digest |-> "digest",
                 artifacts |-> "artifacts"]

RegisterResponse == [protocol_version |-> "revision", protocol_contract |-> "contract",
                     timing |-> "timing"]
CheckRegistrationResponse ==
    RegisterResponse @@ [worker_id |-> "trace", effective_capabilities |-> "capabilities",
                         measurement_profile |-> "plain", draining |-> "flag"]
ListCleanupResponse == [id |-> "number", attempt_id |-> "id", job_id |-> "id", reason |-> "plain"]
\* An answer to a poll carries an offer, or says why there is none (IdlePoll).
PollResponse == [result |-> "offering"] @@ offer
NoWork == [result |-> "poll", retry_after_ms |-> "number"]
AcceptResponse == [assignment |-> "message"] @@ assignment
FetchRepositoryCredentialResponse == [token |-> "plain", expires_at_ms |-> "positive"]
HeartbeatResponse == [desired_state |-> "state", lease_expires_at_ms |-> "number",
                      highest_contiguous_reliable_seq |-> "number"]
PublishReliableEventResponse == [highest_contiguous_reliable_seq |-> "number"]
GrantArtifactResponse == [method |-> "plain", url |-> "plain", key |-> "plain"]
Acknowledgement == [accepted |-> "flag"]

Request ==
    [ CheckRegistration |-> CheckRegistrationRequest, Register |-> RegisterRequest,
      Poll |-> PollRequest, IdlePoll |-> PollRequest, Accept |-> AcceptRequest,
      FetchRepositoryCredential |-> FetchRepositoryCredentialRequest,
      Heartbeat |-> HeartbeatRequest, PublishReliableEvent |-> PublishReliableEventRequest,
      PublishProgress |-> PublishProgressRequest, GrantArtifact |-> GrantArtifactRequest,
      CompleteAttempt |-> CompleteAttemptRequest, ListCleanup |-> ListCleanupRequest,
      CompleteCleanup |-> CompleteCleanupRequest, Deregister |-> DeregisterRequest ]
Response ==
    [ CheckRegistration |-> CheckRegistrationResponse, Register |-> RegisterResponse,
      Poll |-> PollResponse, IdlePoll |-> NoWork, Accept |-> AcceptResponse,
      FetchRepositoryCredential |-> FetchRepositoryCredentialResponse,
      Heartbeat |-> HeartbeatResponse, PublishReliableEvent |-> PublishReliableEventResponse,
      PublishProgress |-> Acknowledgement, GrantArtifact |-> GrantArtifactResponse,
      CompleteAttempt |-> Acknowledgement, ListCleanup |-> ListCleanupResponse,
      CompleteCleanup |-> Acknowledgement, Deregister |-> Acknowledgement ]

\* The first revision has no negotiation extension; every later one has.
Revision(extension) == IF extension = Absent THEN "1" ELSE "2"
Versioned(m) ==
    IF "protocol_offer" \in DOMAIN m THEN [m EXCEPT !.protocol_version = Revision(m.protocol_offer)]
    ELSE IF "protocol_contract" \in DOMAIN m
    THEN [m EXCEPT !.protocol_version = Revision(m.protocol_contract)]
    ELSE m

\* The values a correct sender gives a message: every field alone through its
\* values, the others at the first one.  (Other fields than the revision are
\* converted independently.)
Usual(shape) == [f \in DOMAIN shape |-> CHOOSE v \in Kinds[shape[f]].values : TRUE]
Honest(shape) ==
    UNION { { Versioned([Usual(shape) EXCEPT ![f] = v]) : v \in Kinds[shape[f]].values }
            : f \in DOMAIN shape }
from_domain(shape, m) == [f \in DOMAIN shape |-> Encode(shape[f], m[f])]
into_domain(shape, w) ==
    LET m == [f \in DOMAIN shape |-> Decode(shape[f], w[f])] IN
    IF (\E f \in DOMAIN shape : m[f] = Refused) \/ Versioned(m) # m THEN Nothing ELSE m

\* validate(): what remains to be refused once a message has been converted.
\* The digest a message carries is recomputed over the value it was decoded to.
Checked == {"session", "trace", "fence", "token", "seq", "buffer", "event", "outcome", "digest",
            "capabilities", "facts", "count", "total", "label", "key", "size", "artifacts",
            "positive"}
Bound(shape) == "digest" \in { shape[f] : f \in DOMAIN shape }
validate(shape, original, m) ==
    /\ \A f \in DOMAIN shape : shape[f] \in Checked => m[f] \in Kinds[shape[f]].values
    /\ Bound(shape) =>
         \A f \in DOMAIN shape : shape[f] \in {"payload", "event", "outcome", "epoch"} => m[f] = original[f]

(***************************************************************************)
(* Errors: a status code, the stable code and whether to try again.  The   *)
(* detail is absent on statuses the transport made up by itself.           *)
(***************************************************************************)
Error(status, code, retry) == [status |-> status, code |-> code, retryable |-> retry]
None == Error("Ok", "", FALSE)
protocol_error == Error("InvalidArgument", "invalid_protocol_message", FALSE)
stale_attempt == Error("FailedPrecondition", "stale_attempt", FALSE)
internal == Error("Internal", "internal_error", TRUE)
fleet_store_error ==
    { Error("FailedPrecondition", "session_recovery_required", FALSE),
      Error("FailedPrecondition", "session_superseded", FALSE),
      Error("FailedPrecondition", "session_facts_changed", FALSE),
      Error("FailedPrecondition", "session_recovery_pending", TRUE),
      Error("FailedPrecondition", "protocol_incompatible", FALSE), internal }
ServiceErrors == fleet_store_error \cup
    { stale_attempt, Error("PermissionDenied", "capability_not_authorized", FALSE),
      Error("FailedPrecondition", "event_sequence_conflict", FALSE),
      Error("ResourceExhausted", "worker_busy", TRUE) }
Transport == { Error(s, "", FALSE) : s \in {"Unavailable", "DeadlineExceeded", "Unknown", "Unimplemented"} }

\* The worker trusts a structured detail and otherwise reads the status code.
fleet_error(e) ==
    Error(e.status, IF e.code = "" THEN e.status ELSE e.code,
          IF e.code = "" THEN e.status \in {"Unavailable", "DeadlineExceeded", "Unknown"}
          ELSE e.retryable)

Concluded == [end |-> "none", error |-> None]
Conclude(e) == [end |-> "error", error |-> fleet_error(e)]

Init ==
    /\ stage = "idle" /\ rpc \in Rpcs /\ sent = Nothing /\ wire = Nothing /\ got = Nothing
    /\ fault = None /\ view = Concluded /\ skew = 0

\* The worker's client method: convert and send.
Call(m) ==
    /\ stage = "idle" /\ m \in Honest(Request[rpc])
    /\ stage' = "request" /\ sent' = m /\ wire' = from_domain(Request[rpc], m)
    /\ UNCHANGED <<rpc, got, fault, view, skew>>

\* A peer of another build leaves one field out or writes what we do not know.
Skew(f) ==
    /\ stage \in {"request", "answer"} /\ skew < MaxSkew
    /\ LET shape == IF stage = "request" THEN Request[rpc] ELSE Response[rpc] IN
       /\ f \in DOMAIN shape /\ wire = from_domain(shape, sent)
       /\ \E w \in Kinds[shape[f]].skewed : wire' = [wire EXCEPT ![f] = w]
    /\ skew' = skew + 1
    /\ UNCHANGED <<stage, rpc, sent, got, fault, view>>

\* The request never reaches the daemon, or its answer never the worker.
Drop(e) ==
    /\ stage \in {"request", "answer", "error"} /\ e \in Transport
    /\ stage' = "done" /\ view' = Conclude(e) /\ wire' = Nothing
    /\ UNCHANGED <<rpc, sent, got, fault, skew>>

Acceptable(m) == m # Nothing /\ validate(Request[rpc], sent, m)

\* The gRPC handler: refuse what does not convert, then what does not validate.
Refuse ==
    LET m == into_domain(Request[rpc], wire) IN
    /\ stage = "request"
    /\ ~Acceptable(m)
    /\ stage' = "error" /\ fault' = protocol_error /\ wire' = Nothing
    /\ UNCHANGED <<rpc, sent, got, view, skew>>

\* The service runs and answers, or fails with one of its errors.
Serve ==
    LET m == into_domain(Request[rpc], wire) IN
    /\ stage = "request" /\ Acceptable(m)
    /\ stage' = "served" /\ got' = m /\ wire' = Nothing
    /\ UNCHANGED <<rpc, sent, fault, view, skew>>
Answer(m) ==
    /\ stage = "served" /\ m \in Honest(Response[rpc])
    /\ stage' = "answer" /\ sent' = m /\ wire' = from_domain(Response[rpc], m) /\ got' = Nothing
    /\ UNCHANGED <<rpc, fault, view, skew>>
\* Accept records the acceptance before it validates the assignment it is about
\* to send, whose stored arguments no earlier step has bounded.
Failures == ServiceErrors \cup (IF rpc = "Accept" THEN {protocol_error} ELSE {})
Fail(e) ==
    /\ stage = "served" /\ e \in Failures
    /\ stage' = "error" /\ fault' = e /\ got' = Nothing
    /\ UNCHANGED <<rpc, sent, wire, view, skew>>

\* The worker's side of an error, and of an answer: convert, then the checks
\* the loop itself makes of registrations and assignments.
Fault ==
    /\ stage = "error" /\ stage' = "done" /\ view' = Conclude(fault)
    /\ UNCHANGED <<rpc, sent, wire, got, fault, skew>>
Trusted(m) ==
    CASE rpc = "Accept" -> validate(AcceptResponse, sent, m)
      [] rpc = "Register" -> m.timing \in Kinds.timing.values
      [] rpc = "CheckRegistration" -> /\ m.timing \in Kinds.timing.values /\ m.worker_id # "nil"
                                      /\ m.effective_capabilities # "none"
      [] rpc = "FetchRepositoryCredential" -> m.expires_at_ms \in Kinds.positive.values
      [] rpc \in {"PublishProgress", "CompleteAttempt", "CompleteCleanup", "Deregister"} ->
             m.accepted = "true"
      [] OTHER -> TRUE
Receive ==
    LET m == into_domain(Response[rpc], wire) IN
    /\ stage = "answer" /\ stage' = "done"
    /\ IF m # Nothing /\ Trusted(m)
       THEN /\ got' = m /\ view' = [end |-> "answer", error |-> None]
       ELSE /\ view' = [end |-> "undecodable", error |-> None] /\ UNCHANGED got
    /\ UNCHANGED <<rpc, sent, wire, fault, skew>>

Next ==
    \/ \E m \in Honest(Request[rpc]) : Call(m)
    \/ \E f \in DOMAIN Request[rpc] \cup DOMAIN Response[rpc] : Skew(f)
    \/ \E e \in Transport : Drop(e)
    \/ Refuse \/ Serve \/ Fault \/ Receive
    \/ \E m \in Honest(Response[rpc]) : Answer(m)
    \/ \E e \in Failures : Fail(e)

Spec == Init /\ [][Next]_vars

-----------------------------------------------------------------------------
Shape == IF stage = "served" THEN Request[rpc] ELSE Response[rpc]

\* What a lost field may be read as.  An optional field or a list is taken as
\* not given; a scalar nothing checks is 0: a lease that is not extended
\* (worker fleet.rs renew), an acknowledgement that acknowledges nothing, no
\* wait before the next poll, an obligation CompleteCleanup then refuses.
Defaults ==
    [preflight |-> Absent, total |-> Absent, size |-> Absent, artifacts |-> "none",
     number |-> "0", plain |-> "default", flag |-> "false"]
\* An offer's identity is only looked at when it comes back with Accept.
Uninspected == IF rpc = "Poll" /\ stage # "served" THEN {"session", "trace", "fence", "token"} ELSE {}

\* However a peer of another build damages a message, the side that takes it
\* takes the values that were written or, for the fields of Defaults, misses
\* the field altogether: an unknown enum number, an absent oneof, a malformed
\* identifier, a zero fence, a lost offer or contract beyond the first
\* revision, an empty capability list or a payload that lost its arguments is
\* refused, never read as something else (convert.rs `required`, the enum
\* readers, `selected`, registration_facts and the digests of validate.rs).
NeverMisread ==
    got # Nothing =>
        \A f \in DOMAIN Shape :
            got[f] # sent[f] =>
                \/ Shape[f] \in DOMAIN Defaults /\ got[f] = Defaults[Shape[f]]
                \/ Shape[f] \in Uninspected
=============================================================================
