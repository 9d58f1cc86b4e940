------------------------------ MODULE WorkerLink ------------------------------
(***************************************************************************)
(* How a worker proves who it is: the identity key it generates, the       *)
(* short-lived certificate it wraps round that key for every connection    *)
(* (worker transport.rs), and the listener that admits connections,        *)
(* verifies the wrapper and hands the stream to the gRPC server (daemon    *)
(* fleet/tls.rs).                                                          *)
(*                                                                         *)
(* Time is a tick of the daemon's clock; a worker's clock is off by its    *)
(* skew.  A key is named by who generated it and digests are injective.    *)
(* Strangers are peers that are no worker: they may stall, present any     *)
(* wrapper and repeat one they have seen, but sign only with their own key.*)
(***************************************************************************)
EXTENDS Integers, Sequences, FiniteSets

CONSTANTS
    Workers, Strangers,
    Conns,          \* connection slots; a closed one may be dialled again
    MaxTime,        \* how far the daemon's clock runs
    Skews,          \* [Workers -> Int], each worker's clock less the daemon's
    Lead, Life,     \* one minute back-dating and one hour of a wrapper
    MaxValidity,    \* 24 hours
    Timeout,        \* 10 seconds of handshake
    Permits,        \* MAX_PENDING_HANDSHAKES
    Buffer,         \* ACCEPTED_CONNECTION_BUFFER
    Redials         \* how often a stranger dials

VARIABLES
    now,            \* the daemon's clock
    file,           \* each worker's identity file: who may read it, what it holds
    printed,        \* the public identity each worker's operator was shown
    enrolled,       \* digests the daemon has recorded
    client,         \* each worker's FleetClient: "none", "ready", and when it was built
    listening,
    conn,           \* each connection
    queue,          \* the accepted channel
    dials           \* dials of strangers so far

vars == <<now, file, printed, enrolled, client, listening, conn, queue, dials>>

NoKey == "no_key"

-----------------------------------------------------------------------------
(* The identity key *)

\* generate: create_new refuses an existing file, and makes a private one; the
\* key is written by a second call.
Generate(f) == IF f.mode = "absent" THEN [mode |-> "private", holds |-> "empty"] ELSE f

\* public, after require_private_permissions: only a whole key has a public half.
Public(w) ==
    IF file[w].mode = "private" /\ file[w].holds \notin {"empty", "other"}
    THEN file[w].holds ELSE NoKey

IdentityCreate(w) ==
    /\ file' = [file EXCEPT ![w] = Generate(@)]
    /\ file'[w] # file[w]
    /\ UNCHANGED <<now, printed, enrolled, client, listening, conn, queue, dials>>

\* The write that follows; a crash before it leaves the empty file.
IdentityWrite(w) ==
    /\ file[w].holds = "empty"
    /\ file' = [file EXCEPT ![w].holds = w]
    /\ UNCHANGED <<now, printed, enrolled, client, listening, conn, queue, dials>>

\* `identity public` (and the end of generate) prints the public key.
IdentityShow(w) ==
    /\ Public(w) # NoKey /\ printed[w] = NoKey
    /\ printed' = [printed EXCEPT ![w] = Public(w)]
    /\ UNCHANGED <<now, file, enrolled, client, listening, conn, queue, dials>>

\* validate_worker_identity_key: one PEM item, a public key, at most 16 KiB.
ValidIdentityPem(pem) == pem.size = "small" /\ pem.items = 1 /\ pem.kind = "public_key"

\* canonical_spki_digest: P-256 in canonical DER, or nothing.
CanonicalDigest(spki) == IF spki.curve = "p256" /\ spki.canonical THEN spki.key ELSE NoKey

\* An operator pastes what a worker printed, or something else, to the API.
Enrol(pem) ==
    /\ ValidIdentityPem(pem)
    /\ CanonicalDigest(pem.spki) # NoKey
    /\ enrolled' = enrolled \cup {CanonicalDigest(pem.spki)}
    /\ enrolled' # enrolled
    /\ UNCHANGED <<now, file, printed, client, listening, conn, queue, dials>>

Spki(k) == [key |-> k, curve |-> "p256", canonical |-> TRUE]
Pem(k) == [size |-> "small", items |-> 1, kind |-> "public_key", spki |-> Spki(k)]
Pastes ==
    {Pem(printed[w]) : w \in {v \in Workers : printed[v] # NoKey}}
    \cup UNION {{[Pem(k) EXCEPT !.size = "large"], [Pem(k) EXCEPT !.items = 2],
                 [Pem(k) EXCEPT !.kind = "certificate"], [Pem(k) EXCEPT !.spki.curve = "p384"],
                 [Pem(k) EXCEPT !.spki.canonical = FALSE]} : k \in Strangers}

-----------------------------------------------------------------------------
(* The two ends *)

\* The server key: no access for group or others, and a supported PEM key.
PrivateKeyOk(s) == s.key_mode = "private" /\ s.key = "supported"

\* server_config: the fleet listener's files.
ServerFilesOk(s) == s.chain > 0 /\ PrivateKeyOk(s)

\* MtlsListener::bind, once the files load.
Bind ==
    /\ ~listening
    /\ \E s \in [chain : {0, 1}, key_mode : {"private", "group"}, key : {"supported", "none"}] :
          ServerFilesOk(s)
    /\ listening' = TRUE
    /\ UNCHANGED <<now, file, printed, enrolled, client, conn, queue, dials>>

\* fleet_connector: an HTTPS origin with no more than a root path.
EndpointOk(u) == u.scheme = "https" /\ u.rest = "none"

\* tls13_connector: platform roots, and a P-256 key.
ConnectorOk(w, roots) == roots > 0 /\ Public(w) # NoKey

\* FleetClient::build reads the key once; the channel connects lazily.
BuildClient(w) ==
    /\ client[w].state = "none"
    /\ \E u \in [scheme : {"https", "http"}, rest : {"none", "path"}], roots \in {0, 1} :
          EndpointOk(u) /\ ConnectorOk(w, roots)
    /\ client' = [client EXCEPT ![w] = [state |-> "ready", key |-> file[w].holds, built |-> now]]
    /\ UNCHANGED <<now, file, printed, enrolled, listening, conn, queue, dials>>

WrapperAt(k, t) ==
    [from |-> t - Lead, till |-> t + Life, usage |-> "client", spki |-> Spki(k),
     small |-> TRUE, chain |-> 1]

\* Tls13Connector::client_config: a new self-signed wrapper per connection, by
\* the worker's own clock.
Wrapper(w) == WrapperAt(client[w].key, now + Skews[w])

\* What a stranger may present: a sound wrapper of its own, one of a worker's
\* key, or one with something wrong.
Presentable(s) ==
    LET own == WrapperAt(s, now) IN
    {own, [own EXCEPT !.from = now + 1], [own EXCEPT !.till = now - 1],
     [own EXCEPT !.till = own.from + MaxValidity + 1], [own EXCEPT !.usage = "any"],
     [own EXCEPT !.spki.curve = "p384"], [own EXCEPT !.small = FALSE], [own EXCEPT !.chain = 2]}
    \cup {WrapperAt(file[w].holds, now) : w \in {v \in Workers : Public(v) # NoKey}}

-----------------------------------------------------------------------------
(* Connections *)

Idle == [phase |-> "idle", peer |-> "nobody", wrapper |-> WrapperAt("nobody", 0),
         at |-> 0, since |-> 0, digest |-> NoKey, why |-> "none"]

Move(c, phase) == conn' = [conn EXCEPT ![c].phase = phase]
Reject(c, why) == conn' = [conn EXCEPT ![c].phase = "closed", ![c].why = why]
LeavesAlone == UNCHANGED <<now, file, printed, enrolled, client, listening, dials>>

\* connect: the TCP stream, then a wrapper issued for it.
Dial(w, c) ==
    /\ listening /\ client[w].state = "ready"
    /\ conn[c].phase = "idle"
    /\ conn' = [conn EXCEPT ![c] = [Idle EXCEPT !.phase = "tcp", !.peer = w, !.at = now,
                                                !.wrapper = Wrapper(w)]]
    /\ UNCHANGED queue /\ LeavesAlone

StrangerDials(s, c) ==
    /\ listening /\ dials < Redials
    /\ conn[c].phase = "idle"
    /\ \E wr \in Presentable(s) :
          conn' = [conn EXCEPT ![c] = [Idle EXCEPT !.phase = "tcp", !.peer = s, !.wrapper = wr]]
    /\ dials' = dials + 1
    /\ UNCHANGED <<now, file, printed, enrolled, client, listening, queue>>

Holding(c) == conn[c].phase \in {"shaking", "verified", "sending"}
PermitsHeld == Cardinality({c \in Conns : Holding(c)})

\* run_accept_loop: a permit at once or the connection is dropped.
Accept(c) ==
    /\ conn[c].phase = "tcp"
    /\ IF PermitsHeld < Permits
       THEN conn' = [conn EXCEPT ![c].phase = "shaking", ![c].since = now]
       ELSE Reject(c, "capacity")
    /\ UNCHANGED queue /\ LeavesAlone

\* canonical_spki_from_certificate at clock time t.
WrapperOk(wr, t) ==
    /\ wr.small
    /\ wr.from <= t /\ t <= wr.till
    /\ wr.till - wr.from <= MaxValidity
    /\ wr.usage = "client"
    /\ CanonicalDigest(wr.spki) # NoKey

\* verify_tls13_signature: the peer holds the key the wrapper names.
Signs(p, wr) == wr.spki.key = IF p \in Workers THEN client[p].key ELSE p

MutVerifyClientCert(p, wr, t) == wr.chain = 1 /\ WrapperOk(wr, t)

\* PossessionVerifier: one certificate, sound now, whose key signed.
VerifyClientCert(p, wr, t) == wr.chain = 1 /\ WrapperOk(wr, t) /\ Signs(p, wr)

\* The handshake as the server sees it, within its time.
Handshake(c) ==
    /\ conn[c].phase = "shaking"
    /\ IF VerifyClientCert(conn[c].peer, conn[c].wrapper, now)
       THEN Move(c, "verified") ELSE Reject(c, "certificate")
    /\ UNCHANGED queue /\ LeavesAlone

HandshakeTimesOut(c) ==
    /\ conn[c].phase = "shaking" /\ now - conn[c].since >= Timeout
    /\ Reject(c, "timeout")
    /\ UNCHANGED queue /\ LeavesAlone

\* peer_identity_key_sha256 looks at the wrapper again, by a later clock.
Identify(c) ==
    /\ conn[c].phase = "verified"
    /\ IF WrapperOk(conn[c].wrapper, now)
       THEN conn' = [conn EXCEPT ![c].phase = "sending",
                                 ![c].digest = CanonicalDigest(conn[c].wrapper.spki)]
       ELSE Reject(c, "certificate")
    /\ UNCHANGED queue /\ LeavesAlone

\* The send on the bounded channel, still under the permit.
Send(c) ==
    /\ conn[c].phase = "sending" /\ Len(queue) < Buffer
    /\ queue' = Append(queue, c)
    /\ Move(c, "queued")
    /\ LeavesAlone

\* poll_next: the gRPC server takes the next stream.
PollNext ==
    /\ queue # <<>>
    /\ Move(Head(queue), "served")
    /\ queue' = Tail(queue)
    /\ LeavesAlone

\* Either end closes; the slot may be dialled again.
Disconnect(c) ==
    /\ conn[c].phase \in {"served", "closed"}
    /\ conn' = [conn EXCEPT ![c] = Idle]
    /\ UNCHANGED queue /\ LeavesAlone

Tick ==
    /\ now < MaxTime
    /\ now' = now + 1
    /\ UNCHANGED <<file, printed, enrolled, client, listening, conn, queue, dials>>

Init ==
    /\ now = 0
    /\ file \in [Workers -> {[mode |-> "absent", holds |-> "none"],
                            [mode |-> "private", holds |-> "other"]}]
    /\ printed = [w \in Workers |-> NoKey]
    /\ enrolled = {}
    /\ client = [w \in Workers |-> [state |-> "none", key |-> NoKey, built |-> 0]]
    /\ listening = FALSE
    /\ conn = [c \in Conns |-> Idle]
    /\ queue = <<>>
    /\ dials = 0

Next ==
    \/ \E w \in Workers : IdentityCreate(w) \/ IdentityWrite(w) \/ IdentityShow(w) \/ BuildClient(w)
    \/ \E pem \in Pastes : Enrol(pem)
    \/ Bind \/ PollNext \/ Tick
    \/ \E w \in Workers, c \in Conns : Dial(w, c)
    \/ \E s \in Strangers, c \in Conns : StrangerDials(s, c)
    \/ \E c \in Conns :
          Accept(c) \/ Handshake(c) \/ HandshakeTimesOut(c) \/ Identify(c) \/ Send(c) \/ Disconnect(c)

Spec == Init /\ [][Next]_vars

-----------------------------------------------------------------------------
(* Properties *)

\* A stream the server takes carries the digest of the key its peer really
\* holds: nobody is served under another's identity, and a worker whose printed
\* key was enrolled is found among the enrolled.
ServedAsItself ==
    \A c \in Conns : conn[c].phase \in {"queued", "served"} =>
        /\ conn[c].digest = IF conn[c].peer \in Workers THEN file[conn[c].peer].holds ELSE conn[c].peer
        /\ conn[c].peer \in Workers /\ printed[conn[c].peer] \in enrolled => conn[c].digest \in enrolled

\* A worker whose clock is at most Lead ahead is never refused for its
\* certificate, however long its process and its client have been running,
\* unless the connection itself outlived a wrapper.
FreshWrapper ==
    \A c \in Conns :
        conn[c].why = "certificate" /\ conn[c].peer \in Workers =>
            \/ Skews[conn[c].peer] > Lead
            \/ Skews[conn[c].peer] + Life < 0
            \/ now > conn[c].at + Skews[conn[c].peer] + Life

\* No command replaces an identity that holds a key.
IdentityKept == \A w \in Workers : file[w].holds \notin {"none", "empty"} => file'[w] = file[w]
=============================================================================
