----------------------------- MODULE WorkerLease -----------------------------
(***************************************************************************)
(* One lease, in time.  The daemon renews lease_expires_at by its own clock *)
(* and gives the work up once it has passed; the worker relies on a deadline*)
(* of its own, computed from answers that may arrive late.  The daemon may  *)
(* have been restarted with another lease_seconds since it registered the   *)
(* worker.  Both clocks run at the same rate; the daemon's shows Skew more. *)
(***************************************************************************)
EXTENDS Integers

CONSTANTS
    Ttl,       \* lease_ttl_ms, as registered
    DaemonTtl, \* what the daemon grants now
    Skew,      \* the daemon's clock minus the worker's
    MaxTime,   \* bound: the last instant of a run
    NoTime

ASSUME LeaseAssumption ==
    Ttl \in Nat /\ DaemonTtl \in Nat /\ Skew \in Int /\ MaxTime \in Nat

\* NoTime is no instant.
ASSUME NoTimeAssumption == NoTime \notin Int

VARIABLES
    now,        \* the worker's monotonic clock
    started,    \* ServerClock.started
    serverTime, \* ServerClock.server_time_ms
    lease,      \* "none", "accepted", "confirmed" (execution may run) or "lost"
    deadline,   \* Lease.deadline
    sent,       \* request_started of the call in flight
    answer,     \* the lease_expires_at it was answered with
    expiry      \* lease_expires_at, by the daemon's clock

leaseVars == <<now, started, serverTime, lease, deadline, sent, answer, expiry>>

\* The daemon's clock.
ServerNow == now + Skew

Earlier(x, y) == IF x < y THEN x ELSE y

\* ServerClock::deadline, a conservative translation: the daemon read its clock
\* after the request left at started.
ClockDeadline(expires) ==
    started + (IF expires > serverTime THEN expires - serverTime ELSE 0)

\* Mutant: the registered time to live is believed.
MutRenewal == sent + Ttl

\* What Lease::renew computes.
Renewal == Earlier(sent + Ttl, ClockDeadline(answer))

\* Time passes.
Tick ==
    /\ now < MaxTime
    /\ now' = now + 1
    /\ UNCHANGED <<started, serverTime, lease, deadline, sent, answer, expiry>>

\* A registration or recovery is sent ...
RegisterSent ==
    /\ started = NoTime
    /\ started' = now
    /\ UNCHANGED <<now, serverTime, lease, deadline, sent, answer, expiry>>

\* ... and answered with the daemon's time.
Registered ==
    /\ started # NoTime /\ serverTime = NoTime
    /\ serverTime' = ServerNow
    /\ UNCHANGED <<now, started, lease, deadline, sent, answer, expiry>>

\* Accept, or a heartbeat before the deadline.
Send ==
    /\ serverTime # NoTime
    /\ sent = NoTime
    /\ lease # "lost"
    /\ lease # "none" => now < deadline
    /\ sent' = now
    /\ answer' = NoTime
    /\ UNCHANGED <<now, started, serverTime, lease, deadline, expiry>>

\* The daemon takes the call while the row is live, and renews from its clock.
\* It may still take one whose caller has given up.
Serve ==
    /\ expiry = NoTime => sent # NoTime
    /\ expiry # NoTime => ServerNow < expiry
    /\ expiry' = ServerNow + DaemonTtl
    /\ answer' = IF sent # NoTime /\ answer = NoTime THEN ServerNow + DaemonTtl ELSE answer
    /\ UNCHANGED <<now, started, serverTime, lease, deadline, sent>>

\* The acceptance was answered: Lease::new counts from the request.
Accepted ==
    /\ lease = "none" /\ answer # NoTime
    /\ lease' = "accepted"
    /\ deadline' = sent + Ttl
    /\ sent' = NoTime
    /\ UNCHANGED <<now, started, serverTime, answer, expiry>>

\* A heartbeat was answered before the old deadline and the new one.
Confirmed ==
    /\ lease \in {"accepted", "confirmed"}
    /\ sent # NoTime /\ answer # NoTime
    /\ now < deadline /\ now < Renewal
    /\ lease' = "confirmed"
    /\ deadline' = Renewal
    /\ sent' = NoTime
    /\ UNCHANGED <<now, started, serverTime, answer, expiry>>

\* A heartbeat that failed and is sent again at the next interval.
Unanswered ==
    /\ lease \in {"accepted", "confirmed"}
    /\ sent # NoTime /\ now < deadline
    /\ sent' = NoTime
    /\ UNCHANGED <<now, started, serverTime, lease, deadline, answer, expiry>>

\* The deadline passed or the renewal came too late: execution is cancelled,
\* and no later answer revives the lease.
LeaseExpires ==
    /\ lease \in {"accepted", "confirmed"}
    /\ \/ now >= deadline
       \/ sent # NoTime /\ answer # NoTime /\ now >= Renewal
    /\ lease' = "lost"
    /\ sent' = NoTime
    /\ UNCHANGED <<now, started, serverTime, deadline, answer, expiry>>

LeaseInit ==
    /\ now = 0
    /\ started = NoTime /\ serverTime = NoTime
    /\ lease = "none" /\ deadline = NoTime
    /\ sent = NoTime /\ answer = NoTime
    /\ expiry = NoTime

LeaseNext == \/ Tick \/ RegisterSent \/ Registered \/ Send \/ Serve \/ Accepted
        \/ Confirmed \/ Unanswered \/ LeaseExpires

LeaseSpec == LeaseInit /\ [][LeaseNext]_leaseVars

-----------------------------------------------------------------------------
Instant == Int \cup {NoTime}

LeaseTypeOK ==
    /\ now \in Int
    /\ started \in Instant /\ serverTime \in Instant
    /\ lease \in {"none", "accepted", "confirmed", "lost"}
    /\ deadline \in Instant /\ sent \in Instant
    /\ answer \in Instant /\ expiry \in Instant

\* While execution may run, the worker's deadline is no later than the
\* daemon's expiry, whatever was delayed, lost or reconfigured: the worker has
\* stopped by the time the daemon gives its work up.
DeadlineBeforeExpiry ==
    lease = "confirmed" => expiry # NoTime /\ deadline + Skew <= expiry
=============================================================================
