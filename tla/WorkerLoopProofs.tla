-------------------------- MODULE WorkerLoopProofs ---------------------------
(***************************************************************************)
(* The safety of one worker host (WorkerLoop) for any set of attempts and  *)
(* any number of deaths and lapses.  Nothing is assumed of the constants.  *)
(* The lease it relies on (WorkerLease) follows at the end.                *)
(*                                                                         *)
(* The argument: the daemon has at most one active attempt on the worker,  *)
(* and an idle session has none that started.  An offer is therefore made  *)
(* only when nothing started and nothing is owed, which by LeftoversOwed   *)
(* is when the host is empty; what execution then puts on the host belongs *)
(* to an attempt that stays started while the worker trusts its lease, and *)
(* is a debt once it does not.                                             *)
(***************************************************************************)
EXTENDS WorkerLoop, WorkerLease, FiniteSetTheorems, TLAPS

Holding == {"confirm", "execute", "running", "verify"}
Tasked == {"accept", "report"} \cup Holding
Settled == {"completed", "failed", "cancelled"}
Fenced == {"expired", "superseded"}

\* The types the argument rests on.
Typed ==
    /\ pc \in {"down", "gone", "cleanup", "recover", "poll", "deregister", "leave"} \cup Tasked
    /\ attempt \in [Attempts -> {"new", "offered", "running", "cancel_requested"} \cup Settled \cup Fenced]
    /\ host \subseteq Attempts
    /\ owed \subseteq Attempts
    /\ unacked # None => unacked \in Attempts
    /\ pc \in Tasked => cur \in Attempts
    /\ pc \in {"verify", "report"} => outcome \in Settled

\* The daemon's view: one active attempt, and none started while it sees the
\* session idle; what is owed, or torn down and unacknowledged, is over.
Exclusive == \A a, b \in Attempts : Active(a) /\ Active(b) => a = b

IdleStartedNone == session = "idle" => \A a \in Attempts : ~Started(a)

DebtsFenced ==
    /\ \A a \in owed : attempt[a] \in Fenced
    /\ unacked # None => attempt[unacked] \in Fenced /\ unacked \notin host

\* The worker's view: a lease it trusts is one the daemon honours, and the host
\* holds nothing but the attempt being executed.
TrustedHeld == pc \in Holding /\ ~lost => beat /\ Started(cur)

HostMatches ==
    /\ pc \in {"accept", "confirm", "execute"} => host = {}
    /\ pc \in {"running", "verify"} => host \subseteq {cur}
    /\ pc = "report" => cur \notin host
    /\ \A a, b \in host : a = b

\* Idle shutdown is left only when nothing is held, owed or running.
Departing ==
    /\ leaving => pc \in {"leave", "cleanup", "gone"}
    /\ pc = "gone" /\ leaving => session = "ended" /\ host = {} /\ Releasable

IInv ==
    /\ Typed /\ Exclusive /\ IdleStartedNone /\ DebtsFenced /\ TrustedHeld
    /\ HostMatches /\ LeftoversOwed /\ Departing

-----------------------------------------------------------------------------
(* The invariant is inductive.                                             *)

\* Nothing is registered, held or owed when the first process starts.
LEMMA InitIInv == Init => IInv
  BY DEF Init, IInv, Typed, Exclusive, IdleStartedNone, DebtsFenced, TrustedHeld,
         HostMatches, LeftoversOwed, Departing, Active, Started, Releasable,
         Holding, Tasked, Settled, Fenced

\* Settling teardown debts keeps the invariant: what an acknowledgement takes off the
\* books has left the host.
LEMMA DebtKeeps == IInv /\ DebtStep => IInv'
<1> SUFFICES ASSUME IInv, DebtStep PROVE IInv'
  OBVIOUS
<1> USE DEF IInv, Typed, Exclusive, IdleStartedNone, DebtsFenced, TrustedHeld,
            HostMatches, LeftoversOwed, Departing, Active, Started, Releasable,
            Holding, Tasked, Settled, Fenced
<1>1. ASSUME NEW a \in Attempts, Teardown(a) PROVE IInv'
  BY <1>1 DEF Teardown, Current, main, task
<1>2. CASE AckCleanup
  BY <1>2 DEF AckCleanup, Acknowledge, task, Current, CleanupFailed
<1>3. CASE AckLost
  BY <1>3 DEF AckLost, Current, main, task
<1>4. CASE CleanupDone
  BY <1>4 DEF CleanupDone, Current, task, daemon
<1>5. CASE RecoverSession
  BY <1>5 DEF RecoverSession, task
<1> QED
  BY <1>1, <1>2, <1>3, <1>4, <1>5 DEF DebtStep

\* Registering, polling and accepting keep it: an offer finds the host empty.
LEMMA ServeKeeps == IInv /\ ServeStep => IInv'
<1> SUFFICES ASSUME IInv, ServeStep PROVE IInv'
  OBVIOUS
<1> USE DEF IInv, Typed, Exclusive, IdleStartedNone, DebtsFenced, TrustedHeld,
            HostMatches, LeftoversOwed, Departing, Active, Started, Releasable,
            Holding, Tasked, Settled, Fenced
<1>1. CASE Register
  BY <1>1 DEF Register
<1>2. CASE StopPolling
  BY <1>2 DEF StopPolling, task, daemon
<1>3. CASE PollAnswer
  BY <1>3 DEF PollAnswer, Current, task, daemon
<1>4. ASSUME NEW a \in Attempts, PollOffer(a) PROVE IInv'
  <2>1. \A b \in Attempts : ~Active(b)
    BY <1>4 DEF PollOffer
  <2>2. host = {}
    BY <1>4, <2>1 DEF PollOffer
  <2> QED
    BY <1>4, <2>1, <2>2 DEF PollOffer, Current, task
<1>5. CASE AcceptOffer
  BY <1>5 DEF AcceptOffer, Current
<1>6. CASE AcceptUnanswered
  BY <1>6 DEF AcceptUnanswered, Current, task
<1>7. CASE OfferStale
  BY <1>7 DEF OfferStale, task, daemon
<1> QED
  BY <1>1, <1>2, <1>3, <1>4, <1>5, <1>6, <1>7 DEF ServeStep

\* Executing, tearing down and reporting keep it.
LEMMA AttemptKeeps == IInv /\ AttemptStep => IInv'
<1> SUFFICES ASSUME IInv, AttemptStep PROVE IInv'
  OBVIOUS
<1> USE DEF IInv, Typed, Exclusive, IdleStartedNone, DebtsFenced, TrustedHeld,
            HostMatches, LeftoversOwed, Departing, Active, Started, Releasable,
            Holding, Tasked, Settled, Fenced
<1>1. CASE Heartbeat
  BY <1>1 DEF Heartbeat
<1>2. CASE LoseLease
  BY <1>2 DEF LoseLease, main, daemon
<1>3. CASE Unconfirmed
  BY <1>3 DEF Unconfirmed, Resume, daemon
<1>4. CASE Prepare
  <2>1. host = {} /\ cur \in Attempts
    BY <1>4 DEF Prepare
  <2>2. ~lost => Started(cur)
    BY <1>4 DEF Prepare
  <2> QED
    BY <1>4, <2>1, <2>2 DEF Prepare, Resume, daemon
<1>5. CASE PhaseRefused
  BY <1>5 DEF PhaseRefused, main, daemon
<1>6. CASE Finish
  BY <1>6 DEF Finish, daemon
<1>7. CASE VerifyCleanup
  BY <1>7 DEF VerifyCleanup, Resume, daemon
<1>8. CASE SubmitTerminal
  <2>1. cur \in Attempts /\ cur \notin host /\ outcome \in Settled
    BY <1>8 DEF SubmitTerminal
  <2>2. \A a \in Attempts : Active(a) => a = cur
    BY <1>8, <2>1 DEF SubmitTerminal
  <2> QED
    BY <1>8, <2>1, <2>2 DEF SubmitTerminal, main, task
<1>9. CASE TerminalAnswered
  BY <1>9 DEF TerminalAnswered, Resume, daemon
<1>10. CASE ReportLost
  BY <1>10 DEF ReportLost, Resume, daemon
<1>11. CASE TerminalRejected
  BY <1>11 DEF TerminalRejected, Resume, daemon
<1> QED
  BY <1>1, <1>2, <1>3, <1>4, <1>5, <1>6, <1>7, <1>8, <1>9, <1>10, <1>11 DEF
     AttemptStep

\* Dying and leaving keep it.
LEMMA ExitKeeps == IInv /\ ExitStep => IInv'
<1> SUFFICES ASSUME IInv, ExitStep PROVE IInv'
  OBVIOUS
<1> USE DEF IInv, Typed, Exclusive, IdleStartedNone, DebtsFenced, TrustedHeld,
            HostMatches, LeftoversOwed, Departing, Active, Started, Releasable,
            Holding, Tasked, Settled, Fenced
<1>1. CASE Crash
  BY <1>1 DEF Crash, Up, Exit, daemon
<1>2. CASE Shutdown
  BY <1>2 DEF Shutdown, Up, main, daemon
<1>3. CASE RecoveryInterrupted
  BY <1>3 DEF RecoveryInterrupted, Exit, daemon
<1>4. CASE Refused
  BY <1>4 DEF Refused, Exit, daemon
<1>5. CASE CleanupUnverified
  BY <1>5 DEF CleanupUnverified, Exit, daemon
<1>6. CASE Deregister
  BY <1>6 DEF Deregister, task
<1>7. CASE Leave
  <2>1. Releasable => host = {}
    OBVIOUS
  <2> QED
    BY <1>7, <2>1 DEF Leave, task
<1>8. CASE LeaveUnanswered
  BY <1>8 DEF LeaveUnanswered, task
<1>9. CASE LeaveInterrupted
  BY <1>9 DEF LeaveInterrupted, Exit, daemon
<1> QED
  BY <1>1, <1>2, <1>3, <1>4, <1>5, <1>6, <1>7, <1>8, <1>9 DEF ExitStep

\* The daemon's own steps keep it: a debt replaces an expired lease.
LEMMA DaemonKeeps == IInv /\ DaemonStep => IInv'
<1> SUFFICES ASSUME IInv, DaemonStep PROVE IInv'
  OBVIOUS
<1> USE DEF IInv, Typed, Exclusive, IdleStartedNone, DebtsFenced, TrustedHeld,
            HostMatches, LeftoversOwed, Departing, Active, Started, Releasable,
            Holding, Tasked, Settled, Fenced
<1>1. ASSUME NEW a \in Attempts, ExpireAttempt(a) PROVE IInv'
  BY <1>1 DEF ExpireAttempt, main, task
<1>2. CASE LapseSession
  BY <1>2 DEF LapseSession, main, task
<1>3. ASSUME NEW c \in Commands, OperatorCommand(c) PROVE IInv'
  BY <1>3 DEF OperatorCommand, main, task
<1> QED
  BY <1>1, <1>2, <1>3 DEF DaemonStep

\* IInv is an inductive invariant of the worker.
THEOREM Invariant == Spec => []IInv
<1>1. Init => IInv
  BY InitIInv
<1>2. IInv /\ [Next]_vars => IInv'
  <2>1. IInv /\ Next => IInv'
    BY DebtKeeps, ServeKeeps, AttemptKeeps, ExitKeeps, DaemonKeeps DEF Next
  <2>2. IInv /\ UNCHANGED vars => IInv'
    BY DEF vars, main, task, daemon, counts, IInv, Typed, Exclusive, IdleStartedNone,
           DebtsFenced, TrustedHeld, HostMatches, LeftoversOwed, Departing, Active,
           Started, Releasable
  <2> QED
    BY <2>1, <2>2
<1> QED
  BY <1>1, <1>2, PTL DEF Spec

-----------------------------------------------------------------------------
(* What it gives.                                                          *)

\* Two attempts never share the host, however many processes died or sessions
\* lapsed in between.
THEOREM OneTenantAlways == Spec => []OneTenant
<1>1. IInv => OneTenant
  <2> SUFFICES ASSUME IInv PROVE Cardinality(host) <= 1
    BY DEF OneTenant
  <2>1. CASE host = {}
    <3>1. Cardinality({}) = 0
      BY FS_EmptySet
    <3> QED
      BY <2>1, <3>1
  <2>2. CASE host # {}
    <3>1. PICK a \in host : TRUE
      BY <2>2
    <3>2. host = {a}
      BY <3>1 DEF IInv, HostMatches
    <3>3. Cardinality({a}) = 1
      BY FS_Singleton
    <3> QED
      BY <3>2, <3>3
  <2> QED
    BY <2>1, <2>2
<1> QED
  BY <1>1, Invariant, PTL

\* Whatever is on the host, the daemon waits for its attempt or has it on its
\* books as a debt.
THEOREM LeftoversAlwaysOwed == Spec => []LeftoversOwed
<1>1. IInv => LeftoversOwed
  BY DEF IInv
<1> QED
  BY <1>1, Invariant, PTL

\* An accepted outcome is about an attempt whose machines are gone: a leftover
\* belongs to an attempt that runs or was fenced, never to one that ended.
THEOREM OutcomeAlwaysAfterTeardown == Spec => []OutcomeAfterTeardown
<1>1. IInv => OutcomeAfterTeardown
  BY DEF IInv, LeftoversOwed, DebtsFenced, OutcomeAfterTeardown, Started, Fenced
<1> QED
  BY <1>1, Invariant, PTL

\* A worker that left when idle is deregistered, owes nothing and has an empty
\* host, for as long as it stays away.
THEOREM AlwaysLeavesClean == Spec => []LeavesClean
<1>1. IInv => LeavesClean
  BY DEF IInv, Departing, LeavesClean, Releasable
<1> QED
  BY <1>1, Invariant, PTL

\* The three together: nothing on the host is forgotten while it runs, when an
\* outcome is accepted, or when the worker leaves.
THEOREM NothingForgottenAlways == Spec => []NothingForgotten
<1>1. LeftoversOwed /\ OutcomeAfterTeardown /\ LeavesClean => NothingForgotten
  BY DEF NothingForgotten
<1> QED
  BY <1>1, LeftoversAlwaysOwed, OutcomeAlwaysAfterTeardown, AlwaysLeavesClean, PTL

-----------------------------------------------------------------------------
(* The lease in time (WorkerLease): DeadlineBeforeExpiry for every time to *)
(* live, skew and delay.                                                   *)

\* The anchor is conservative: the daemon read its clock at or after started.
Anchored ==
    /\ started # NoTime => started <= now
    /\ serverTime # NoTime => started # NoTime /\ started + Skew <= serverTime

\* No answer promises more than the row holds, and the row never more than one
\* grant from the present: a later grant cannot be the earlier to end.
AnswerWithinRow ==
    /\ expiry # NoTime => expiry <= ServerNow + DaemonTtl
    /\ answer # NoTime => expiry # NoTime /\ answer <= expiry

\* What exists once a call was sent or a lease was granted.
Granted ==
    /\ sent # NoTime => serverTime # NoTime
    /\ expiry # NoTime => serverTime # NoTime
    /\ lease = "none" /\ answer # NoTime => sent # NoTime
    /\ lease # "none" => deadline # NoTime /\ serverTime # NoTime

LeaseInv == LeaseTypeOK /\ Anchored /\ AnswerWithinRow /\ Granted /\ DeadlineBeforeExpiry

\* Nothing is granted initially.
LEMMA LeaseInitInv == LeaseInit => LeaseInv
  BY LeaseAssumption, NoTimeAssumption
  DEF LeaseInit, LeaseInv, LeaseTypeOK, Instant, Anchored, AnswerWithinRow, Granted, DeadlineBeforeExpiry

\* A renewal still in the future ends before the row does: the translation of
\* the daemon's expiry (ServerClock::deadline) is what bounds it.
LEMMA RenewalWithinRow ==
  ASSUME LeaseInv, sent # NoTime, answer # NoTime, now < Renewal
  PROVE  Renewal \in Int /\ Renewal + Skew <= expiry
<1>1. /\ sent \in Int /\ answer \in Int /\ expiry \in Int
      /\ started \in Int /\ serverTime \in Int /\ now \in Int
  BY DEF LeaseInv, LeaseTypeOK, Instant, Anchored, AnswerWithinRow, Granted
<1>2. ClockDeadline(answer) \in Int /\ Renewal <= ClockDeadline(answer) /\ Renewal \in Int
  BY <1>1, LeaseAssumption DEF Renewal, Earlier, ClockDeadline
<1>3. CASE answer > serverTime
  <2>1. ClockDeadline(answer) = started + (answer - serverTime)
    BY <1>3 DEF ClockDeadline
  <2>2. started + Skew <= serverTime /\ answer <= expiry
    BY <1>1, NoTimeAssumption DEF LeaseInv, Anchored, AnswerWithinRow
  <2> QED BY <1>1, <1>2, <2>1, <2>2, LeaseAssumption
<1>4. CASE ~(answer > serverTime)
  <2>1. ClockDeadline(answer) = started
    BY <1>1, <1>4 DEF ClockDeadline
  <2>2. started <= now
    BY <1>1, NoTimeAssumption DEF LeaseInv, Anchored
  <2> QED BY <1>1, <1>2, <2>1, <2>2
<1> QED BY <1>3, <1>4

\* Every step keeps the invariant.
LEMMA LeaseStepInv == LeaseInv /\ [LeaseNext]_leaseVars => LeaseInv'
<1> SUFFICES ASSUME LeaseInv, [LeaseNext]_leaseVars PROVE LeaseInv'
  OBVIOUS
<1> USE LeaseAssumption, NoTimeAssumption
<1> USE DEF LeaseInv, LeaseTypeOK, Instant, Anchored, AnswerWithinRow, Granted,
            DeadlineBeforeExpiry, ServerNow
<1>1. CASE Tick
  BY <1>1 DEF Tick
<1>2. CASE RegisterSent
  BY <1>2 DEF RegisterSent
<1>3. CASE Registered
  BY <1>3 DEF Registered
<1>4. CASE Send
  BY <1>4 DEF Send
<1>5. CASE Serve
  <2>1. LeaseTypeOK' /\ Anchored' /\ Granted'
    BY <1>5 DEF Serve
  <2>2. AnswerWithinRow'
    BY <1>5 DEF Serve
  <2>3. DeadlineBeforeExpiry'
    BY <1>5 DEF Serve
  <2> QED BY <2>1, <2>2, <2>3
<1>6. CASE Accepted
  BY <1>6 DEF Accepted
<1>7. CASE Confirmed
  <2>1. Renewal \in Int /\ Renewal + Skew <= expiry
    BY <1>7, RenewalWithinRow DEF Confirmed
  <2> QED BY <1>7, <2>1 DEF Confirmed
<1>8. CASE Unanswered
  BY <1>8 DEF Unanswered
<1>9. CASE LeaseExpires
  BY <1>9 DEF LeaseExpires
<1>10. CASE UNCHANGED leaseVars
  BY <1>10 DEF leaseVars
<1> QED BY <1>1, <1>2, <1>3, <1>4, <1>5, <1>6, <1>7, <1>8, <1>9, <1>10 DEF LeaseNext

\* Variables keep their types.
THEOREM LeaseTyped == LeaseSpec => []LeaseTypeOK
<1>1. LeaseInv => LeaseTypeOK BY DEF LeaseInv
<1> QED BY LeaseInitInv, LeaseStepInv, <1>1, PTL DEF LeaseSpec

\* The worker's deadline never outlives the daemon's expiry while execution may
\* run (Lease::renew and the first confirmed heartbeat), for every time to live
\* the daemon registers or grants, every skew and every delay.
THEOREM LeaseSafe == LeaseSpec => []DeadlineBeforeExpiry
<1>1. LeaseInv => DeadlineBeforeExpiry BY DEF LeaseInv
<1> QED BY LeaseInitInv, LeaseStepInv, <1>1, PTL DEF LeaseSpec
=============================================================================
