----------------------------- MODULE WorkerLoop ------------------------------
(***************************************************************************)
(* One worker host: the process that registers, settles teardown debts,    *)
(* polls, executes one attempt at a time and reports it, the heartbeat     *)
(* task beside it, and the virtual machines that outlive the process when  *)
(* it dies.  The daemon is kept to what these steps read and write of it;  *)
(* FleetStore has its own rules in full.                                   *)
(*                                                                         *)
(* A call that fails and is tried again is not a step of its own unless    *)
(* the daemon may have acted on it.  The daemon expires a lease only once  *)
(* the worker's own deadline has passed: WorkerLease is about that.        *)
(***************************************************************************)
EXTENDS Naturals, FiniteSets

CONSTANTS
    Attempts,   \* attempts the daemon may offer to this worker
    None,
    Commands,   \* what an operator does: subset of {"drain", "stop", "cancel"}
    MaxDeaths,  \* bound: exits with an error, crashes and signals
    MaxLapses,  \* bound: sessions that lapse for want of a poll
    Slow        \* tearing an attempt down outlasts the session

ASSUME WorkerAssumption ==
    /\ None \notin Attempts
    /\ Commands \subseteq {"drain", "stop", "cancel"}
    /\ MaxDeaths \in Nat
    /\ MaxLapses \in Nat
    /\ Slow \in BOOLEAN

VARIABLES
    pc,        \* where the main task is
    leaving,   \* the main task is in shutdown_after_idle
    cur,       \* the attempt offered to or held by the main task
    beat,      \* the heartbeat task runs
    lost,      \* lease_lost
    cancel,    \* attempt_cancel
    drain,     \* drain_requested
    signal,    \* the process's shutdown token
    outcome,   \* what execution returned
    undelivered, \* delivery_error: a phase was refused for good
    unacked,   \* cleanup_ack: torn down, not yet acknowledged
    host,      \* attempts with machines, volumes or mounts on the host
    session,   \* daemon: the newest session row
    lapsed,    \* daemon: that row's expires_at has passed
    attempt,   \* daemon: attempt rows
    owed,      \* daemon: pending cleanup obligations
    wanted,    \* daemon: operator commands given
    deaths, lapses

main == <<pc, leaving, cur>>
task == <<beat, lost, cancel, drain, outcome, undelivered>>
daemon == <<session, lapsed, attempt, owed, wanted>>
counts == <<deaths, lapses>>
vars == <<main, task, signal, unacked, host, daemon, counts>>

Active(a) == attempt[a] \in {"offered", "running", "cancel_requested"}
Started(a) == attempt[a] \in {"running", "cancel_requested"}

\* session_is_active.
Current == session \in {"idle", "busy"} /\ ~lapsed

\* The worker holds and owes nothing: what idle_worker_control and
\* deregister_session ask for.
Releasable == owed = {} /\ \A a \in Attempts : ~Active(a)

-----------------------------------------------------------------------------
(* The process.                                                            *)

\* Mutant: fencing forgets what the predecessor may have left running.
MutRegister ==
    /\ pc \in {"down", "gone"}
    /\ pc' = "cleanup" /\ leaving' = FALSE /\ cur' = None
    /\ beat' = FALSE /\ lost' = FALSE /\ cancel' = FALSE /\ drain' = FALSE
    /\ outcome' = None /\ undelivered' = FALSE
    /\ signal' = FALSE
    /\ unacked' = None
    /\ session' = "idle" /\ lapsed' = FALSE
    /\ attempt' = [a \in Attempts |-> IF Active(a) THEN "superseded" ELSE attempt[a]]
    /\ wanted' = wanted \ {"stop"}
    /\ UNCHANGED <<owed, host, counts>>

\* A new process registers a new session: systemd starts one that failed, an
\* operator one that left.  The daemon fences what the last one held and records
\* a teardown debt for everything that had started.
Register ==
    /\ pc \in {"down", "gone"}
    /\ pc' = "cleanup" /\ leaving' = FALSE /\ cur' = None
    /\ beat' = FALSE /\ lost' = FALSE /\ cancel' = FALSE /\ drain' = FALSE
    /\ outcome' = None /\ undelivered' = FALSE
    /\ signal' = FALSE
    /\ unacked' = None
    /\ session' = "idle" /\ lapsed' = FALSE
    /\ owed' = owed \cup {a \in Attempts : Started(a)}
    /\ attempt' = [a \in Attempts |-> IF Active(a) THEN "superseded" ELSE attempt[a]]
    /\ wanted' = wanted \ {"stop"}
    /\ UNCHANGED <<host, counts>>

\* The process is gone: an error that run returns, or a crash anywhere.
\* Nothing it would still have torn down is torn down.
Exit ==
    /\ pc' = "down" /\ cur' = None /\ leaving' = FALSE
    /\ beat' = FALSE
    /\ UNCHANGED <<lost, cancel, drain, outcome, undelivered, signal, unacked,
                   host, daemon, lapses>>

Fault == deaths < MaxDeaths /\ deaths' = deaths + 1

Up == pc \notin {"down", "gone"}

Crash == Up /\ Exit /\ Fault

\* SIGTERM cancels the attempt through the child token.
Shutdown ==
    /\ Up
    /\ ~signal
    /\ Fault
    /\ signal' = TRUE
    /\ cancel' = TRUE
    /\ UNCHANGED <<main, beat, lost, drain, outcome, undelivered, unacked, host,
                   daemon, lapses>>

-----------------------------------------------------------------------------
(* Teardown debts.                                                         *)

\* Mutant: the acknowledgement that was refused is forgotten.
MutCleanupFailed ==
    /\ pc' = IF leaving THEN "leave" ELSE IF Current THEN pc ELSE "recover"
    /\ unacked' = None

\* A cleanup call was refused because the session lapsed.  Idle shutdown only
\* warns about it and asks to be deregistered again.
CleanupFailed ==
    /\ pc' = IF leaving THEN "leave" ELSE IF Current THEN pc ELSE "recover"
    /\ unacked' = unacked

\* complete_cleanup.
Acknowledge(a) ==
    IF Current
    THEN /\ owed' = owed \ {a}
         /\ unacked' = None
         /\ pc' = "cleanup"
    ELSE CleanupFailed /\ owed' = owed

\* Mutant: teardown is acknowledged before the host is checked.
MutTeardown(a) ==
    /\ pc = "cleanup" /\ unacked = None /\ Current /\ a \in owed
    /\ unacked' = a
    /\ UNCHANGED <<main, task, signal, host, daemon, counts>>

\* The host's leftovers of a are gone and the driver has verified that.  It can
\* take longer than the session lives.
Teardown(a) ==
    /\ pc = "cleanup" /\ unacked = None /\ Current /\ a \in owed
    /\ host' = host \ {a}
    /\ unacked' = a
    /\ lapsed' = (lapsed \/ Slow)
    /\ UNCHANGED <<main, task, signal, session, attempt, owed, wanted, counts>>

AckCleanup ==
    /\ pc = "cleanup" /\ unacked # None
    /\ Acknowledge(unacked)
    /\ UNCHANGED <<leaving, cur, task, signal, host, session, lapsed, attempt,
                   wanted, counts>>

\* The acknowledgement was recorded and its answer lost.
AckLost ==
    /\ pc = "cleanup" /\ unacked # None /\ Current
    /\ Fault
    /\ owed' = owed \ {unacked}
    /\ UNCHANGED <<main, task, signal, unacked, host, session, lapsed, attempt,
                   wanted, lapses>>

\* Nothing owed: on to the poll, or back to deregistration.
CleanupDone ==
    /\ pc = "cleanup" /\ unacked = None
    /\ \/ Current /\ owed = {} /\ pc' = IF leaving THEN "leave" ELSE "poll"
       \/ ~Current /\ pc' = IF leaving THEN "leave" ELSE "recover"
    /\ UNCHANGED <<leaving, cur, task, signal, unacked, host, daemon, counts>>

-----------------------------------------------------------------------------
(* Polling and acceptance.                                                 *)

\* The same UUID again, after the daemon asked for it.  It waits while an
\* attempt of the session is still active, and never replaces the session.
RecoverSession ==
    /\ pc = "recover"
    /\ ~signal
    /\ session \notin {"ended", "none"}
    /\ \A a \in Attempts : ~Active(a)
    /\ session' = "idle" /\ lapsed' = FALSE
    /\ pc' = "cleanup"
    /\ UNCHANGED <<leaving, cur, task, signal, unacked, host, attempt, owed,
                   wanted, counts>>

\* shutdown during session recovery.
RecoveryInterrupted == pc = "recover" /\ signal /\ Exit /\ UNCHANGED deaths

\* The token is checked before every poll and while one is waiting.
StopPolling ==
    /\ pc \in {"cleanup", "poll"}
    /\ ~leaving
    /\ signal
    /\ pc' = "deregister"
    /\ UNCHANGED <<leaving, cur, task, signal, unacked, host, daemon, counts>>

PollOffer(a) ==
    /\ pc = "poll" /\ ~signal
    /\ Current /\ session = "idle"
    /\ wanted \cap {"drain", "stop"} = {}
    /\ owed = {}
    /\ attempt[a] = "new"
    /\ \A b \in Attempts : attempt[b] # "offered"
    /\ attempt' = [attempt EXCEPT ![a] = "offered"]
    /\ cur' = a
    /\ pc' = "accept"
    /\ UNCHANGED <<leaving, task, signal, unacked, host, session, lapsed, owed,
                   wanted, counts>>

\* No work, a drain request, an idle shutdown, or a session to recover.
PollAnswer ==
    /\ pc = "poll" /\ ~signal
    /\ IF ~Current THEN pc' = "recover" /\ leaving' = leaving
       ELSE IF ~Releasable \/ wanted \cap {"drain", "stop"} = {}
       THEN pc' = "cleanup" /\ leaving' = leaving
       ELSE IF "stop" \in wanted
       THEN pc' = "leave" /\ leaving' = TRUE
       ELSE pc' = "deregister" /\ leaving' = leaving
    /\ UNCHANGED <<cur, task, signal, unacked, host, daemon, counts>>

\* accept_offer answered: the attempt runs and its heartbeat task starts.
AcceptOffer ==
    /\ pc = "accept"
    /\ attempt[cur] = "offered" /\ Current
    /\ attempt' = [attempt EXCEPT ![cur] = "running"]
    /\ session' = "busy"
    /\ beat' = TRUE /\ lost' = FALSE /\ cancel' = signal /\ drain' = FALSE
    /\ outcome' = None /\ undelivered' = FALSE
    /\ pc' = "confirm"
    /\ UNCHANGED <<leaving, cur, signal, unacked, host, lapsed, owed, wanted, counts>>

\* The daemon accepted and its answer was lost: run returns the error.
AcceptUnanswered ==
    /\ pc = "accept"
    /\ attempt[cur] = "offered" /\ Current
    /\ Fault
    /\ attempt' = [attempt EXCEPT ![cur] = "running"]
    /\ session' = "busy"
    /\ pc' = "down" /\ cur' = None /\ leaving' = FALSE
    /\ UNCHANGED <<task, signal, unacked, host, lapsed, owed, wanted, lapses>>

\* stale_attempt: back to polling.
OfferStale ==
    /\ pc = "accept"
    /\ attempt[cur] # "offered"
    /\ pc' = "cleanup" /\ cur' = None
    /\ UNCHANGED <<leaving, task, signal, unacked, host, daemon, counts>>

-----------------------------------------------------------------------------
(* The heartbeat task.                                                     *)

\* A confirmed heartbeat also renews the session and carries the desired state.
Heartbeat ==
    /\ beat /\ ~lost
    /\ Started(cur) /\ session = "busy"
    /\ lapsed' = FALSE
    /\ cancel' = (cancel \/ attempt[cur] = "cancel_requested")
    /\ drain' = (drain \/ (attempt[cur] # "cancel_requested" /\ "drain" \in wanted))
    /\ pc' = IF pc = "confirm" /\ ~signal THEN "execute" ELSE pc
    /\ UNCHANGED <<leaving, cur, beat, lost, outcome, undelivered, signal,
                   unacked, host, session, attempt, owed, wanted, counts>>

\* The deadline passed unconfirmed, or the daemon answered stale_attempt.
LoseLease ==
    /\ beat /\ ~lost
    /\ ~Started(cur) \/ deaths < MaxDeaths
    /\ deaths' = IF Started(cur) THEN deaths + 1 ELSE deaths
    /\ lost' = TRUE
    /\ cancel' = TRUE
    /\ UNCHANGED <<main, beat, drain, outcome, undelivered, signal, unacked,
                   host, daemon, lapses>>

-----------------------------------------------------------------------------
(* Executing an assignment.                                                *)

Resume(next) ==
    /\ beat' = FALSE
    /\ cur' = None
    /\ pc' = next

\* No heartbeat was confirmed: nothing was started, nothing is reported.
Unconfirmed ==
    /\ pc = "confirm"
    /\ signal \/ lost
    /\ Resume("cleanup")
    /\ UNCHANGED <<leaving, lost, cancel, drain, outcome, undelivered, signal,
                   unacked, host, daemon, counts>>

\* The accepted phase is delivered and the credential fetched; the lease may be
\* lost meanwhile.
Prepare ==
    /\ pc = "execute"
    /\ \/ lost /\ Resume("cleanup") /\ outcome' = outcome /\ host' = host
       \/ /\ ~lost /\ cancel
          /\ outcome' = "cancelled" /\ pc' = "report"
          /\ host' = host /\ cur' = cur /\ beat' = beat
       \/ /\ ~lost /\ ~cancel
          /\ outcome' = None /\ pc' = "running"
          /\ host' = host \cup {cur} /\ cur' = cur /\ beat' = beat
    /\ UNCHANGED <<leaving, lost, cancel, drain, undelivered, signal, unacked,
                   daemon, counts>>

\* A credential or an event refused for good: run returns the error.
Refused == pc \in {"execute", "report"} /\ ~lost /\ Exit /\ Fault

\* A phase refused for good cancels the execution and is remembered.
PhaseRefused ==
    /\ pc = "running" /\ ~undelivered /\ ~lost
    /\ Fault
    /\ undelivered' = TRUE /\ cancel' = TRUE
    /\ UNCHANGED <<main, beat, lost, drain, outcome, signal, unacked, host,
                   daemon, lapses>>

\* The recipe ends; a cancelled token makes it an abort whatever it returned.
Finish ==
    /\ pc = "running"
    /\ outcome' \in IF cancel THEN {"cancelled"} ELSE {"completed", "failed"}
    /\ pc' = "verify"
    /\ UNCHANGED <<leaving, cur, beat, lost, cancel, drain, undelivered, signal,
                   unacked, host, daemon, counts>>

\* cleanup_attempt verified that nothing is left.  A lost lease ends here; a
\* refused phase is an error of run.
VerifyCleanup ==
    /\ pc = "verify"
    /\ host' = host \ {cur}
    /\ IF lost THEN Resume("cleanup")
       ELSE IF undelivered THEN Resume("down")
       ELSE pc' = "report" /\ beat' = beat /\ cur' = cur
    /\ UNCHANGED <<leaving, lost, cancel, drain, outcome, undelivered, signal,
                   unacked, daemon, counts>>

\* The terminal outcome is withheld and run returns an error.
CleanupUnverified == pc = "verify" /\ Exit /\ Fault

\* The daemon takes the outcome, when the attempt is still the worker's and a
\* cancelled one is reported as cancelled.  Its answer may be lost.
SubmitTerminal ==
    /\ pc = "report" /\ ~lost
    /\ Started(cur) /\ session = "busy"
    /\ attempt[cur] = "cancel_requested" => outcome = "cancelled"
    /\ attempt' = [attempt EXCEPT ![cur] = outcome]
    /\ session' = "idle"
    /\ UNCHANGED <<main, task, signal, unacked, host, lapsed, owed, wanted, counts>>

TerminalAnswered ==
    /\ pc = "report"
    /\ attempt[cur] = outcome
    /\ Resume(IF drain /\ ~lost THEN "deregister" ELSE "cleanup")
    /\ UNCHANGED <<leaving, lost, cancel, drain, outcome, undelivered, signal,
                   unacked, host, daemon, counts>>

\* The lease was lost while the outcome was being reported.
ReportLost ==
    /\ pc = "report" /\ lost
    /\ Resume("cleanup")
    /\ UNCHANGED <<leaving, lost, cancel, drain, outcome, undelivered, signal,
                   unacked, host, daemon, counts>>

\* The attempt is not the worker's any more, or was cancelled under a finished
\* one: a permanent rejection.
TerminalRejected ==
    /\ pc = "report" /\ ~lost
    /\ attempt[cur] # outcome
    /\ ~Started(cur) \/ (attempt[cur] = "cancel_requested" /\ outcome # "cancelled")
    /\ Resume("down")
    /\ UNCHANGED <<leaving, lost, cancel, drain, outcome, undelivered, signal,
                   unacked, host, daemon, counts>>

-----------------------------------------------------------------------------
(* Leaving.                                                                *)

\* A drained worker asks once; a refusal is only logged.
Deregister ==
    /\ pc = "deregister"
    /\ session' = IF session \in {"idle", "offline"} /\ Releasable THEN "ended" ELSE session
    /\ pc' = "gone"
    /\ UNCHANGED <<leaving, cur, task, signal, unacked, host, lapsed, attempt,
                   owed, wanted, counts>>

\* Idle shutdown asks until it is deregistered, settling debts in between.
Leave ==
    /\ pc = "leave" /\ ~signal
    /\ IF session \in {"idle", "offline", "ended"} /\ Releasable
       THEN session' = "ended" /\ pc' = "gone"
       ELSE session' = session /\ pc' = "cleanup"
    /\ UNCHANGED <<leaving, cur, task, signal, unacked, host, lapsed, attempt,
                   owed, wanted, counts>>

\* The call or its answer is lost.
LeaveUnanswered ==
    /\ pc = "leave" /\ ~signal
    /\ session' \in {session, IF Releasable THEN "ended" ELSE session}
    /\ pc' = "cleanup"
    /\ Fault
    /\ UNCHANGED <<leaving, cur, task, signal, unacked, host, lapsed, attempt,
                   owed, wanted, lapses>>

LeaveInterrupted == (pc = "leave" \/ (pc = "cleanup" /\ leaving)) /\ signal /\ Exit /\ UNCHANGED deaths

-----------------------------------------------------------------------------
(* The daemon's own steps.                                                 *)

\* The offer's or lease's deadline passed and the sweep found it.  A lease the
\* worker still relies on has not expired.
ExpireAttempt(a) ==
    /\ Active(a)
    /\ attempt[a] = "offered" \/ ~(beat /\ ~lost /\ cur = a)
    /\ attempt' = [attempt EXCEPT ![a] = "expired"]
    /\ owed' = IF Started(a) THEN owed \cup {a} ELSE owed
    /\ session' = IF session = "ended" THEN session ELSE "offline"
    /\ UNCHANGED <<main, task, signal, unacked, host, lapsed, wanted, counts>>

LapseSession ==
    /\ session \in {"idle", "busy"} /\ ~lapsed
    /\ lapses < MaxLapses
    /\ lapses' = lapses + 1
    /\ lapsed' = TRUE
    /\ UNCHANGED <<main, task, signal, unacked, host, session, attempt, owed,
                   wanted, deaths>>

OperatorCommand(c) ==
    /\ c \in Commands
    /\ IF c = "cancel"
       THEN /\ \E a \in Attempts : attempt[a] = "running"
            /\ attempt' = [a \in Attempts |->
                 IF attempt[a] = "running" THEN "cancel_requested" ELSE attempt[a]]
       ELSE c \notin wanted /\ attempt' = attempt
    /\ wanted' = wanted \cup {c}
    /\ UNCHANGED <<main, task, signal, unacked, host, session, lapsed, owed, counts>>

-----------------------------------------------------------------------------
Init ==
    /\ pc = "down" /\ leaving = FALSE /\ cur = None
    /\ beat = FALSE /\ lost = FALSE /\ cancel = FALSE /\ drain = FALSE
    /\ outcome = None /\ undelivered = FALSE
    /\ signal = FALSE /\ unacked = None
    /\ host = {}
    /\ session = "none" /\ lapsed = FALSE
    /\ attempt = [a \in Attempts |-> "new"]
    /\ owed = {} /\ wanted = {}
    /\ deaths = 0 /\ lapses = 0

DebtStep ==
    \/ \E a \in Attempts : Teardown(a)
    \/ AckCleanup \/ AckLost \/ CleanupDone \/ RecoverSession

ServeStep ==
    \/ Register \/ StopPolling \/ PollAnswer \/ \E a \in Attempts : PollOffer(a)
    \/ AcceptOffer \/ AcceptUnanswered \/ OfferStale

AttemptStep ==
    \/ Heartbeat \/ LoseLease \/ Unconfirmed \/ Prepare \/ PhaseRefused
    \/ Finish \/ VerifyCleanup \/ SubmitTerminal \/ TerminalAnswered
    \/ ReportLost \/ TerminalRejected

ExitStep ==
    \/ Crash \/ Shutdown \/ RecoveryInterrupted \/ Refused \/ CleanupUnverified
    \/ Deregister \/ Leave \/ LeaveUnanswered \/ LeaveInterrupted

DaemonStep ==
    \/ \E a \in Attempts : ExpireAttempt(a)
    \/ LapseSession
    \/ \E c \in Commands : OperatorCommand(c)

Next == DebtStep \/ ServeStep \/ AttemptStep \/ ExitStep \/ DaemonStep

Spec == Init /\ [][Next]_vars

\* The tasks of a live process run, systemd restarts a failed one, and the
\* daemon's sweep runs every two seconds.  Nothing is assumed of operators, of
\* signals, or of how long a teardown takes.
MainStep ==
    /\ pc # "gone"
    /\ \/ DebtStep \/ ServeStep \/ Unconfirmed \/ Prepare \/ Finish
       \/ VerifyCleanup \/ SubmitTerminal \/ TerminalAnswered \/ ReportLost
       \/ TerminalRejected \/ Deregister \/ Leave \/ RecoveryInterrupted \/ LeaveInterrupted

-----------------------------------------------------------------------------
\* Two attempts never share the host, whatever died, timed out or was repeated
\* in between: an attempt starts only once the last one's machines are gone.
OneTenant == Cardinality(host) <= 1

\* What is left on the host is always on the daemon's books, as an attempt it
\* still waits for or as a debt: it never offers work over forgotten machines.
LeftoversOwed == \A a \in host : Started(a) \/ a \in owed

\* An outcome the daemon accepted is about a host that was verified clean.
OutcomeAfterTeardown ==
    \A a \in Attempts : attempt[a] \in {"completed", "failed", "cancelled"} => a \notin host

\* A worker that was asked to leave when idle leaves deregistered, with no debt:
\* nothing on the host needs it back.
LeavesClean == pc = "gone" /\ leaving => session = "ended" /\ owed = {} /\ host = {}

\* Nothing on the host is ever forgotten: it is on the daemon's books, gone before
\* an outcome is accepted, and gone when the worker leaves.
NothingForgotten == LeftoversOwed /\ OutcomeAfterTeardown /\ LeavesClean
=============================================================================
