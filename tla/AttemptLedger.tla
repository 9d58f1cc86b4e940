---------------------------- MODULE AttemptLedger ----------------------------
(***************************************************************************)
(* One attempt from its acceptance to its report.  Its worker streams      *)
(* numbered reliable events and best-effort progress, uploads artifacts    *)
(* into a staging area and asks to complete; the daemon stores the events, *)
(* accepts one terminal outcome, promotes the listed artifacts and         *)
(* projects everything to GitHub or Slack.                                 *)
(*                                                                         *)
(* Four kinds of process share the rows: the RPC handlers (one per call,   *)
(* a retried Complete may overlap the first), the maintenance loop, the    *)
(* coordinator task and session registration.  Every database statement    *)
(* or object-store request is one step; what a process remembers between   *)
(* two of them is its record in task or proj.                              *)
(*                                                                         *)
(* The worker repeats one fixed request, so the identity, digest and trace *)
(* comparisons of the code never fail here, and a repeated insert changes  *)
(* nothing.  Leases and job rows are those of FleetStore: the job is       *)
(* running with this attempt's claim for as long as the attempt is active. *)
(***************************************************************************)
EXTENDS Naturals, FiniteSets

CONSTANTS
    MaxSeq,        \* bound: reliable events of the attempt
    Progress,      \* progress updates the worker may send
    Unsupported,   \* those with a workflow step the daemon does not know
    Artifacts,     \* files the worker may upload
    Handlers,      \* Complete calls that may overlap
    Maintenance,   \* the maintenance loop, a task like the handlers
    None,
    Requests,      \* completions the worker may come to ask for
    MaxFailures    \* bound: failing calls and daemon crashes

TerminalStatus == {"completed", "failed", "cancelled"}

ASSUME LedgerAssumption ==
    /\ MaxSeq \in Nat \ {0}
    /\ Requests \subseteq [last : 1 .. MaxSeq, outcome : TerminalStatus,
                           manifest : SUBSET Artifacts]
    /\ Unsupported \subseteq Progress
    /\ Maintenance \notin Handlers
    /\ None \notin Artifacts
    /\ MaxFailures \in Nat

VARIABLES
    request,     \* the worker's completion: terminal event, outcome, manifest
    status,      \* worker_attempt.status
    live,        \* lease_expires_at > NOW()
    authorized,  \* the registry still authorizes the attempt's worker
    event,       \* worker_attempt_event rows by reliable_seq
    contiguous,  \* highest_contiguous_reliable_seq
    projected,   \* projected_reliable_seq
    progress,    \* worker_attempt_progress rows
    staging,     \* worker_artifact_staging rows
    grant,       \* the row's newest upload grant, by grant_expires_at
    aged,        \* artifacts whose row is older than staging_gc_grace
    staged,      \* objects in the staging area
    visible,     \* objects under their logical key
    task,        \* Complete handlers and the maintenance loop
    proj,        \* the coordinator's projection tick
    shown,       \* observed: the last reliable event that was reported
    report,      \* observed: what the report says now
    failures     \* failures that happened, at most MaxFailures

attemptVars  == <<status, live, authorized>>
ledgerVars   == <<event, contiguous, projected, progress>>
artifactVars == <<staging, grant, aged, staged, visible>>
reportVars   == <<proj, shown, report>>
vars == <<request, attemptVars, ledgerVars, artifactVars, task, reportVars, failures>>

Tasks == Handlers \cup {Maintenance}

ActiveStatus == {"running", "cancel_requested"}
LostStatus   == {"expired", "fenced"}

\* stored: not projected yet; discarded: projected_at set with a reason.
RowStatus     == {"absent", "stored", "projected", "discarded"}
StagingStatus == {"none", "granted", "verified", "promoted", "reaped"}
GrantState    == {"none", "first", "renewed", "lapsed"}

Active   == status \in ActiveStatus
Terminal == status \in TerminalStatus
Lost     == status \in LostStatus

\* The worker's calls about an active attempt are admitted.
Admitted == Active /\ live /\ authorized

\* attempt_projection_is_authoritative, and the filter of both fetches.
Authoritative == Terminal \/ (Active /\ live)

GrantLive(a) == grant[a] \in {"first", "renewed"}

\* Mutant: the files of any attempt that is over are garbage.
MutReapable(a) == Lost \/ Terminal

\* A staged file nobody will promote.
Reapable(a) == Lost \/ (Terminal /\ a \notin request.manifest)

Verified == {a \in Artifacts : staging[a] = "verified"}

-----------------------------------------------------------------------------
(* The worker's stream, and what time and operators do to the attempt.     *)

\* Event k ends the prefix without a gap that continues the one known.
AdvanceTo(ev, k) ==
    /\ \A j \in contiguous + 1 .. k : ev[j] # "absent"
    /\ k < MaxSeq => ev[k + 1] = "absent"

IngestEvent ==
    /\ Admitted
    /\ \E n \in 1 .. request.last : event[n] = "absent"
                                 /\ event' = [event EXCEPT ![n] = "stored"]
    /\ \E k \in contiguous .. MaxSeq : AdvanceTo(event', k) /\ contiguous' = k
    /\ UNCHANGED <<request, attemptVars, projected, progress, artifactVars,
                   task, reportVars, failures>>

IngestProgress ==
    /\ Admitted
    /\ \E p \in Progress : progress[p] = "absent"
                        /\ progress' = [progress EXCEPT ![p] = "stored"]
    /\ UNCHANGED <<request, attemptVars, event, contiguous, projected,
                   artifactVars, task, reportVars, failures>>

RequestCancel ==
    /\ status = "running"
    /\ status' = "cancel_requested"
    /\ UNCHANGED <<request, live, authorized, ledgerVars, artifactVars, task,
                   reportVars, failures>>

LeaseLapses ==
    /\ Active /\ live
    /\ live' = FALSE
    /\ UNCHANGED <<request, status, authorized, ledgerVars, artifactVars, task,
                   reportVars, failures>>

ChangeRegistry ==
    /\ authorized' = ~authorized
    /\ UNCHANGED <<request, status, live, ledgerVars, artifactVars, task,
                   reportVars, failures>>

DiscardRows(rows) ==
    [r \in DOMAIN rows |-> IF rows[r] = "stored" THEN "discarded" ELSE rows[r]]

DiscardProjection ==
    /\ event' = DiscardRows(event)
    /\ progress' = DiscardRows(progress)
    /\ projected' = contiguous

\* The sweep runs in the coordinator's task, between two projection ticks.
Expire ==
    /\ Active /\ ~live /\ proj.pc = "idle"
    /\ status' = "expired"
    /\ DiscardProjection
    /\ UNCHANGED <<request, live, authorized, contiguous, artifactVars, task,
                   reportVars, failures>>

\* register_session of a successor: a service task, at any time.
Fence ==
    /\ Active
    /\ status' = "fenced"
    /\ DiscardProjection
    /\ UNCHANGED <<request, live, authorized, contiguous, artifactVars, task,
                   reportVars, failures>>

-----------------------------------------------------------------------------
(* Uploads.  A signed grant is good for the object store until it expires, *)
(* whatever became of the attempt.                                         *)

ArtifactGrant(a) ==
    /\ Admitted
    /\ staging[a] \in {"none", "granted"}
    /\ staging' = [staging EXCEPT ![a] = "granted"]
    /\ grant' = [grant EXCEPT ![a] = IF grant[a] = "none" THEN "first" ELSE "renewed"]
    /\ UNCHANGED <<request, attemptVars, ledgerVars, aged, staged, visible,
                   task, reportVars, failures>>

Upload(a) ==
    /\ GrantLive(a)
    /\ staged' = staged \cup {a}
    /\ UNCHANGED <<request, attemptVars, ledgerVars, staging, grant, aged,
                   visible, task, reportVars, failures>>

GrantLapses(a) ==
    /\ GrantLive(a)
    /\ grant' = [grant EXCEPT ![a] = "lapsed"]
    /\ UNCHANGED <<request, attemptVars, ledgerVars, staging, aged, staged,
                   visible, task, reportVars, failures>>

\* created_at + staging_gc_grace passes.  The configuration keeps the grace
\* no shorter than a grant, so the first grant is over by then.
StagingAges(a) ==
    /\ staging[a] # "none" /\ grant[a] # "first"
    /\ aged' = aged \cup {a}
    /\ UNCHANGED <<request, attemptVars, ledgerVars, staging, grant, staged,
                   visible, task, reportVars, failures>>

-----------------------------------------------------------------------------
(* Complete: verify every listed upload, accept the terminal, promote.     *)

TaskUnchanged == UNCHANGED <<request, reportVars, failures>>

\* After a failed promotion the maintenance loop goes on to reaping; a
\* handler answers its caller.
GiveUp(t) == [pc |-> IF t = Maintenance THEN "list" ELSE "idle",
              todo |-> {}, art |-> None]

Step(t, pc, todo, art) ==
    task' = [task EXCEPT ![t] = [pc |-> pc, todo |-> todo, art |-> art]]

Quit(t) == task' = [task EXCEPT ![t] = GiveUp(t)]

\* An accepted manifest needs no second verification.
CompleteCall(h) ==
    /\ task[h].pc = "idle" /\ authorized /\ ~Lost
    /\ Step(h, "verify", IF Terminal THEN {} ELSE request.manifest, None)
    /\ TaskUnchanged
    /\ UNCHANGED <<attemptVars, ledgerVars, artifactVars>>

\* verify_fleet_upload of the next listed artifact.
VerifyObject(h) ==
    /\ task[h].pc = "verify"
    /\ \E a \in task[h].todo :
         IF a \in staged THEN Step(h, "record", task[h].todo, a) ELSE Quit(h)
    /\ TaskUnchanged
    /\ UNCHANGED <<attemptVars, ledgerVars, artifactVars>>

Recorded(a) == IF staging[a] = "promoted" THEN "promoted" ELSE "verified"

\* verify_artifact
RecordVerified(h) ==
    /\ task[h].pc = "record"
    /\ LET a == task[h].art IN
       IF staging[a] # "none" /\ (Terminal \/ (Active /\ GrantLive(a)))
       THEN /\ staging' = [staging EXCEPT ![a] = Recorded(a)]
            /\ Step(h, "verify", task[h].todo \ {a}, None)
       ELSE Quit(h) /\ UNCHANGED staging
    /\ TaskUnchanged
    /\ UNCHANGED <<attemptVars, ledgerVars, grant, aged, staged, visible>>

\* What accept_terminal asks of an attempt that is still active.
Acceptable ==
    /\ Admitted
    /\ status = "cancel_requested" => request.outcome = "cancelled"
    /\ contiguous >= request.last
    /\ Verified = request.manifest

\* Accepted, Duplicate, or Stale and every error.
AcceptTerminal(h) ==
    /\ task[h].pc = "verify" /\ task[h].todo = {}
    /\ IF Terminal \/ Acceptable THEN Step(h, "promote", request.manifest, None)
                                 ELSE Quit(h)
    /\ status' = IF Acceptable THEN request.outcome ELSE status
    /\ TaskUnchanged
    /\ UNCHANGED <<live, authorized, ledgerVars, artifactVars>>

\* promote_fleet_upload, first request: a staging object that is gone is fine
\* if the artifact is already under its logical key.
PromoteHead(t) ==
    /\ task[t].pc = "promote"
    /\ \E a \in task[t].todo :
         \/ a \in staged /\ Step(t, "copy", task[t].todo, a)
         \/ /\ a \notin staged /\ a \in visible
            /\ Step(t, "promote", task[t].todo \ {a}, None)
         \/ a \notin staged /\ a \notin visible /\ Quit(t)
    /\ TaskUnchanged
    /\ UNCHANGED <<attemptVars, ledgerVars, artifactVars>>

\* Copy and compare: fails when another promotion removed the source.
PromoteCopy(t) ==
    /\ task[t].pc = "copy"
    /\ IF task[t].art \in staged
       THEN /\ visible' = visible \cup {task[t].art}
            /\ Step(t, "delete", task[t].todo, task[t].art)
       ELSE Quit(t) /\ UNCHANGED visible
    /\ TaskUnchanged
    /\ UNCHANGED <<attemptVars, ledgerVars, staging, grant, aged, staged>>

PromoteDelete(t) ==
    /\ task[t].pc = "delete"
    /\ staged' = staged \ {task[t].art}
    /\ Step(t, "promote", task[t].todo \ {task[t].art}, None)
    /\ TaskUnchanged
    /\ UNCHANGED <<attemptVars, ledgerVars, staging, grant, aged, visible>>

\* mark_artifacts_promoted: all listed rows or none.
MarkPromoted(t) ==
    /\ task[t].pc = "promote" /\ task[t].todo = {}
    /\ IF \A a \in request.manifest : staging[a] \in {"verified", "promoted"}
       THEN staging' = [a \in Artifacts |->
                IF a \in request.manifest THEN "promoted" ELSE staging[a]]
       ELSE UNCHANGED staging
    /\ Quit(t)
    /\ TaskUnchanged
    /\ UNCHANGED <<attemptVars, ledgerVars, grant, aged, staged, visible>>

-----------------------------------------------------------------------------
(* Maintenance: every tick resumes promotions, then reaps.                 *)

\* Mutant: promotion is left to the Complete calls.
MutMaintenanceTick ==
    /\ task[Maintenance].pc = "idle"
    /\ Quit(Maintenance)
    /\ TaskUnchanged
    /\ UNCHANGED <<attemptVars, ledgerVars, artifactVars>>

MaintenanceTick ==
    /\ task[Maintenance].pc = "idle"
    /\ IF Terminal /\ Verified # {}
       THEN Step(Maintenance, "promote", request.manifest, None)
       ELSE Quit(Maintenance)
    /\ TaskUnchanged
    /\ UNCHANGED <<attemptVars, ledgerVars, artifactVars>>

\* staged_artifacts_due_for_reap
ListReapable ==
    /\ task[Maintenance].pc = "list"
    /\ Step(Maintenance, "reap",
            {a \in aged : staging[a] \in {"granted", "verified"} /\ Reapable(a)}, None)
    /\ TaskUnchanged
    /\ UNCHANGED <<attemptVars, ledgerVars, artifactVars>>

ReapObject ==
    /\ task[Maintenance].pc = "reap"
    /\ \E a \in task[Maintenance].todo :
         /\ staged' = staged \ {a}
         /\ Step(Maintenance, "reaped", task[Maintenance].todo, a)
    /\ TaskUnchanged
    /\ UNCHANGED <<attemptVars, ledgerVars, staging, grant, aged, visible>>

\* mark_staged_artifact_reaped asks again whether the row is reapable.
MarkReaped ==
    /\ task[Maintenance].pc = "reaped"
    /\ LET a == task[Maintenance].art IN
       /\ staging' = IF staging[a] \in {"granted", "verified"} /\ Reapable(a)
                     THEN [staging EXCEPT ![a] = "reaped"] ELSE staging
       /\ Step(Maintenance, "reap", task[Maintenance].todo \ {a}, None)
    /\ TaskUnchanged
    /\ UNCHANGED <<attemptVars, ledgerVars, grant, aged, staged, visible>>

MaintenanceDone ==
    /\ task[Maintenance].pc = "reap" /\ task[Maintenance].todo = {}
    /\ Step(Maintenance, "idle", {}, None)
    /\ TaskUnchanged
    /\ UNCHANGED <<attemptVars, ledgerVars, artifactVars>>

-----------------------------------------------------------------------------
(* The coordinator's projection tick: at most one reliable event of the    *)
(* attempt, then its progress.  A failed report blocks the attempt for the *)
(* rest of the tick, which for a single attempt ends it.                   *)

Idle == [pc |-> "idle", item |-> 0, batch |-> {}]

Turn(pc, item, batch) == proj' = [pc |-> pc, item |-> item, batch |-> batch]

ProjUnchanged == UNCHANGED <<request, attemptVars, artifactVars, task, failures>>

Report(n) == IF n = request.last THEN "terminal" ELSE "running"

\* The row unprojected_events returns.
NextEvent(n) == n = projected + 1 /\ n <= contiguous /\ event[n] = "stored"

FetchEvents ==
    /\ proj.pc = "idle"
    /\ \/ \E n \in 1 .. MaxSeq : Authoritative /\ NextEvent(n) /\ Turn("event", n, {})
       \/ /\ ~(Authoritative /\ \E n \in 1 .. MaxSeq : NextEvent(n))
          /\ Turn("fetch", 0, {})
    /\ ProjUnchanged
    /\ UNCHANGED <<ledgerVars, shown, report>>

\* Mutant: an accepted terminal may be reported while promotion is pending.
MutReportable(n) == Authoritative /\ (n = request.last => Terminal)

\* Mutant: the fetched row is trusted.
MutRecheck(n) == n = request.last => Terminal /\ Verified = {}

\* Recheck of the fetched row and, for the terminal, attempt_terminal_outcome,
\* which answers only for an accepted outcome without a pending promotion.
Reportable(n) ==
    /\ Authoritative
    /\ n = request.last => Terminal /\ Verified = {}

CheckEvent ==
    /\ proj.pc = "event"
    /\ IF Reportable(proj.item) THEN Turn("report", proj.item, {})
                                ELSE Turn("fetch", 0, {})
    /\ ProjUnchanged
    /\ UNCHANGED <<ledgerVars, shown, report>>

\* Mutant: a reliable phase is debounced like progress.
MutReportEvent ==
    /\ proj.pc = "report"
    /\ shown' \in {shown, proj.item} /\ report' = Report(proj.item)
    /\ Turn("mark", proj.item, {})
    /\ ProjUnchanged
    /\ UNCHANGED ledgerVars

\* The provider's call.  (plan_next_repeat, which precedes a terminal one, writes
\* another job and is idempotent.)
ReportEvent ==
    /\ proj.pc = "report"
    /\ shown' = proj.item /\ report' = Report(proj.item)
    /\ Turn("mark", proj.item, {})
    /\ ProjUnchanged
    /\ UNCHANGED ledgerVars

\* mark_event_projected: nothing if the row is no longer the next one.
MarkEvent ==
    /\ proj.pc = "mark"
    /\ IF projected + 1 = proj.item /\ contiguous >= proj.item
       THEN /\ projected' = proj.item
            /\ event' = [event EXCEPT ![proj.item] = "projected"]
       ELSE UNCHANGED <<projected, event>>
    /\ Turn("fetch", 0, {})
    /\ ProjUnchanged
    /\ UNCHANGED <<contiguous, progress, shown, report>>

FetchProgress ==
    /\ proj.pc = "fetch"
    /\ Turn("progress", 0,
            {p \in Progress : Authoritative /\ progress[p] = "stored"})
    /\ ProjUnchanged
    /\ UNCHANGED <<ledgerVars, shown, report>>

MarkRow(p) ==
    progress' = [progress EXCEPT ![p] = IF progress[p] = "stored" THEN "projected"
                                                                  ELSE progress[p]]

\* An unknown workflow step is marked without a report.
CheckProgress ==
    /\ proj.pc = "progress"
    /\ \E p \in proj.batch :
         \/ /\ Authoritative /\ p \in Unsupported
            /\ MarkRow(p)
            /\ Turn("progress", 0, proj.batch \ {p})
         \/ /\ Authoritative /\ p \notin Unsupported
            /\ Turn("progress_report", p, proj.batch \ {p})
            /\ UNCHANGED progress
         \/ /\ ~Authoritative
            /\ Turn("progress", 0, proj.batch \ {p})
            /\ UNCHANGED progress
    /\ ProjUnchanged
    /\ UNCHANGED <<event, contiguous, projected, shown, report>>

\* The surface drops an update that follows the previous one too closely.
ReportProgress ==
    /\ proj.pc = "progress_report"
    /\ report' \in {report, "running"}
    /\ Turn("progress_mark", proj.item, proj.batch)
    /\ ProjUnchanged
    /\ UNCHANGED <<ledgerVars, shown>>

MarkProgress ==
    /\ proj.pc = "progress_mark"
    /\ MarkRow(proj.item)
    /\ Turn("progress", 0, proj.batch)
    /\ ProjUnchanged
    /\ UNCHANGED <<event, contiguous, projected, shown, report>>

TickDone ==
    /\ proj.pc = "progress" /\ proj.batch = {}
    /\ proj' = Idle
    /\ ProjUnchanged
    /\ UNCHANGED <<ledgerVars, shown, report>>

-----------------------------------------------------------------------------
(* Failures.  A call that fails may still have had its effect.             *)

Fail == failures < MaxFailures /\ failures' = failures + 1

IdleTask == [pc |-> "idle", todo |-> {}, art |-> None]

\* A statement or request of a handler or of maintenance fails.
TaskFails(t) ==
    /\ Fail /\ task[t].pc # "idle"
    /\ visible' \in {visible, IF task[t].pc = "copy" /\ task[t].art \in staged
                              THEN visible \cup {task[t].art} ELSE visible}
    /\ staged' \in {staged, IF task[t].pc = "delete" THEN staged \ {task[t].art}
                                                     ELSE staged}
    /\ task' = [task EXCEPT ![t] = IF task[t].pc \in {"promote", "copy", "delete"}
                                   THEN GiveUp(t) ELSE IdleTask]
    /\ UNCHANGED <<request, attemptVars, ledgerVars, staging, grant, aged, reportVars>>

\* A failed delete is left to a later tick.
ReapFails ==
    /\ Fail /\ task[Maintenance].pc = "reap"
    /\ \E a \in task[Maintenance].todo :
         /\ staged' \in {staged, staged \ {a}}
         /\ Step(Maintenance, "reap", task[Maintenance].todo \ {a}, None)
    /\ UNCHANGED <<request, attemptVars, ledgerVars, staging, grant, aged, visible,
                   reportVars>>

\* A read, a report or a marking of the tick fails.
TickFails ==
    /\ Fail /\ proj.pc # "idle"
    /\ \/ UNCHANGED <<shown, report>>
       \/ proj.pc = "report" /\ shown' = proj.item /\ report' = Report(proj.item)
       \/ proj.pc = "progress_report" /\ report' = "running" /\ UNCHANGED shown
    /\ proj' = Idle
    /\ UNCHANGED <<request, attemptVars, ledgerVars, artifactVars, task>>

\* The daemon restarts: every process begins anew, rows and objects stay.
Crash ==
    /\ Fail
    /\ task' = [t \in Tasks |-> IdleTask]
    /\ proj' = Idle
    /\ UNCHANGED <<request, attemptVars, ledgerVars, artifactVars, shown, report>>

-----------------------------------------------------------------------------
Init ==
    /\ request \in Requests
    /\ status = "running" /\ live = TRUE /\ authorized = TRUE
    /\ event = [n \in 1 .. MaxSeq |-> "absent"]
    /\ contiguous = 0 /\ projected = 0
    /\ progress = [p \in Progress |-> "absent"]
    /\ staging = [a \in Artifacts |-> "none"]
    /\ grant = [a \in Artifacts |-> "none"]
    /\ aged = {} /\ staged = {} /\ visible = {}
    /\ task = [t \in Tasks |-> IdleTask]
    /\ proj = Idle
    /\ shown = 0 /\ report = "none" /\ failures = 0

WorkerNext == IngestEvent \/ IngestProgress \/ \E a \in Artifacts : ArtifactGrant(a) \/ Upload(a)

WorldNext ==
    \/ RequestCancel \/ LeaseLapses \/ ChangeRegistry \/ Fence
    \/ \E a \in Artifacts : GrantLapses(a) \/ StagingAges(a)

HandlerNext(h) ==
    CompleteCall(h) \/ VerifyObject(h) \/ RecordVerified(h) \/ AcceptTerminal(h)

PromoteNext(t) == PromoteHead(t) \/ PromoteCopy(t) \/ PromoteDelete(t) \/ MarkPromoted(t)

MaintenanceNext ==
    MaintenanceTick \/ ListReapable \/ ReapObject \/ MarkReaped \/ MaintenanceDone

TickNext ==
    \/ FetchEvents \/ CheckEvent \/ ReportEvent \/ MarkEvent \/ FetchProgress
    \/ CheckProgress \/ ReportProgress \/ MarkProgress \/ TickDone

FailureNext == TickFails \/ ReapFails \/ Crash \/ \E t \in Tasks : TaskFails(t)

Next ==
    \/ WorkerNext \/ WorldNext \/ MaintenanceNext \/ TickNext \/ Expire \/ FailureNext
    \/ \E h \in Handlers : HandlerNext(h)
    \/ \E t \in Tasks : PromoteNext(t)

Spec == Init /\ [][Next]_vars

-----------------------------------------------------------------------------
(* Properties.                                                             *)

TaskRow == [pc : {"idle", "verify", "record", "promote", "copy", "delete", "list",
                  "reap", "reaped"},
            todo : SUBSET Artifacts, art : Artifacts \cup {None}]

TypeOK ==
    /\ request \in Requests
    /\ status \in ActiveStatus \cup TerminalStatus \cup LostStatus
    /\ live \in BOOLEAN /\ authorized \in BOOLEAN
    /\ event \in [1 .. MaxSeq -> RowStatus]
    /\ contiguous \in 0 .. MaxSeq /\ projected \in 0 .. MaxSeq
    /\ progress \in [Progress -> RowStatus]
    /\ staging \in [Artifacts -> StagingStatus]
    /\ grant \in [Artifacts -> GrantState]
    /\ aged \in SUBSET Artifacts /\ staged \in SUBSET Artifacts
    /\ visible \in SUBSET Artifacts
    /\ task \in [Tasks -> TaskRow]
    /\ proj \in [pc : {"idle", "event", "report", "mark", "fetch", "progress",
                       "progress_report", "progress_mark"},
                 item : (0 .. MaxSeq) \cup Progress, batch : SUBSET Progress]
    /\ proj.pc \in {"event", "report", "mark"} => proj.item \in 1 .. MaxSeq
    /\ proj.pc \in {"progress_report", "progress_mark"} => proj.item \in Progress
    /\ shown \in 0 .. MaxSeq /\ report \in {"none", "running", "terminal"}
    /\ failures \in 0 .. MaxFailures

\* The acknowledgement the worker gets (it then forgets the events) covers only
\* events that are stored, in whatever order they came.
AcknowledgedIsStored == \A n \in 1 .. contiguous : event[n] # "absent"

\* An event the store calls projected was reported (coordinator.rs acknowledges
\* after the report, across failures, restarts and the fencing that discards
\* the rest), and the position never runs ahead of the reports of an attempt
\* that still speaks for its job.
AcknowledgedWasReported ==
    /\ \A n \in 1 .. MaxSeq : event[n] = "projected" => n <= shown
    /\ ~Lost => projected <= shown /\ shown <= projected + 1

\* A terminal report links to artifacts that can be downloaded: it is made
\* only of an accepted outcome with every listed artifact under its logical
\* key, and it is made after every other reliable event.
TerminalReportComplete ==
    shown = request.last => Terminal /\ request.manifest \subseteq visible

\* No artifact of an attempt that was not accepted, and none that its manifest
\* does not list, ever appears under a logical key.
OnlyAcceptedVisible ==
    \A a \in visible : Terminal /\ a \in request.manifest

\* Acceptance promises the listed artifacts: whatever promotions, retries and
\* the reaper do, each is still staged or already visible.
ListedArtifactsKept ==
    Terminal => request.manifest \subseteq staged \cup visible

\* What ReportChannel promises, with a call in flight from the recheck to the
\* provider's answer.
Channel == INSTANCE ReportChannel WITH
    known <- contiguous, shown <- shown, open <- Authoritative,
    sending <- IF proj.pc = "report" THEN proj.item ELSE 0

\* The reports of an attempt are those of a channel that shows its events in
\* order and goes silent, but for one call in flight, when it loses authority.
ReportsInOrder == Channel!ChanSpec

\* What the surface's contract says: one of completed, failed, cancelled ends
\* the report.
TerminalReportIsLast == [][report = "terminal" => report' = "terminal"]_report
-----------------------------------------------------------------------------
(* The inductive invariant.                                                *)

\* Event rows, position and projector: the row in hand is the next one unless
\* the attempt was lost meanwhile, and then the position is past it.
EventsConsistent ==
    /\ AcknowledgedIsStored
    /\ AcknowledgedWasReported
    /\ projected <= contiguous /\ contiguous <= MaxSeq
    /\ Lost => projected = contiguous
    /\ proj.pc \in {"event", "report", "mark"} =>
         /\ shown <= proj.item /\ proj.item <= contiguous
         /\ ~Lost => proj.item = projected + 1
    /\ proj.pc = "mark" => shown = proj.item

\* Rows against objects: what the queries of accept_terminal, of the terminal
\* outcome and of the reaper may conclude from the rows alone.
RowsMatchObjects ==
    /\ Active => Verified \subseteq staged
    /\ Terminal => \A a \in request.manifest : staging[a] \in {"verified", "promoted"}
    /\ \A a \in Artifacts : staging[a] = "promoted" => a \in visible

\* What a process in the middle of its work may rely on.
TaskKnows(t) ==
    LET r == task[t] IN
    /\ r.pc \in {"verify", "record"} => r.todo \subseteq request.manifest
    /\ r.pc = "record" => r.art \in r.todo /\ (Active => r.art \in staged)
    /\ r.pc \in {"promote", "copy", "delete"} =>
         Terminal /\ r.todo \subseteq request.manifest
                  /\ request.manifest \ r.todo \subseteq visible
    /\ r.pc \in {"copy", "delete"} => r.art \in r.todo
    /\ r.pc = "delete" => r.art \in visible
    /\ r.pc \in {"reap", "reaped"} => \A a \in r.todo : Reapable(a)

ArtifactsConsistent ==
    /\ OnlyAcceptedVisible
    /\ ListedArtifactsKept
    /\ RowsMatchObjects
    /\ \A t \in Tasks : TaskKnows(t)

\* A terminal report on its way is one that may be made.
TerminalConsistent ==
    /\ TerminalReportComplete
    /\ proj.pc \in {"report", "mark"} /\ proj.item = request.last =>
         Terminal /\ request.manifest \subseteq visible
=============================================================================
