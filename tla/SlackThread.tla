----------------------------- MODULE SlackThread -----------------------------
(***************************************************************************)
(* One Slack request and the one message that reports on it.  A delivery   *)
(* of the mention posts a queued snapshot and submits the task; the fleet  *)
(* coordinator then projects queue positions, events and progress into the *)
(* same message, through a publisher of its own, until the submission ends.*)
(*                                                                         *)
(* A Slack call can fail, or succeed and lose its answer; the daemon can   *)
(* restart, and Slack can deliver the mention twice.                       *)
(***************************************************************************)
EXTENDS Integers, Sequences, FiniteSets

CONSTANTS
    None,
    Handlers,      \* deliveries of the mention
    Overlap,       \* whether two deliveries may be handled at once
    Runs,          \* jobs the submission plans, one after the other
    Positions,     \* queue positions the first job goes through
    MaxProgress,   \* bound: progress updates of a run
    SubmitFaults,  \* "before": nothing was stored; "after": only the answer was lost
    MaxFaults,     \* bound: Slack calls, submissions and attempts that fail
    MaxCrashes,    \* bound: daemon restarts
    Stride         \* RUN_VERSION_STRIDE

CountAssumption == Runs \in Nat \ {0} /\ MaxProgress \in Nat /\ MaxFaults \in Nat
                          /\ MaxCrashes \in Nat /\ Stride \in Nat \ {0} /\ Overlap \in BOOLEAN

VARIABLES
    thread,        \* our messages in the thread, by ts
    store,         \* the submission: report_message_ts and its jobs
    handler,       \* deliveries in progress
    pub,           \* publishers: one per delivery, one per session
    view,          \* the session's view, or None
    ops,           \* publications under way
    co,            \* what the coordinator waits for
    surfaces,      \* runs whose surface the coordinator holds
    position,      \* jobs ahead, and the last position shown
    faults, crashes

vars == <<thread, store, handler, pub, view, ops, co, surfaces, position, faults, crashes>>

Session == "session"
Publishers == Handlers \cup {Session}
Slots == {"call", "flush", "orphan"}
RunIds == 0..(Runs - 1)
Events == <<"accepted", "build", "terminal">>
Terminals == {"completed", "failed", "cancelled"}

-----------------------------------------------------------------------------
(* The submission, as the store sees it.                                   *)

NoRun == [status |-> "none", marked |-> 0, progress |-> 0, shown |-> 0]
Job(r) == store.runs[r]
Submitted == Job(0).status # "none"

\* submission_report: the lifecycle over all the planned jobs.
lifecycle ==
    LET failed == {r \in RunIds : Job(r).status \in {"failed", "cancelled"}}
    IN  IF failed # {} THEN Job(CHOOSE r \in failed : TRUE).status
        ELSE IF \A r \in RunIds : Job(r).status = "completed" THEN "completed"
        ELSE "running"

\* report_projection_seed counts what this attempt has already shown.
mutation_count(r) == (IF Job(r).marked > 2 THEN 2 ELSE Job(r).marked) + Job(r).shown

-----------------------------------------------------------------------------
(* Views and their rendering.                                              *)

run_version_base(r) == (r + 1) * Stride

\* A view has one line below its status: a phase, a queue position or a progress
\* bar, each of which replaces the others.
Line(what, n) == [what |-> what, n |-> n]
Blank == Line("", 0)
queued(version) == [ver |-> version, run |-> 0, status |-> "queued", line |-> Line("waiting", 0)]
initial_view(r) == [queued(run_version_base(r)) EXCEPT !.run = r]

\* Everything of a view but its version.
render_snapshot(v) == <<v.status, v.run, v.line>>

\* What each projected event makes of the view.
Started(v, r) == [initial_view(r) EXCEPT !.status = "preparing", !.line = Line("preparing", 0)]
Phase(v, label) == [v EXCEPT !.status = "running", !.line = Line(label, 0)]
Progress(v, n) == [v EXCEPT !.status = "running", !.line = Line("progress", n)]
Completed(v) ==
    IF lifecycle = "completed"
    THEN [v EXCEPT !.status = "completed", !.line = Blank]
    ELSE [v EXCEPT !.status = "queued", !.line = Line("scheduling next run", 0)]
Ended(v, status) == [v EXCEPT !.status = status, !.line = Blank]

\* restore rebuilds the view after a restart from the last mutation shown.
restore(r) ==
    LET v == [initial_view(r) EXCEPT !.ver = run_version_base(r) + mutation_count(r)]
    IN  IF mutation_count(r) = 0 THEN initial_view(r)
        ELSE IF Job(r).shown > 0
        THEN Progress(v, Job(r).shown)
        ELSE IF Job(r).marked = 1
        THEN [v EXCEPT !.status = "preparing", !.line = Line("preparing", 0)]
        ELSE Phase(v, Events[2])

-----------------------------------------------------------------------------
(* The publisher.                                                          *)

NewPublisher(ts) == [ts |-> ts, last |-> None, text |-> None, pending |-> None, recent |-> FALSE]

\* publish: what it does to the publisher's state, and whether it must apply.
Stale(p, v) == pub[p].last # None /\ v.ver <= pub[p].last

PublishResult(state, v, urgent) ==
    CASE state.last # None /\ v.ver <= state.last -> [state |-> state, apply |-> FALSE]
      [] ~(state.last # None /\ v.ver <= state.last) /\ state.text = render_snapshot(v) ->
           [state |-> [state EXCEPT !.last = v.ver], apply |-> FALSE]
      [] OTHER ->
           IF ~urgent /\ state.recent
           THEN [state |-> [state EXCEPT !.pending = IF @ = None \/ v.ver > @.ver THEN v ELSE @],
                 apply |-> FALSE]
           ELSE [state |-> [state EXCEPT !.pending = None], apply |-> TRUE]

Op(v) == [step |-> "wait", view |-> v, plan |-> None, ok |-> FALSE]
NoOp == [step |-> "none", view |-> None, plan |-> None, ok |-> FALSE]
Result(ok) == [NoOp EXCEPT !.step = "done", !.ok = ok]

publish(p, state, v, urgent) ==
    LET r == PublishResult(state, v, urgent)
    IN  /\ pub' = [pub EXCEPT ![p] = r.state]
        /\ ops' = [ops EXCEPT ![p]["call"] = IF r.apply THEN Op(v) ELSE Result(TRUE)]

\* The timer of the newest debounced view.
flush_pending ==
    /\ pub[Session] # None /\ pub[Session].pending # None /\ ~pub[Session].recent
    /\ ops[Session]["flush"].step = "none"
    /\ ops' = [ops EXCEPT ![Session]["flush"] = Op(pub[Session].pending)]
    /\ pub' = [pub EXCEPT ![Session].pending = None]
    /\ UNCHANGED <<thread, store, handler, view, co, surfaces, position, faults, crashes>>

IntervalPasses ==
    /\ pub[Session] # None /\ pub[Session].recent
    /\ pub' = [pub EXCEPT ![Session].recent = FALSE]
    /\ UNCHANGED <<thread, store, handler, view, ops, co, surfaces, position, faults, crashes>>

\* A flush has nobody to tell.
Finish(p, o, ok) ==
    ops' = [ops EXCEPT ![p][o] = IF o = "call" THEN Result(ok) ELSE NoOp]
Goto(p, o, step, plan) ==
    ops' = [ops EXCEPT ![p][o].step = step, ![p][o].plan = plan]

\* apply, under its lock: the version is looked at again before anything is sent.
StaleAgain(p, v) == Stale(p, v)

apply(p, o) ==
    LET v == ops[p][o].view
    IN  /\ ops[p][o].step = "wait"
        /\ \A other \in {"call", "flush"} \ {o} : ops[p][other].step \in {"none", "wait", "done"}
        /\ IF StaleAgain(p, v) THEN Finish(p, o, TRUE)
           ELSE IF pub[p].ts # None /\ pub[p].last # None
           THEN Goto(p, o, "write", [kind |-> "update", ts |-> pub[p].ts, ver |-> v.ver])
           ELSE Goto(p, o, "look", None)
        /\ UNCHANGED <<thread, store, handler, pub, view, co, surfaces, position, faults, crashes>>

\* What is done about one message found in the thread.
reconcile_found(expected, ts, v) ==
    LET found == thread[ts]
        adopt == [kind |-> "adopt", ts |-> ts, ver |-> found.ver]
    IN  IF expected # None /\ expected # ts THEN None
        ELSE IF found.ver < v.ver THEN [kind |-> "update", ts |-> ts, ver |-> v.ver]
        ELSE IF found.ver = v.ver THEN IF found.text = render_snapshot(v) THEN adopt ELSE None
        ELSE IF expected # None /\ found.text # render_snapshot(v)
        THEN [kind |-> "update", ts |-> ts, ver |-> found.ver + 1]
        ELSE adopt

\* reconcile_or_create, after the search: None is a refusal.
reconcile_or_create(p, v) ==
    IF thread = <<>> /\ pub[p].ts = None
    THEN [kind |-> "post", ts |-> Len(thread) + 1, ver |-> v.ver]
    ELSE IF thread = <<>> THEN [kind |-> "update", ts |-> pub[p].ts, ver |-> v.ver]
    ELSE IF Len(thread) = 1 THEN reconcile_found(pub[p].ts, 1, v)
    ELSE None

Look(p, o) ==
    /\ ops[p][o].step = "look"
    /\ LET plan == reconcile_or_create(p, ops[p][o].view)
       IN  IF plan = None THEN Finish(p, o, FALSE) ELSE Goto(p, o, "write", plan)
    /\ UNCHANGED <<thread, store, handler, pub, view, co, surfaces, position, faults, crashes>>

\* The call as Slack carries it out; adopting sends nothing.
Written(plan, text) ==
    CASE plan.kind = "post"   -> Append(thread, [ver |-> plan.ver, text |-> text])
      [] plan.kind = "update" -> [thread EXCEPT ![plan.ts] = [ver |-> plan.ver, text |-> text]]
      [] plan.kind = "adopt"  -> thread

Write(p, o) ==
    LET plan == ops[p][o].plan
        posted == [plan EXCEPT !.ts = IF plan.kind = "post" THEN Len(thread) + 1 ELSE @]
    IN  /\ ops[p][o].step = "write"
        /\ thread' = Written(plan, render_snapshot(ops[p][o].view))
        /\ Goto(p, o, "persist", posted)
        /\ UNCHANGED <<store, handler, pub, view, co, surfaces, position, faults, crashes>>

\* The session stores a timestamp it did not start with; then the state moves on.
record_plan_message_ts(ts) == [store EXCEPT !.ts = ts]
Persist(p, ts) ==
    store' = IF p = Session /\ pub[p].ts = None THEN record_plan_message_ts(ts) ELSE store

Applied(p, o) ==
    LET plan == ops[p][o].plan
        text == IF plan.kind = "adopt" THEN thread[plan.ts].text ELSE render_snapshot(ops[p][o].view)
    IN  /\ ops[p][o].step = "persist"
        /\ IF o = "orphan" THEN UNCHANGED store ELSE Persist(p, plan.ts)
        /\ pub' = IF o # "orphan" /\ (pub[p].last = None \/ plan.ver > pub[p].last)
                  THEN [pub EXCEPT ![p].ts = plan.ts, ![p].last = plan.ver, ![p].text = text,
                                   ![p].recent = TRUE]
                  ELSE pub
        /\ Finish(p, o, TRUE)
        /\ UNCHANGED <<thread, handler, view, co, surfaces, position, faults, crashes>>

\* The search or the call fails, its answer is lost, or the timestamp cannot be stored.
CallFails(p, o) ==
    /\ faults < MaxFaults
    /\ ops[p][o].step \in {"look", "write", "persist"}
    /\ faults' = faults + 1
    /\ Finish(p, o, FALSE)
    /\ UNCHANGED <<thread, store, handler, pub, view, co, surfaces, position, crashes>>

-----------------------------------------------------------------------------
(* A delivery of the mention.                                              *)

Quiet(h) == handler[h] \in {"none", "done"}
Enter(h, pc) == handler' = [handler EXCEPT ![h] = pc]

\* spawn_dispatch: Slack is acknowledged at once and the mention handled apart.
spawn_dispatch(h) ==
    /\ handler[h] = "none"
    /\ Overlap \/ \A other \in Handlers : Quiet(other)
    /\ Enter(h, "resolving")
    /\ UNCHANGED <<thread, store, pub, view, ops, co, surfaces, position, faults, crashes>>

\* Nothing was posted, nothing is stored.
reject(h) == Enter(h, "done") /\ UNCHANGED <<pub, ops>>

\* The queued snapshot goes out before the task exists.
post_queued_snapshot(h) ==
    Enter(h, "posting") /\ publish(h, NewPublisher(None), queued(0), TRUE)

\* A mention asks for a benchmark; who asks, what for and how much decide whether
\* it is rejected.
handle_mention(h) ==
    /\ handler[h] = "resolving"
    /\ reject(h) \/ post_queued_snapshot(h)
    /\ UNCHANGED <<thread, store, view, co, surfaces, position, faults, crashes>>

\* Or for a block validation, which has its own authorization.
handle_block_validation(h) ==
    /\ handler[h] = "resolving"
    /\ reject(h) \/ post_queued_snapshot(h)
    /\ UNCHANGED <<thread, store, view, co, surfaces, position, faults, crashes>>

\* submit with whatever timestamp the publisher learned.  The producer key is
\* the request's identity, so a second submission finds the first.
Submission(ts) ==
    IF Submitted THEN store
    ELSE [store EXCEPT !.ts = ts, !.runs[0].status = "queued"]

submit(h) ==
    /\ handler[h] = "posting" /\ ops[h]["call"].step = "done"
    /\ \/ /\ store' = Submission(pub[h].ts)
          /\ Enter(h, "done")
          /\ ops' = [ops EXCEPT ![h]["call"] = NoOp]
          /\ UNCHANGED faults
       \/ /\ faults < MaxFaults
          /\ faults' = faults + 1
          /\ \E f \in SubmitFaults : store' = IF f = "after" THEN Submission(pub[h].ts) ELSE store
          /\ Enter(h, "failing")
          /\ ops' = [ops EXCEPT ![h]["call"] = NoOp]
    /\ UNCHANGED <<thread, pub, view, co, surfaces, position, crashes>>

\* The queued snapshot becomes a visible failure.
fail_queued_snapshot(h) ==
    /\ handler[h] = "failing"
    /\ \/ /\ ops[h]["call"].step = "none"
          /\ publish(h, pub[h], [queued(1) EXCEPT !.status = "failed", !.line = Line("not enqueued", 0)], TRUE)
          /\ UNCHANGED handler
       \/ /\ ops[h]["call"].step = "done"
          /\ ops' = [ops EXCEPT ![h]["call"] = NoOp]
          /\ Enter(h, "done")
          /\ UNCHANGED pub
    /\ UNCHANGED <<thread, store, view, co, surfaces, position, faults, crashes>>

-----------------------------------------------------------------------------
(* The coordinator: one task, one publication at a time.                   *)

\* A tick visits at most one event of each attempt, then the latest progress of
\* those that no failure blocked; "doing" is what it waits for.
Idle == [stage |-> "tick", todo |-> {}, blocked |-> {}, doing |-> "none", run |-> 0]
Doing(doing, r) == co' = [co EXCEPT !.doing = doing, !.run = r, !.todo = @ \ {r}]

\* get_or_create: the session outlives surfaces and is keyed by the submission.
latest_plan_message_ts == store.ts
SessionState == IF pub[Session] = None THEN NewPublisher(latest_plan_message_ts) ELSE pub[Session]
SessionView(r) == IF view = None THEN initial_view(r) ELSE view

\* try_mutate: the version always moves past the one before.
try_mutate(before, after, urgent) ==
    LET v == [after EXCEPT !.ver = (IF after.ver > before.ver THEN after.ver ELSE before.ver) + 1]
    IN  view' = v /\ publish(Session, SessionState, v, urgent)

\* The first job's place in the queue; a view that left the queue is not touched.
update_slack_queue_positions ==
    /\ co = Idle /\ Job(0).status = "queued"
    /\ position.shown # position.ahead
    /\ LET v == SessionView(0)
       IN  IF v.status = "queued"
           THEN /\ try_mutate(v, [v EXCEPT !.line = Line("ahead", position.ahead)], TRUE)
                /\ Doing("position", 0)
                /\ UNCHANGED position
           ELSE /\ pub' = [pub EXCEPT ![Session] = SessionState] /\ view' = v
                /\ position' = [position EXCEPT !.shown = position.ahead]
                /\ UNCHANGED <<ops, co>>
    /\ UNCHANGED <<thread, store, handler, surfaces, faults, crashes>>

\* surface: a run without one resumes from what it has shown before.
Surface(r) == IF r \in surfaces \/ mutation_count(r) = 0 THEN SessionView(r) ELSE restore(r)

\* plan_next_repeat comes before the report of a completed run.
plan_next_repeat(r) ==
    IF Job(r).status = "completed" /\ r + 1 \in RunIds /\ Job(r + 1).status = "none"
    THEN [store EXCEPT !.runs[r + 1].status = "queued"] ELSE store

fleet_reporting_ready == latest_plan_message_ts # None
Projected(r, v) ==
    CASE Events[Job(r).marked + 1] = "accepted" -> Started(v, r)
      [] Events[Job(r).marked + 1] = "build"    -> Phase(v, "build")
      [] Events[Job(r).marked + 1] = "terminal" ->
           IF Job(r).status = "completed" THEN Completed(v) ELSE Ended(v, Job(r).status)

EventPending(r) == \/ Job(r).status = "running" /\ Job(r).marked < 2
                   \/ Job(r).status \in Terminals /\ Job(r).marked < 3
ProgressPending(r) == Job(r).status \in {"running"} \cup Terminals /\ Job(r).shown < Job(r).progress

project_events ==
    /\ co = Idle
    /\ \E r \in RunIds : EventPending(r) \/ ProgressPending(r)
    /\ co' = [co EXCEPT !.stage = "events", !.todo = {r \in RunIds : EventPending(r)}]
    /\ UNCHANGED <<thread, store, handler, pub, view, ops, surfaces, position, faults, crashes>>

\* The events are through, and then the progress.
NextStage ==
    /\ co # Idle /\ co.doing = "none" /\ co.todo = {}
    /\ co' = IF co.stage = "events"
             THEN [co EXCEPT !.stage = "progress", !.todo = {r \in RunIds \ co.blocked : ProgressPending(r)}]
             ELSE Idle
    /\ UNCHANGED <<thread, store, handler, pub, view, ops, surfaces, position, faults, crashes>>

\* Rows come in the order they were received, which is the order of the runs.
Visit(stage, r) ==
    /\ co.stage = stage /\ co.doing = "none" /\ r \in co.todo
    /\ \A other \in co.todo : r <= other
    /\ fleet_reporting_ready

project_event(r) ==
    /\ Visit("events", r)
    /\ LET v == Surface(r) IN try_mutate(v, Projected(r, v), TRUE)
    /\ surfaces' = surfaces \cup {r}
    /\ store' = IF Job(r).marked = 2 THEN plan_next_repeat(r) ELSE store
    /\ Doing("event", r)
    /\ UNCHANGED <<thread, handler, position, faults, crashes>>

project_progress(r) ==
    /\ Visit("progress", r)
    /\ LET v == Surface(r) IN try_mutate(v, Progress(v, Job(r).shown + 1), FALSE)
    /\ surfaces' = surfaces \cup {r}
    /\ Doing("progress", r)
    /\ UNCHANGED <<thread, store, handler, position, faults, crashes>>

\* terminal() reaps the session; the surface of the attempt goes with it.  A flush
\* still waiting for the old publisher is stale, one already sent goes on alone.
Reaped(r) == Job(r).marked = 2 /\ (Job(r).status # "completed" \/ lifecycle = "completed")
Reap == LET flush == ops[Session]["flush"]
        IN  /\ pub' = [pub EXCEPT ![Session] = None] /\ view' = None
            /\ ops' = [ops EXCEPT ![Session] = [call |-> NoOp, flush |-> NoOp,
                         orphan |-> IF flush.step \in {"none", "wait"} THEN @["orphan"] ELSE flush]]

\* The publication is over: what was shown is acknowledged, or stays pending.
MutAcknowledge(ok) == TRUE
Acknowledge(ok) == ok

Release(ok) ==
    IF co.doing = "position" THEN Idle
    ELSE [co EXCEPT !.doing = "none", !.run = 0, !.blocked = IF ok THEN @ ELSE @ \cup {co.run}]

Projection ==
    LET r == co.run  ok == Acknowledge(ops[Session]["call"].ok)
    IN  /\ co.doing # "none" /\ ops[Session]["call"].step = "done"
        /\ co' = Release(ok)
        /\ position' = IF ok /\ co.doing = "position" THEN [position EXCEPT !.shown = position.ahead] ELSE position
        /\ store' = CASE ok /\ co.doing = "event"    -> [store EXCEPT !.runs[r].marked = @ + 1]
                      [] ok /\ co.doing = "progress" -> [store EXCEPT !.runs[r].shown = @ + 1]
                      [] OTHER                       -> store
        /\ surfaces' = IF ok /\ co.doing = "event" /\ Job(r).marked = 2 THEN surfaces \ {r} ELSE surfaces
        /\ IF ok /\ co.doing = "event" /\ Reaped(r) THEN Reap
           ELSE ops' = [ops EXCEPT ![Session]["call"] = NoOp] /\ UNCHANGED <<pub, view>>
        /\ UNCHANGED <<thread, handler, faults, crashes>>

\* A job that was never given a message fails its admission.
expire_unreported_slack_jobs ==
    /\ co = Idle /\ Job(0).status = "queued" /\ store.ts = None
    /\ store' = [store EXCEPT !.runs[0].status = "expired"]
    /\ UNCHANGED <<thread, handler, pub, view, ops, co, surfaces, position, faults, crashes>>

\* Sessions of submissions with nothing queued or running go after five idle minutes,
\* and a pending event touches its session at every tick.
sweep_abandoned ==
    /\ co = Idle /\ view # None
    /\ \A r \in RunIds : /\ Job(r).status \notin {"queued", "running"}
                         /\ Job(r).status \in Terminals => Job(r).marked = 3 /\ Job(r).shown = Job(r).progress
    /\ \A o \in Slots : ops[Session][o].step = "none"
    /\ pub[Session].pending = None /\ ~pub[Session].recent
    /\ surfaces = {}
    /\ pub' = [pub EXCEPT ![Session] = None] /\ view' = None
    /\ UNCHANGED <<thread, store, handler, ops, co, surfaces, position, faults, crashes>>

-----------------------------------------------------------------------------
(* The fleet, and time.                                                    *)

QueueMoves ==
    /\ position.ahead > 1 /\ Job(0).status = "queued"
    /\ position' = [position EXCEPT !.ahead = @ - 1]
    /\ UNCHANGED <<thread, store, handler, pub, view, ops, co, surfaces, faults, crashes>>

\* poll_offer takes no Slack job before its message is durable.
Claim(r) ==
    /\ Job(r).status = "queued" /\ store.ts # None
    /\ store' = [store EXCEPT !.runs[r].status = "running"]
    /\ UNCHANGED <<thread, handler, pub, view, ops, co, surfaces, position, faults, crashes>>

Report(r) ==
    /\ Job(r).status = "running"
    /\ \/ /\ Job(r).progress < MaxProgress
          /\ store' = [store EXCEPT !.runs[r].progress = @ + 1]
       \/ /\ \E t \in Terminals : store' = [store EXCEPT !.runs[r].status = t]
    /\ UNCHANGED <<thread, handler, pub, view, ops, co, surfaces, position, faults, crashes>>

\* The attempt is lost and its job queued again; a new attempt has shown nothing.
LoseAttempt(r) ==
    /\ co = Idle      \* expiry runs on the coordinator's task
    /\ Job(r).status = "running" /\ faults < MaxFaults
    /\ faults' = faults + 1
    /\ store' = [store EXCEPT !.runs[r] = [NoRun EXCEPT !.status = "queued"]]
    /\ surfaces' = surfaces \ {r}
    /\ position' = [position EXCEPT !.shown = None]
    /\ UNCHANGED <<thread, handler, pub, view, ops, co, crashes>>

Restart ==
    /\ crashes < MaxCrashes /\ crashes' = crashes + 1
    /\ handler' = [h \in Handlers |-> IF handler[h] = "none" THEN "none" ELSE "done"]
    /\ pub' = [p \in Publishers |-> None]
    /\ ops' = [p \in Publishers |-> [o \in Slots |-> NoOp]]
    /\ view' = None /\ co' = Idle /\ surfaces' = {}
    /\ position' = [position EXCEPT !.shown = None]
    /\ UNCHANGED <<thread, store, faults>>

-----------------------------------------------------------------------------
Init ==
    /\ thread = <<>>
    /\ store = [ts |-> None, runs |-> [r \in RunIds |-> NoRun]]
    /\ handler = [h \in Handlers |-> "none"]
    /\ pub = [p \in Publishers |-> None]
    /\ ops = [p \in Publishers |-> [o \in Slots |-> NoOp]]
    /\ view = None /\ co = Idle /\ surfaces = {}
    /\ position = [ahead |-> Positions, shown |-> None]
    /\ faults = 0 /\ crashes = 0

Publishing ==
    \/ \E p \in Publishers, o \in Slots :
         apply(p, o) \/ Look(p, o) \/ Write(p, o) \/ Applied(p, o)
    \/ flush_pending

Coordinator ==
    \/ update_slack_queue_positions \/ project_events \/ NextStage \/ Projection
    \/ \E r \in RunIds : project_event(r) \/ project_progress(r)

Delivery == \E h \in Handlers :
    \/ spawn_dispatch(h) \/ handle_mention(h) \/ handle_block_validation(h)
    \/ submit(h) \/ fail_queued_snapshot(h)

Next ==
    \/ Publishing \/ Coordinator \/ Delivery
    \/ \E p \in Publishers, o \in Slots : CallFails(p, o)
    \/ expire_unreported_slack_jobs \/ sweep_abandoned \/ IntervalPasses \/ QueueMoves
    \/ \E r \in RunIds : Claim(r) \/ Report(r) \/ LoseAttempt(r)
    \/ Restart

Spec == Init /\ [][Next]_vars

-----------------------------------------------------------------------------
(* Properties.                                                             *)

\* A thread never holds two reports, whatever answers were lost or repeated
\* deliveries followed each other (reconcile_or_create searches before it posts).
OneMessage == Len(thread) <= 1

\* Work runs only when its report has a durable identity, and that identity is
\* a message that exists, which outcomes need as well as live state.
RunnableIsReported ==
    (\E r \in RunIds : Job(r).status \in {"running"} \cup Terminals)
        => store.ts \in 1..Len(thread)

\* The version number in the message's metadata is a fence: no late publication,
\* flushed progress or adopted snapshot takes it back (snapshot.rs:609).  It orders
\* publications, not the progress of the job they tell of.
VersionsGrow ==
    \A i \in 1..Len(thread) : thread'[i].ver >= thread[i].ver

\* Every outcome is acknowledged, and the message shows how the submission ended.
Settled ==
    /\ Submitted /\ lifecycle # "running"
    /\ \A r \in RunIds : Job(r).status # "none" => Job(r).status \in Terminals /\ Job(r).marked = 3
EndShown == thread[store.ts].text[1] = lifecycle

\* "The fleet projector only acknowledges durable input after the external
\* snapshot converges" (report.rs:15): the step that acknowledges the last outcome
\* finds the end of the submission in the message, and nothing replaces it there
\* later but progress the outcome overtook, which a fresh publisher shows with a
\* version of its own (snapshot.rs:597-607).
AcknowledgedShown ==
    /\ ~Settled /\ Settled' => EndShown'
    /\ Settled /\ EndShown /\ ~EndShown' => thread'[store'.ts].text[3].what = "progress"
=============================================================================
