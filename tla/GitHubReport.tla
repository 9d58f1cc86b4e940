---------------------------- MODULE GitHubReport ----------------------------
(***************************************************************************)
(* The GitHub report of one submission: a PR comment and a Check Run,      *)
(* created or found again while its jobs wait, and written by the fleet    *)
(* coordinator as events are projected.                                    *)
(*                                                                         *)
(* Every call to GitHub or the store can fail, or take effect and lose its *)
(* answer; the daemon can restart; the pull request's head can move.       *)
(***************************************************************************)
EXTENDS Integers, Sequences

CONSTANTS
    None,
    PullRequest,   \* whether the jobs belong to a pull request or to a commit
    Wants,         \* the parts of the report that are configured
    Runs,          \* jobs the submission plans, one after the other
    MaxProgress,   \* bound: progress updates of a run
    MaxMoves,      \* bound: pushes to the pull request
    MaxFaults,     \* bound: failed calls and lost attempts
    MaxCrashes     \* bound: daemon restarts

Parts == {"comment", "check"}

GitHubAssumption ==
    /\ PullRequest \in BOOLEAN /\ Wants \subseteq Parts /\ (PullRequest \/ Wants \subseteq {"check"})
    /\ Runs \in Nat \ {0} /\ MaxProgress \in Nat /\ MaxMoves \in Nat
    /\ MaxFaults \in Nat /\ MaxCrashes \in Nat

VARIABLES
    posted,     \* our objects on GitHub, by part
    store,      \* the stored identities, the frozen commit and the jobs
    app,        \* whether the App's id is cached
    surfaces,   \* the surface of each run's attempt, with the identities it was built with
    co,         \* the coordinator's task
    paused,     \* the scheduler is paused
    head,       \* the pull request's head
    faults, crashes

vars == <<posted, store, app, surfaces, co, paused, head, faults, crashes>>

RunIds == 0..(Runs - 1)
Terminals == {"completed", "failed", "cancelled"}
NoRun == [status |-> "none", prepared |-> FALSE, marked |-> 0, progress |-> 0, shown |-> 0]
Job(r) == store.runs[r]
NoIds == [p \in Parts |-> None]

\* A call is answered, refused, or carried out without an answer.
Answers == {"ok", "refused", "lost"}
Answered(a) ==
    \/ a = "ok" /\ UNCHANGED faults
    \/ a # "ok" /\ faults < MaxFaults /\ faults' = faults + 1

\* What a comment or a check says: the check's state, the text, and the merge base
\* of the comparison in it.
Content(state, text, base) == [state |-> state, text |-> text, base |-> base]

lifecycle ==
    LET ended == {r \in RunIds : Job(r).status \in {"failed", "cancelled"}}
    IN  IF ended # {} THEN Job(CHOOSE r \in ended : TRUE).status
        ELSE IF \A r \in RunIds : Job(r).status = "completed" THEN "completed"
        ELSE "running"

-----------------------------------------------------------------------------
(* The identities of the report.                                           *)

Idle == [pc |-> <<"idle">>, for |-> "none", run |-> 0, ids |-> NoIds, found |-> FALSE,
         body |-> NoIds, err |-> FALSE, stage |-> "tick", todo |-> {}, blocked |-> {}]

\* submission_github_report_identity, as a job is loaded.
StoredIds == [p \in Parts |-> store[p]]
Needs(ids, p) == p \in Wants /\ ids[p] = None
fleet_reporting_ready(ids) == \A p \in Parts : ~Needs(ids, p)

\* ensure_reporting: the check first, then the comment that links to it.
Ensure(p, ids) ==
    IF p = "check" /\ Needs(ids, "check") THEN <<"app", "check">>
    ELSE IF p # "none" /\ Needs(ids, "comment") THEN <<"app", "comment">>
    ELSE <<"ensured">>
After(p) == IF p = "check" THEN "comment" ELSE "none"
At(step, p) == co.pc = <<step, p>>
Go(pc) == co' = [co EXCEPT !.pc = pc]
GiveUp(p) == Go(Ensure(After(p), co.ids))

\* Without the App's id nothing is looked for, and nothing created.
resolved_app_id(p) ==
    /\ At("app", p)
    /\ IF app THEN Go(<<"find", p>>) /\ UNCHANGED <<app, faults>>
       ELSE \E a \in Answers :
              /\ Answered(a)
              /\ app' = (a = "ok")
              /\ IF a = "ok" THEN Go(<<"find", p>>) ELSE GiveUp(p)
    /\ UNCHANGED <<posted, store, surfaces, paused, head, crashes>>

\* Two comments with the marker are an error, of two checks the first is taken.
Ambiguous(p) == p = "comment" /\ Len(posted[p]) > 1

\* By external id, or by the marker line; a check needs its commit.
Find(p) ==
    /\ At("find", p)
    /\ IF p = "check" /\ store.commit = None THEN GiveUp(p) /\ UNCHANGED faults
       ELSE \E a \in Answers :
              /\ Answered(a)
              /\ IF a # "ok" \/ Ambiguous(p) THEN GiveUp(p)
                 ELSE IF posted[p] = <<>> THEN Go(<<"create", p>>)
                 ELSE co' = [co EXCEPT !.pc = <<"persist", p>>, !.ids[p] = 1, !.found = TRUE]
    /\ UNCHANGED <<posted, store, app, surfaces, paused, head, crashes>>

Create(p) ==
    /\ At("create", p)
    /\ \E a \in Answers :
         /\ Answered(a)
         /\ posted' = IF a = "refused" THEN posted
                      ELSE [posted EXCEPT ![p] = Append(@, Content("in progress", "starting", None))]
         /\ IF a # "ok" THEN GiveUp(p)
            ELSE co' = [co EXCEPT !.pc = <<"persist", p>>, !.ids[p] = Len(posted[p]) + 1, !.found = FALSE]
    /\ UNCHANGED <<store, app, surfaces, paused, head, crashes>>

\* An identity once stored is never replaced by another one; a failure to store
\* it is only logged.
record_submission(p) ==
    /\ At("persist", p)
    /\ \E a \in Answers :
         /\ Answered(a)
         /\ store' = IF a # "refused" /\ store[p] \in {None, co.ids[p]}
                     THEN [store EXCEPT ![p] = co.ids[p]] ELSE store
    /\ IF p = "comment" /\ co.found THEN Go(<<"refresh", p>>) ELSE GiveUp(p)
    /\ UNCHANGED <<posted, app, surfaces, paused, head, crashes>>

\* A comment found again says once more that the task is starting.
MutRefresh ==
    /\ At("refresh", "comment")
    /\ posted' = [p \in Parts |-> IF posted[p] = <<>> THEN <<>> ELSE <<Content("in progress", "starting", None)>>]
    /\ GiveUp("comment")
    /\ UNCHANGED <<store, app, surfaces, paused, head, faults, crashes>>
Refresh ==
    /\ At("refresh", "comment")
    /\ \E a \in Answers :
         /\ Answered(a)
         /\ posted' = IF a = "refused" THEN posted
                      ELSE [posted EXCEPT !["comment"][co.ids["comment"]] = Content("open", "starting", None)]
    /\ GiveUp("comment")
    /\ UNCHANGED <<store, app, surfaces, paused, head, crashes>>

-----------------------------------------------------------------------------
(* Preparing queued jobs.                                                  *)

\* prepare_job: a paused scheduler only sees to the report; otherwise the commit
\* is frozen first, from the head the pull request has now.
prepare_job(r) ==
    /\ co = Idle /\ Job(r).status = "queued"
    /\ ~Job(r).prepared \/ \E p \in Parts : Needs(StoredIds, p)
    /\ \E a \in Answers :
         /\ Answered(a)
         /\ \/ /\ paused
               /\ co' = [Idle EXCEPT !.pc = Ensure("check", StoredIds), !.for = "report", !.run = r, !.ids = StoredIds]
               /\ UNCHANGED store
            \/ /\ ~paused /\ a = "ok"
               /\ store' = [store EXCEPT !.commit = IF @ = None THEN head ELSE @]
               /\ co' = [Idle EXCEPT !.pc = Ensure("check", StoredIds), !.for = "prepare", !.run = r, !.ids = StoredIds]
            \/ /\ ~paused /\ a # "ok"
               /\ store' = IF a = "lost" /\ store.commit = None THEN [store EXCEPT !.commit = head] ELSE store
               /\ UNCHANGED co
    /\ UNCHANGED <<posted, app, surfaces, paused, head, crashes>>

\* The payload becomes runnable whether or not the report could be set up.
Prepared ==
    /\ co.pc = <<"ensured">> /\ co.for \in {"report", "prepare"}
    /\ store' = IF co.for = "prepare" THEN [store EXCEPT !.runs[co.run].prepared = TRUE] ELSE store
    /\ co' = Idle
    /\ UNCHANGED <<posted, app, surfaces, paused, head, faults, crashes>>

-----------------------------------------------------------------------------
(* Projection.                                                             *)

EventPending(r) == \/ Job(r).status = "running" /\ Job(r).marked < 2
                   \/ Job(r).status \in Terminals /\ Job(r).marked < 3
ProgressPending(r) == Job(r).status \in {"running"} \cup Terminals /\ Job(r).shown < Job(r).progress

project_events ==
    /\ co = Idle
    /\ \E r \in RunIds : EventPending(r) \/ ProgressPending(r)
    /\ co' = [Idle EXCEPT !.stage = "event", !.todo = {r \in RunIds : EventPending(r)}]
    /\ UNCHANGED <<posted, store, app, surfaces, paused, head, faults, crashes>>

NextStage ==
    /\ co.stage # "tick" /\ co.pc = <<"idle">> /\ co.todo = {}
    /\ co' = IF co.stage = "event"
             THEN [co EXCEPT !.stage = "progress", !.todo = {r \in RunIds \ co.blocked : ProgressPending(r)}]
             ELSE Idle
    /\ UNCHANGED <<posted, store, app, surfaces, paused, head, faults, crashes>>

\* surface: the one the attempt has, or a new one once the report is complete.
surface(r) ==
    /\ co.stage # "tick" /\ co.pc = <<"idle">> /\ r \in co.todo
    /\ \A other \in co.todo : r <= other
    /\ co' = [co EXCEPT !.run = r, !.for = co.stage, !.todo = @ \ {r},
                !.ids = IF surfaces[r] # None THEN surfaces[r].ids ELSE StoredIds,
                !.pc = IF surfaces[r] # None THEN <<"project">> ELSE Ensure("check", StoredIds)]
    /\ UNCHANGED <<posted, store, app, surfaces, paused, head, faults, crashes>>

\* Back to the batch: a failure blocks the attempt for the rest of the tick.
Return(ok) == co' = [co EXCEPT !.pc = <<"idle">>, !.for = "none", !.run = 0, !.ids = NoIds, !.found = FALSE,
                       !.body = NoIds, !.err = FALSE,
                       !.blocked = IF ok THEN @ ELSE @ \cup {co.run}]

Ensured ==
    /\ co.pc = <<"ensured">> /\ co.for \in {"event", "progress"}
    /\ IF fleet_reporting_ready(co.ids)
       THEN /\ surfaces' = [surfaces EXCEPT ![co.run] = [ids |-> co.ids, recent |-> FALSE]]
            /\ Go(<<"project">>)
       ELSE Return(FALSE) /\ UNCHANGED surfaces
    /\ UNCHANGED <<posted, store, app, paused, head, faults, crashes>>

plan_next_repeat(r) ==
    IF Job(r).status = "completed" /\ r + 1 \in RunIds /\ Job(r + 1).status = "none"
    THEN [store EXCEPT !.runs[r + 1].status = "queued"] ELSE store

Body(text, state) ==
    [NoIds EXCEPT !["comment"] = Content("open", text, None),
                  !["check"] = IF state = None THEN None ELSE Content(state, text, None)]
Writing(body) == co' = [co EXCEPT !.pc = <<"write", "comment">>, !.body = body]

\* What the surface makes of an event; the terminal is read from the lifecycle of
\* the whole submission.
Started == Job(co.run).marked = 0 /\ Writing(Body("running", None))
Phase == Job(co.run).marked = 1 /\ Writing(Body("build", "in progress"))
Completed ==
    /\ Job(co.run).marked = 2 /\ Job(co.run).status = "completed"
    /\ IF lifecycle = "completed"
       THEN IF PullRequest THEN Go(<<"pull">>) ELSE Writing(Body("completed", "completed"))
       ELSE Writing(Body("scheduling next run", "in progress"))
Ended ==
    /\ Job(co.run).marked = 2 /\ Job(co.run).status \in {"failed", "cancelled"}
    /\ Writing(Body(Job(co.run).status, "completed"))

project_event ==
    /\ co.pc = <<"project">> /\ co.for = "event"
    /\ store' = IF Job(co.run).marked = 2 THEN plan_next_repeat(co.run) ELSE store
    /\ Started \/ Phase \/ Completed \/ Ended
    /\ UNCHANGED <<posted, app, surfaces, paused, head, faults, crashes>>

\* An update within the interval is dropped and counts as shown.
progress ==
    /\ co.pc = <<"project">> /\ co.for = "progress"
    /\ IF surfaces[co.run].recent
       THEN store' = [store EXCEPT !.runs[co.run].shown = @ + 1] /\ Return(TRUE)
       ELSE Writing(Body("progress", "in progress")) /\ UNCHANGED store
    /\ UNCHANGED <<posted, app, surfaces, paused, head, faults, crashes>>

IntervalPasses(r) ==
    /\ surfaces[r] # None /\ surfaces[r].recent
    /\ surfaces' = [surfaces EXCEPT ![r].recent = FALSE]
    /\ UNCHANGED <<posted, store, app, co, paused, head, faults, crashes>>

\* baseline_comparison: whatever goes wrong, the result is shown without one.
get_pull_request ==
    /\ co.pc = <<"pull">>
    /\ \E a \in Answers :
         /\ Answered(a)
         /\ IF a = "ok" /\ head = store.commit THEN Go(<<"compare">>)
            ELSE Writing(Body("completed", "completed"))
    /\ UNCHANGED <<posted, store, app, surfaces, paused, head, crashes>>

\* The merge base is that of the branch as it is now; a baseline may not exist.
compare_commits ==
    /\ co.pc = <<"compare">>
    /\ \E a \in Answers :
         /\ Answered(a)
         /\ \/ co' = [co EXCEPT !.pc = <<"write", "comment">>, !.body = Body("completed", "completed")]
            \/ a = "ok" /\ co' = [co EXCEPT !.pc = <<"write", "comment">>,
                                    !.body = [Body("completed", "completed") EXCEPT !["comment"].base = head]]
    /\ UNCHANGED <<posted, store, app, surfaces, paused, head, crashes>>

\* Both parts are written even when the first one fails.
NextWrite(p) == IF p = "comment" THEN <<"write", "check">> ELSE <<"written">>

UpdateErr(err, a) == err \/ a # "ok"

Update(p) ==
    /\ At("write", p)
    /\ IF co.ids[p] = None \/ co.body[p] = None THEN Go(NextWrite(p)) /\ UNCHANGED <<posted, faults>>
       ELSE \E a \in Answers :
              /\ Answered(a)
              /\ posted' = IF a = "refused" THEN posted
                           ELSE [posted EXCEPT ![p][co.ids[p]] = co.body[p]]
              /\ co' = [co EXCEPT !.pc = NextWrite(p), !.err = UpdateErr(@, a)]
    /\ UNCHANGED <<store, app, surfaces, paused, head, crashes>>

\* Shown, so acknowledged; the terminal takes the surface with it.
Acknowledge ==
    LET r == co.run
        last == co.for = "event" /\ Job(r).marked = 2
    IN  IF co.err THEN Return(FALSE) /\ UNCHANGED <<store, surfaces>>
        ELSE /\ Return(TRUE)
             /\ store' = IF co.for = "event" THEN [store EXCEPT !.runs[r].marked = @ + 1]
                         ELSE [store EXCEPT !.runs[r].shown = @ + 1]
             /\ surfaces' = IF last THEN [surfaces EXCEPT ![r] = None]
                            ELSE IF Job(r).marked = 0 /\ co.for = "event" THEN surfaces
                            ELSE [surfaces EXCEPT ![r].recent = TRUE]
Projected ==
    /\ co.pc = <<"written">>
    /\ Acknowledge
    /\ UNCHANGED <<posted, app, paused, head, faults, crashes>>

-----------------------------------------------------------------------------
(* The fleet, GitHub and the operator.                                     *)

Claim(r) ==
    /\ Job(r).status = "queued" /\ Job(r).prepared /\ ~paused
    /\ store' = [store EXCEPT !.runs[r].status = "running"]
    /\ UNCHANGED <<posted, app, surfaces, co, paused, head, faults, crashes>>

Report(r) ==
    /\ Job(r).status = "running"
    /\ \/ /\ Job(r).progress < MaxProgress
          /\ store' = [store EXCEPT !.runs[r].progress = @ + 1]
       \/ \E t \in Terminals : store' = [store EXCEPT !.runs[r].status = t]
    /\ UNCHANGED <<posted, app, surfaces, co, paused, head, faults, crashes>>

\* Expiry runs on the coordinator's task; a new attempt has shown nothing.
LoseAttempt(r) ==
    /\ co = Idle /\ Job(r).status = "running" /\ faults < MaxFaults
    /\ faults' = faults + 1
    /\ store' = [store EXCEPT !.runs[r] = [NoRun EXCEPT !.status = "queued", !.prepared = TRUE]]
    /\ surfaces' = [surfaces EXCEPT ![r] = None]
    /\ UNCHANGED <<posted, app, co, paused, head, crashes>>

Push ==
    /\ PullRequest /\ head < MaxMoves /\ head' = head + 1
    /\ UNCHANGED <<posted, store, app, surfaces, co, paused, faults, crashes>>

Resume ==
    /\ paused /\ paused' = FALSE
    /\ UNCHANGED <<posted, store, app, surfaces, co, head, faults, crashes>>

Restart ==
    /\ crashes < MaxCrashes /\ crashes' = crashes + 1
    /\ app' = FALSE /\ co' = Idle /\ surfaces' = [r \in RunIds |-> None]
    /\ UNCHANGED <<posted, store, paused, head, faults>>

-----------------------------------------------------------------------------
Init ==
    /\ posted = [p \in Parts |-> <<>>]
    /\ store = [comment |-> None, check |-> None, commit |-> None,
                runs |-> [r \in RunIds |-> IF r = 0 THEN [NoRun EXCEPT !.status = "queued"] ELSE NoRun]]
    /\ app = FALSE /\ surfaces = [r \in RunIds |-> None] /\ co = Idle
    /\ paused \in BOOLEAN /\ head = 0 /\ faults = 0 /\ crashes = 0

ensure_reporting == \E p \in Parts :
    resolved_app_id(p) \/ Find(p) \/ Create(p) \/ record_submission(p)

Projection ==
    \/ NextStage \/ Ensured \/ project_event \/ progress \/ get_pull_request \/ compare_commits
    \/ Projected
    \/ \E p \in Parts : Update(p)
    \/ \E r \in RunIds : surface(r)

Coordinator == ensure_reporting \/ Refresh \/ Prepared \/ Projection

Next ==
    \/ Coordinator \/ project_events
    \/ \E r \in RunIds : prepare_job(r) \/ IntervalPasses(r) \/ Claim(r) \/ Report(r) \/ LoseAttempt(r)
    \/ Push \/ Resume \/ Restart

Spec == Init /\ [][Next]_vars

-----------------------------------------------------------------------------
(* Properties.                                                             *)

\* However often creating, finding or storing goes wrong, a submission has one
\* comment and one check (ensure_check, post_initial_comment: look before posting).
OneReport == \A p \in Parts : Len(posted[p]) <= 1

\* Every outcome is acknowledged, and each configured part shows the end.
Settled == lifecycle # "running" /\ \A r \in RunIds : Job(r).status # "none" => Job(r).marked = 3
EndShown == \A p \in Wants : posted[p] # <<>> /\ posted[p][1].text = lifecycle

\* Progress the outcome overtook: the coordinator projects it after the events, on a
\* surface of its own (coordinator.rs:510-538, report.rs:558-632).
Overtaken == co.for = "progress" /\ Job(co.run).marked = 3

\* The step that acknowledges the last outcome finds the end of the submission in
\* each configured part, whatever failed on the way (combine_projection_results);
\* only progress that the outcome overtook replaces it there.
FinalShown ==
    /\ ~Settled /\ Settled' => EndShown'
    /\ Settled /\ EndShown /\ ~EndShown' => Overtaken

\* A concluded check stays concluded: finding it again, retrying an event or
\* reporting another run never takes it back to in progress; overtaken progress does.
CheckStaysConcluded ==
    \A i \in 1..Len(posted["check"]) :
       posted["check"][i].state = "completed" /\ posted'["check"][i].state # "completed" => Overtaken
=============================================================================
