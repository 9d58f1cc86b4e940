-------------------------- MODULE WebhookProcessor --------------------------
(***************************************************************************)
(* GitHub deliveries, from the inbox to their effects.  A delivery is      *)
(* stored once, claimed under a token, classified by the handler of its    *)
(* event, and its result recorded against the token; a failed call is      *)
(* retried with backoff, a claim whose processor died is swept.            *)
(*                                                                         *)
(* A handler is a program: the sequence of store and GitHub calls it makes *)
(* for its event (Program), each call a step of its own, so that another   *)
(* processor, an operator or a crash may come between any two.  One        *)
(* installation and one user; the events' order of arrival is arbitrary.   *)
(***************************************************************************)
EXTENDS Integers, Sequences, FiniteSets, SequencesExt

CONSTANTS
    Deliveries,      \* delivery ids GitHub may send
    Kind,            \* [Deliveries -> Kinds]: event and action
    ReposOf,         \* [Deliveries -> Seq(Repos)]: the repositories it names
    Processors,      \* webhook processors alive
    Repos,
    Supported,       \* repositories whose lineage leads to a supported root
    Commits,         \* commits a pull request head or tag may point at
    Unparsed,        \* deliveries whose body was no JSON
    Established,     \* the installation, its policies and grants exist already
    Allowlisted,         \* the account is on the installer allowlist
    Grants,          \* roles granted when Established
    ValidationEnabled, \* block validation is configured
    MaxAttempts,     \* ProcessorConfig::max_attempts
    MaxFaults,       \* bound: failed calls, crashes and stalled claims
    MaxMoves,        \* bound: pushes to the pull request
    MaxOps,          \* bound: operator commands
    None

Kinds == {"created", "suspend", "unsuspend", "deleted", "added", "removed",
          "comment", "validate", "push", "tag",
          "pr_opened", "pr_reopened", "pr_edited", "pr_closed", "other"}
Roles == {"trigger_pr_benchmark", "trigger_block_validation", "admin"}

WebhookAssumption ==
    /\ Kind \in [Deliveries -> Kinds]
    /\ \A d \in Deliveries : ReposOf[d] \in Seq(Repos) /\ ReposOf[d] # <<>>
    /\ Supported \subseteq Repos /\ Unparsed \subseteq Deliveries
    /\ Grants \subseteq [role : Roles, scope : Repos \cup {None}]
    /\ MaxAttempts \in Nat \ {0}

VARIABLES
    row,         \* github_webhook: [Deliveries -> inbox row]
    proc,        \* each processor: its claim and the rest of its handler
    install,     \* github_installation: known, suspended, deleted
    member,      \* github_installation_repo: "none", "active", "revoked"
    policy,      \* target_repo_policy, source_repo_policy, trigger_policy: enabled
    grants,      \* github_user_role: the unrevoked grants of the user
    pr,          \* github_pull_request: "none", "open", "closed"
    head,        \* the commit the pull request head (or the tag) points at
    submitted,   \* [Deliveries -> commit of the submission under its key, or None]
    running,     \* deliveries whose job is queued, claimed or running
    operator,    \* a grant between its check and its insert, or None
    spent        \* faults, moves and operator commands used up

registry == <<install, member, policy, grants, pr>>
vars == <<row, proc, registry, head, submitted, running, operator, spent>>

Terminal == {"processed", "ignored", "denied", "failed"}
Idle == [pc |-> "idle", delivery |-> None, token |-> 0, attempts |-> 0, todo |-> <<>>,
         commit |-> None, any |-> FALSE, result |-> None]

Init ==
    /\ row = [d \in Deliveries |-> [status |-> "none", token |-> 0, attempts |-> 0,
                                    payload |-> d \notin Unparsed]]
    /\ proc = [p \in Processors |-> Idle]
    /\ install = [known |-> Established, suspended |-> FALSE, deleted |-> FALSE]
    /\ member = [r \in Repos |-> IF Established THEN "active" ELSE "none"]
    /\ policy = [r \in Repos |-> [target |-> IF Established THEN "enabled" ELSE "none",
                                  source |-> Established, trigger |-> Established]]
    /\ grants = IF Established THEN Grants ELSE {}
    /\ pr = "none"
    /\ head \in Commits
    /\ submitted = [d \in Deliveries |-> None]
    /\ running = {}
    /\ operator = None
    /\ spent = [faults |-> 0, moves |-> 0, ops |-> 0]

-----------------------------------------------------------------------------
(* The handlers.                                                           *)

\* The calls of the handler of d's event, in order, each with its repository.
evaluate_pr_policies == <<"membership", "target", "source">>
handle_repos_removed == <<"disable_policies", "revoke_grants", "revoke_membership">>
materialise_repo_membership == <<"lineage", "add_membership">>

InstallationSteps(kind) ==
    CASE kind = "created" -> <<"allowlist", "upsert_installation">>
      [] kind = "deleted" -> <<"delete_installation">>
      [] OTHER            -> <<kind>>

IssueCommentSteps(kind) ==
    <<"fetch", "role">> \o evaluate_pr_policies
                       \o <<IF kind = "validate" THEN "queue" ELSE "dedup", "submit">>

PullRequestSteps(kind) ==
    CASE kind = "pr_opened"   -> <<"materialise">> \o evaluate_pr_policies
      [] kind = "pr_reopened" -> <<"materialise", "reopen">> \o evaluate_pr_policies
      [] kind = "pr_edited"   -> <<"materialise">>
      [] kind = "pr_closed"   -> <<"close">>

PushSteps == <<"membership", "trigger", "submit">>
CreateSteps == <<"membership", "trigger", "resolve", "submit">>

Steps(kind) ==
    CASE kind \in {"created", "deleted", "suspend", "unsuspend"} -> InstallationSteps(kind)
      [] kind \in {"comment", "validate"} -> IssueCommentSteps(kind)
      [] kind \in {"pr_opened", "pr_reopened", "pr_edited", "pr_closed"} -> PullRequestSteps(kind)
      [] kind = "push" -> PushSteps
      [] kind = "tag"  -> CreateSteps
      [] OTHER         -> <<>>

ForEach(steps, repos) ==
    FlattenSeq([i \in DOMAIN repos |-> [k \in DOMAIN steps |-> <<steps[k], repos[i]>>]])

Program(d) ==
    ForEach(Steps(Kind[d]), <<Head(ReposOf[d])>>)
    \o CASE Kind[d] \in {"created", "added"} -> ForEach(materialise_repo_membership, ReposOf[d])
         [] Kind[d] = "removed" -> ForEach(handle_repos_removed, ReposOf[d])
         [] OTHER -> <<>>

\* The outcome of a handler that made all its calls.
Final(p) ==
    LET kind == Kind[proc[p].delivery]
    IN  CASE kind = "created" -> "processed"
          [] kind \in {"added", "removed"} -> IF proc[p].any THEN "processed" ELSE "ignored"
          [] kind \in {"pr_opened", "pr_reopened"} -> "processed"
          [] OTHER -> "ignored"

At(p, name) == proc[p].pc = "run" /\ proc[p].todo # <<>> /\ Head(proc[p].todo)[1] = name
Repo(p) == Head(proc[p].todo)[2]
Here(p) == proc[p].delivery
Advance(p) == [proc EXCEPT ![p].todo = Tail(@)]
Conclude(p, outcome) == [proc EXCEPT ![p].pc = "record", ![p].result = outcome]

\* A call that only reads: go on, or end with the outcome the handler returns.
Gate(p, name, open, otherwise) ==
    /\ At(p, name)
    /\ proc' = IF open THEN Advance(p) ELSE Conclude(p, otherwise)
    /\ UNCHANGED <<row, registry, head, submitted, running, operator, spent>>

\* A call that writes one table of the registry.
Write(p, name) ==
    /\ At(p, name)
    /\ UNCHANGED <<row, head, submitted, running, operator, spent>>

is_membership_active(r) ==
    install.known /\ ~install.deleted /\ ~install.suspended /\ member[r] = "active"

has_role(kind, r) ==
    \E g \in grants :
        /\ g.role \in {"admin", IF kind = "validate" THEN "trigger_block_validation"
                                                     ELSE "trigger_pr_benchmark"}
        /\ g.scope \in {None, r}

\* A job of a /benchmark comment on this commit that has not ended.
find_active_job(commit) ==
    {d \in running : Kind[d] = "comment" /\ submitted[d] = commit}

CheckAllowlist(p) == Gate(p, "allowlist", Allowlisted, "denied")
CheckRole(p) == Gate(p, "role", has_role(Kind[Here(p)], Repo(p)), "denied")
CheckMembership(p) ==
    Gate(p, "membership", is_membership_active(Repo(p)),
         IF Kind[Here(p)] \in {"push", "tag"} THEN "ignored" ELSE "denied")
CheckTarget(p) == Gate(p, "target", policy[Repo(p)].target = "enabled", "denied")
CheckSource(p) == Gate(p, "source", policy[Repo(p)].source, "denied")
\* Triggers count only under an enabled target policy.
CheckTrigger(p) ==
    Gate(p, "trigger", policy[Repo(p)].target = "enabled" /\ policy[Repo(p)].trigger, "ignored")
CheckQueue(p) == Gate(p, "queue", ValidationEnabled, "ignored")
CheckActive(p) == Gate(p, "dedup", find_active_job(proc[p].commit) = {}, "processed")

\* The pull request is read from GitHub and its row upserted, never reopened.
Materialised == IF pr = "none" THEN "open" ELSE pr

FetchPullRequest(p) ==
    /\ At(p, "fetch")
    /\ proc' = [Advance(p) EXCEPT ![p].commit = head]
    /\ pr' = Materialised
    /\ UNCHANGED <<row, install, member, policy, grants, head, submitted, running, operator, spent>>

materialise_pull_request(p) ==
    /\ Write(p, "materialise")
    /\ proc' = Advance(p)
    /\ pr' = Materialised
    /\ UNCHANGED <<install, member, policy, grants>>

set_closed_at(p) ==
    /\ Write(p, "close") \/ Write(p, "reopen")
    /\ proc' = Advance(p)
    /\ pr' = IF pr = "none" THEN "none" ELSE IF At(p, "close") THEN "closed" ELSE "open"
    /\ UNCHANGED <<install, member, policy, grants>>

\* A tag names its commit only through GitHub; a push carries its own.
ResolveTag(p) ==
    /\ At(p, "resolve")
    /\ proc' = [Advance(p) EXCEPT ![p].commit = head]
    /\ UNCHANGED <<row, registry, head, submitted, running, operator, spent>>

\* One submission per delivery; the same key with another commit conflicts,
\* and every error is retried.
enqueue_job(p) ==
    LET d == Here(p)
    IN  /\ At(p, "submit")
        /\ IF submitted[d] = None
           THEN /\ submitted' = [submitted EXCEPT ![d] = proc[p].commit]
                /\ running' = running \cup {d}
                /\ proc' = Conclude(p, "processed")
           ELSE /\ proc' = Conclude(p, IF submitted[d] = proc[p].commit
                                       THEN "processed" ELSE "retryable")
                /\ UNCHANGED <<submitted, running>>
        /\ UNCHANGED <<row, registry, head, operator, spent>>

\* Installing again neither lifts a suspension nor undoes a deletion.
upsert_installation(p) ==
    /\ Write(p, "upsert_installation")
    /\ install' = [install EXCEPT !.known = TRUE]
    /\ proc' = Advance(p)
    /\ UNCHANGED <<member, policy, grants, pr>>

set_suspended(p) ==
    /\ Write(p, "suspend") \/ Write(p, "unsuspend")
    /\ install' = IF install.known THEN [install EXCEPT !.suspended = At(p, "suspend")]
                                   ELSE install
    /\ proc' = Conclude(p, IF install.known THEN "processed" ELSE "ignored")
    /\ UNCHANGED <<member, policy, grants, pr>>

\* A target policy that exists is disabled, with the triggers under it.
Disarmed(r) == [policy[r] EXCEPT !.target = IF @ = "none" THEN "none" ELSE "disabled",
                                 !.trigger = FALSE]

\* One transaction: the installation, its memberships, policies and grants.
delete_installation(p) ==
    /\ Write(p, "delete_installation")
    /\ IF install.known
       THEN /\ install' = [install EXCEPT !.deleted = TRUE]
            /\ member' = [r \in Repos |-> IF member[r] = "active" THEN "revoked" ELSE member[r]]
            /\ policy' = [r \in Repos |-> [Disarmed(r) EXCEPT !.source = FALSE]]
            /\ grants' = {}
            /\ proc' = Conclude(p, "processed")
       ELSE /\ proc' = Conclude(p, "ignored")
            /\ UNCHANGED <<install, member, policy, grants>>
    /\ UNCHANGED pr

\* The repository's identity is checked and its lineage stored; one without a
\* supported root is passed over.
upsert_repo_lineage(p) ==
    /\ At(p, "lineage")
    /\ proc' = IF Repo(p) \in Supported THEN Advance(p)
               ELSE [proc EXCEPT ![p].todo = Tail(Tail(@))]
    /\ UNCHANGED <<row, registry, head, submitted, running, operator, spent>>

MutJoinable == install.known
Joinable == install.known /\ ~install.deleted

add_or_restore_membership(p) ==
    /\ Write(p, "add_membership")
    /\ IF Joinable
       THEN /\ member' = [member EXCEPT ![Repo(p)] = "active"]
            /\ proc' = [Advance(p) EXCEPT ![p].any = TRUE]
       ELSE proc' = Conclude(p, "ignored") /\ UNCHANGED member
    /\ UNCHANGED <<install, policy, grants, pr>>

disable_target_and_triggers(p) ==
    /\ Write(p, "disable_policies")
    /\ policy' = [policy EXCEPT ![Repo(p)] = Disarmed(Repo(p))]
    /\ proc' = Advance(p)
    /\ UNCHANGED <<install, member, grants, pr>>

revoke_repo_scoped_grants(p) ==
    /\ Write(p, "revoke_grants")
    /\ grants' = {g \in grants : g.scope # Repo(p)}
    /\ proc' = Advance(p)
    /\ UNCHANGED <<install, member, policy, pr>>

revoke_membership(p) ==
    /\ Write(p, "revoke_membership")
    /\ member' = [member EXCEPT ![Repo(p)] = IF @ = "active" THEN "revoked" ELSE @]
    /\ proc' = [Advance(p) EXCEPT ![p].any = @ \/ member[Repo(p)] = "active"]
    /\ UNCHANGED <<install, policy, grants, pr>>

Finished(p) ==
    /\ proc[p].pc = "run" /\ proc[p].todo = <<>>
    /\ proc' = Conclude(p, Final(p))
    /\ UNCHANGED <<row, registry, head, submitted, running, operator, spent>>

\* The store or GitHub call of this step fails: the delivery is to be retried.
CallFails(p) ==
    /\ proc[p].pc = "run" /\ proc[p].todo # <<>>
    /\ spent.faults < MaxFaults
    /\ spent' = [spent EXCEPT !.faults = @ + 1]
    /\ proc' = Conclude(p, "retryable")
    /\ UNCHANGED <<row, registry, head, submitted, running, operator>>

-----------------------------------------------------------------------------
(* The inbox.                                                              *)

\* The first arrival of a delivery id is recorded, every other is a duplicate.
ingest_webhook(d) ==
    /\ row[d].status = "none"
    /\ row' = [row EXCEPT ![d].status = "received"]
    /\ UNCHANGED <<proc, registry, head, submitted, running, operator, spent>>

Due(d) == row[d].status \in {"received", "retryable_error"}

\* A due row is claimed under a new token; a body that was no JSON ends at once.
claim_next(p, d) ==
    /\ proc[p].pc = "idle"
    /\ Due(d)
    /\ row' = [row EXCEPT ![d].status = "processing", ![d].token = @ + 1]
    /\ proc' = [proc EXCEPT ![p] = [Idle EXCEPT
         !.delivery = d, !.token = row[d].token + 1, !.attempts = row[d].attempts,
         !.todo = Program(d),
         !.commit = IF Kind[d] = "push" THEN CHOOSE c \in Commits : TRUE ELSE None,
         !.pc = IF row[d].payload THEN "run" ELSE "record",
         !.result = IF row[d].payload THEN None ELSE "failed"]]
    /\ UNCHANGED <<registry, head, submitted, running, operator, spent>>

MutHolds(p) == TRUE
Holds(p) == row[Here(p)].status = "processing" /\ row[Here(p)].token = proc[p].token

Exhausted(p) == proc[p].attempts + 1 >= MaxAttempts

\* The row after the claim's result: final, due again, or given up.
Recorded(p) ==
    LET r == row[Here(p)]
    IN  IF proc[p].result # "retryable" THEN [r EXCEPT !.status = proc[p].result]
        ELSE [r EXCEPT !.attempts = @ + 1,
                       !.status = IF Exhausted(p) THEN "failed"
                                  ELSE "retryable_error"]

process_one(p) ==
    /\ proc[p].pc = "record"
    /\ row' = IF Holds(p) THEN [row EXCEPT ![Here(p)] = Recorded(p)] ELSE row
    /\ proc' = [proc EXCEPT ![p] = Idle]
    /\ UNCHANGED <<registry, head, submitted, running, operator, spent>>

\* The process dies, or cannot write its result: the claim stays behind.
Crash(p) ==
    /\ proc[p].pc # "idle"
    /\ spent.faults < MaxFaults
    /\ spent' = [spent EXCEPT !.faults = @ + 1]
    /\ proc' = [proc EXCEPT ![p] = Idle]
    /\ UNCHANGED <<row, registry, head, submitted, running, operator>>

Alive(d) == \E p \in Processors :
    proc[p].pc # "idle" /\ Here(p) = d /\ proc[p].token = row[d].token

\* A claim older than the lease is released.  The sweep runs in the processors'
\* own loop, so a claim still at work is swept by another processor only.
sweep_stuck_claims(d) ==
    /\ row[d].status = "processing"
    /\ \/ ~Alive(d) /\ UNCHANGED spent
       \/ /\ Alive(d) /\ Cardinality(Processors) > 1 /\ spent.faults < MaxFaults
          /\ spent' = [spent EXCEPT !.faults = @ + 1]
    /\ row' = [row EXCEPT ![d].status = "retryable_error"]
    /\ UNCHANGED <<proc, registry, head, submitted, running, operator>>

clear_terminal_payloads(d) ==
    /\ row[d].status \in {"ignored", "denied", "failed"}
    /\ row[d].payload
    /\ row' = [row EXCEPT ![d].payload = FALSE]
    /\ UNCHANGED <<proc, registry, head, submitted, running, operator, spent>>

-----------------------------------------------------------------------------
(* Everybody else.                                                         *)

MoveHead ==
    /\ spent.moves < MaxMoves
    /\ head' \in Commits \ {head}
    /\ spent' = [spent EXCEPT !.moves = @ + 1]
    /\ UNCHANGED <<row, proc, registry, submitted, running, operator>>

JobEnds(d) ==
    /\ d \in running
    /\ running' = running \ {d}
    /\ UNCHANGED <<row, proc, registry, head, submitted, operator, spent>>

Command == spent.ops < MaxOps /\ spent' = [spent EXCEPT !.ops = @ + 1]

\* Allowing a policy asks for no membership, and a trigger only for the row of a
\* target policy, enabled or not; disabling a target disables its triggers.
allow_target_policy(r) == [policy[r] EXCEPT !.target = "enabled"]
disable_target_policy(r) == Disarmed(r)
allow_source_policy(r) == [policy[r] EXCEPT !.source = TRUE]
disable_source_policy(r) == [policy[r] EXCEPT !.source = FALSE]
add_trigger_policy(r) == [policy[r] EXCEPT !.trigger = policy[r].target # "none"]
disable_trigger_policy(r) == [policy[r] EXCEPT !.trigger = FALSE]

SetPolicy(r) ==
    /\ Command
    /\ \E changed \in {allow_target_policy(r), disable_target_policy(r), allow_source_policy(r),
                       disable_source_policy(r), add_trigger_policy(r), disable_trigger_policy(r)} :
         policy' = [policy EXCEPT ![r] = changed]
    /\ UNCHANGED <<row, proc, install, member, grants, pr, head, submitted, running, operator>>

\* A repository grant first asks for an active membership, then inserts.
grant_role_by_user_id(r) ==
    /\ Command
    /\ operator = None
    /\ member[r] = "active"
    /\ operator' = [role |-> "trigger_pr_benchmark", scope |-> r]
    /\ UNCHANGED <<row, proc, registry, head, submitted, running>>

grant_role ==
    /\ operator # None
    /\ grants' = grants \cup {operator}
    /\ operator' = None
    /\ UNCHANGED <<row, proc, install, member, policy, pr, head, submitted, running, spent>>

revoke_role ==
    /\ Command
    /\ \E g \in grants : grants' = grants \ {g}
    /\ UNCHANGED <<row, proc, install, member, policy, pr, head, submitted, running, operator>>

-----------------------------------------------------------------------------
Handle(p) ==
    \/ CheckAllowlist(p) \/ CheckRole(p) \/ CheckMembership(p) \/ CheckTarget(p)
    \/ CheckSource(p) \/ CheckTrigger(p) \/ CheckQueue(p) \/ CheckActive(p)
    \/ FetchPullRequest(p) \/ materialise_pull_request(p) \/ set_closed_at(p)
    \/ ResolveTag(p) \/ enqueue_job(p) \/ upsert_installation(p) \/ set_suspended(p)
    \/ delete_installation(p) \/ upsert_repo_lineage(p) \/ add_or_restore_membership(p)
    \/ disable_target_and_triggers(p) \/ revoke_repo_scoped_grants(p)
    \/ revoke_membership(p) \/ Finished(p)

Next ==
    \/ \E p \in Processors :
         \/ \E d \in Deliveries : claim_next(p, d)
         \/ Handle(p) \/ CallFails(p) \/ process_one(p) \/ Crash(p)
    \/ \E d \in Deliveries :
         ingest_webhook(d) \/ sweep_stuck_claims(d) \/ clear_terminal_payloads(d) \/ JobEnds(d)
    \/ \E r \in Repos : SetPolicy(r) \/ grant_role_by_user_id(r)
    \/ grant_role \/ revoke_role \/ MoveHead

Spec == Init /\ [][Next]_vars

-----------------------------------------------------------------------------
(* Properties.                                                             *)

\* What the installation, the operator and the user's role allow right now.
Authorized(d) ==
    LET r == Head(ReposOf[d])
    IN  /\ install.known /\ ~install.deleted /\ ~install.suspended /\ member[r] = "active"
        /\ policy[r].target = "enabled"
        /\ Kind[d] \in {"push", "tag"} => policy[r].trigger
        /\ Kind[d] \in {"comment", "validate"} => policy[r].source /\ has_role(Kind[d], r)

\* With one processor and no operator a job is created only in a state that allows
\* it: no delivery that waited, failed, was swept or came out of order slips past a
\* suspension, removal or deletion handled before it.  (With two processors, or a
\* command of an operator, what the checks read may be withdrawn before the insert.)
JobsAuthorized ==
    \A d \in Deliveries : submitted'[d] # submitted[d] => Authorized(d)

\* With one processor two /benchmark comments never have jobs on one commit at
\* once, whatever crashes between the check and the insert.  Two processors may both
\* look before either inserts; webhook_processor.rs:572-583 says so itself.
OneActivePerCommit ==
    \A d, e \in running :
        Kind[d] = "comment" /\ Kind[e] = "comment" /\ submitted[d] = submitted[e] => d = e

\* A repository whose membership is revoked has no enabled target or trigger and
\* no grant of its own, at every step of an interrupted or repeated removal.
RevokedIsDisarmed ==
    \A r \in Repos : member[r] = "revoked" =>
        /\ policy[r].target # "enabled" /\ ~policy[r].trigger
        /\ \A g \in grants : g.scope # r

\* A retired installation never regains a membership: an added event still in
\* flight when the deletion commits restores none.
RetiredHasNoMembers == install.deleted => \A r \in Repos : member[r] # "active"

\* A delivery is given up exactly when its last permitted attempt failed:
\* neither stale processors nor swept claims count a failure twice or lose one.
GivenUpExactly ==
    \A d \in Deliveries : d \notin Unparsed /\ row[d].status = "failed" =>
                              row[d].attempts = MaxAttempts

\* A result is never replaced: a processor that lost its claim changes nothing.
ResultsFinal ==
    \A d \in Deliveries : row[d].status \in Terminal => row'[d].status = row[d].status

\* A closed pull request is reopened by a reopened event and nothing else, in
\* whatever order the events are handled.
ReopenedByEvent ==
    pr = "closed" /\ pr' = "open" =>
        \E p \in Processors : proc[p].pc = "run" /\ Kind[Here(p)] = "pr_reopened"
=============================================================================
