------------------------------ MODULE TaskIntake ------------------------------
(***************************************************************************)
(* From a request to the work a worker is offered.  A Slack mention goes   *)
(* through a language model whose answer is validated into a typed intent  *)
(* (crates/sbgh-intent), becomes benchmark arguments and a workload key    *)
(* (crates/sbgh-core/src/workload.rs, bench_args.rs), is submitted for a   *)
(* repository the operator allows (crates/sbgh-daemon/src/slack_queue.rs,  *)
(* slack_target.rs, submission.rs), and is turned into a payload by the    *)
(* coordinator, perhaps of a later daemon with other default arguments.    *)
(* Comments and pushes on GitHub enter with arguments of their own.        *)
(*                                                                         *)
(* An optional value is <<>> or <<v>>; a text is a string with a table for *)
(* what trimming does; a workload key or digest is the value it hashes.    *)
(***************************************************************************)
EXTENDS Naturals, Sequences, FiniteSets, TLC

CONSTANTS
    Scenes,         \* by name, what happens around the daemon (SceneFields)
    Requests,       \* the mentions
    Heights,        \* block heights in answers
    Window, RateLimit,     \* 60 seconds, and the calls a user may make in them
    MaxRepetitions, MaxVariants, MaxLifecycles, CacheEnabled,
    U64             \* 2^64, scaled

\* Who may write the mentions, by the tasks the operator lets them create; the
\* deliveries of mentions; the answers the model gives, each with at most one
\* field changed, which fields, and whether the provider keeps to the schema it
\* is sent; GitHub's comments and pushes with the arguments they carry; the
\* default arguments the daemon is started with; and the bounds on its
\* restarts, the operator's changes and the clock.
SceneFields == {"senders", "deliveries", "templates", "changed", "strict", "triggers", "stored",
                "defaults", "restarts", "policy_changes", "time"}

TaskKinds == {"benchmark", "block_validation"}

ASSUME IntakeAssumption ==
    /\ RateLimit \in Nat /\ Window \in Nat \ {0} /\ U64 \in Nat \ {0}
    /\ Heights \subseteq 0..(U64 - 1)
    /\ {MaxRepetitions, MaxVariants, MaxLifecycles} \subseteq Nat
    /\ CacheEnabled \in BOOLEAN
    /\ \A s \in DOMAIN Scenes :
          /\ DOMAIN Scenes[s] = SceneFields /\ Scenes[s].senders \subseteq SUBSET TaskKinds
          /\ Scenes[s].templates # {} /\ Scenes[s].changed # {} /\ Scenes[s].strict \in BOOLEAN

VARIABLES
    scene,          \* the scene, fixed
    sender,         \* the tasks the one user who writes may create, fixed
    now,
    calls,          \* the limiter's queue of a user's calls (the user is one)
    asked,          \* every call since the start
    delivery,       \* deliveries under way
    policy,         \* by repository, the conditions that hold
    default_args,
    jobs,           \* by producer key, <<>> or <<the queued job>>
    restarts, changes

vars == <<scene, sender, now, calls, asked, delivery, policy, default_args, jobs, restarts, changes>>

Deliveries == Scenes[scene].deliveries
Triggers == Scenes[scene].triggers

None == <<>>
Some(v) == <<v>>
OrElse(o, d) == IF o = None THEN d ELSE o[1]
AtLeast1(n) == IF n = 0 THEN 1 ELSE n
Given(o) == o # None

-----------------------------------------------------------------------------
(* Texts.                                                                  *)

Padded == (" main " :> "main") @@ (" " :> "") @@ (" o/fork " :> "o/fork")
trim(s) == IF s \in DOMAIN Padded THEN Padded[s] ELSE s
Overlong == {"overlong"}
HexForms == ("ab" :> "ab") @@ ("0xAB" :> "ab") @@ (" 0Xab " :> "ab") @@ ("cd" :> "cd")

IsHex(s) == s \in DOMAIN HexForms
normalize_32_byte_hex(s) == HexForms[s]
truncate_chars(s) == IF s \in Overlong THEN "truncated" ELSE s
non_empty(o) == Given(o) /\ trim(o[1]) # ""
normalize_optional_text(o) == IF non_empty(o) THEN Some(trim(o[1])) ELSE None
BoundedSelector(o) == Given(o) => trim(o[1]) # "" /\ trim(o[1]) \notin Overlong
normalize_bounded_selector(o) == IF Given(o) THEN Some(trim(o[1])) ELSE None
require_absent(a, fields) == \A f \in fields : a[f] = None

-----------------------------------------------------------------------------
(* What the model may answer: the fields of the decoded object.            *)

IntentBlockSelectorJson == [kind : {"height", "hash"}, height : {None, Some(1)}, hash : {None, Some("0xAB"), Some("zz")}]
IntentBlockRangeJson == [start : Heights, end : Heights]
IntentIssueJson == [field : {"target"}, message : {"which block?", " ", "overlong"}]
ManyIssues == [i \in 1..8 |-> [field |-> "target", message |-> IF i = 8 THEN " " ELSE "which block?"]]
Opt(S) == {None} \cup {Some(v) : v \in S}

IntentResolutionJson ==
    [status |-> {"resolved", "invalid"},
     task_kind |-> Opt({"benchmark", "block_validation"}),
     target_kind |-> Opt({"block", "block_range", "txids"}),
     block |-> Opt({<<>>} \cup {<<s>> : s \in IntentBlockSelectorJson}),
     block_range |-> Opt(IntentBlockRangeJson),
     txids |-> Opt({<<>>, <<"ab">>, <<" 0Xab ", "cd">>, <<"zz">>}),
     repetitions |-> Opt(0..6),
     warmup |-> Opt({0, 2}),
     rev |-> Opt({"main", " main ", " ", "overlong"}),
     variant_refs |-> Opt({<<"main">>, <<"main", "dev">>, <<"main", " main ">>, <<"main", " ">>, <<"main", "dev", "old">>}),
     repository |-> Opt({"o/r", " o/fork ", "o", "p/q", "overlong", " "}),
     validation_selection |-> Opt({"recent", "full", "range"}),
     validation_block_count |-> Opt({0, 3, 9}),
     validation_start |-> Opt(Heights),
     validation_end |-> Opt(Heights),
     reason |-> Opt({"unclear", " ", "overlong"}),
     issues |-> Opt({<<>>, ManyIssues} \cup {<<i>> : i \in IntentIssueJson})]

\* The schema sent with the request: how it narrows the decoder's types.
intent_response_text_format ==
    [f \in DOMAIN IntentResolutionJson |->
        CASE f = "repetitions" -> IntentResolutionJson[f] \ {Some(0)}
          [] f = "validation_block_count" -> IntentResolutionJson[f] \ {Some(0)}
          [] f = "variant_refs" -> {v \in IntentResolutionJson[f] : Given(v) => Len(v[1]) = 2}
          [] OTHER -> IntentResolutionJson[f]]

Blank == [f \in DOMAIN IntentResolutionJson \ {"status"} |-> None] @@ [status |-> "resolved"]
AnyHeight == CHOOSE h \in Heights : \A g \in Heights : h <= g
Benchmark(kind) == [task_kind |-> Some("benchmark"), target_kind |-> Some(kind),
                    repetitions |-> Some(2), warmup |-> Some(2)] @@ Blank
Validation(kind) == [task_kind |-> Some("block_validation"), validation_selection |-> Some(kind)] @@ Blank
Template ==
    [block |-> [block |-> Some(<<[kind |-> "height", height |-> Some(1), hash |-> None]>>)] @@ Benchmark("block"),
     block_range |-> [block_range |-> Some([start |-> AnyHeight, end |-> AnyHeight])] @@ Benchmark("block_range"),
     txids |-> [txids |-> Some(<<"ab">>), rev |-> Some("main")] @@ Benchmark("txids"),
     comparison |-> [block_range |-> Some([start |-> AnyHeight, end |-> AnyHeight]),
                     variant_refs |-> Some(<<"main", "dev">>)] @@ Benchmark("block_range"),
     recent |-> Validation("recent"), full |-> Validation("full"),
     range |-> [validation_start |-> Some(AnyHeight), validation_end |-> Some(AnyHeight)] @@ Validation("range"),
     invalid |-> [status |-> "invalid", reason |-> Some("unclear")] @@ Blank]

Answers ==
    [s \in DOMAIN Scenes |->
        LET wide == UNION {{[Template[t] EXCEPT ![f] = v] : v \in IntentResolutionJson[f]} :
                             t \in Scenes[s].templates, f \in Scenes[s].changed}
        IN {a \in wide : Scenes[s].strict => \A f \in DOMAIN a : a[f] \in intent_response_text_format[f]}]

-----------------------------------------------------------------------------
(* Validation of the answer.                                               *)

Resolved(kind, r) == [status |-> kind, request |-> r, reply |-> <<>>]
Invalid(message) == [status |-> "invalid", request |-> <<>>, reply |-> message]
IntentValidationError == Invalid(<<"error">>)

TaskFields == DOMAIN IntentResolutionJson \ {"status", "reason", "issues"}
MAX_INVALID_ISSUES == 7
Taken(issues) == SubSeq(OrElse(issues, <<>>), 1, IF Len(OrElse(issues, <<>>)) < MAX_INVALID_ISSUES
                                                  THEN Len(OrElse(issues, <<>>)) ELSE MAX_INVALID_ISSUES)
validate_issues(issues) == \A i \in DOMAIN Taken(issues) : trim(Taken(issues)[i].message) # ""
user_message(reason, issues) ==
    <<reason>> \o [i \in DOMAIN Taken(issues) |-> truncate_chars(trim(Taken(issues)[i].message))]

validate_invalid_intent(a) ==
    IF require_absent(a, TaskFields) /\ non_empty(a.reason) /\ validate_issues(a.issues)
    THEN Invalid(user_message(truncate_chars(trim(a.reason[1])), a.issues))
    ELSE IntentValidationError

validate_block_selector(s) ==
    IF s.kind = "height" THEN Given(s.height) /\ ~Given(s.hash)
    ELSE ~Given(s.height) /\ Given(s.hash) /\ IsHex(s.hash[1])
BlockSelector(s) == IF s.kind = "height" THEN ToString(s.height[1]) ELSE normalize_32_byte_hex(s.hash[1])

TargetField == [block |-> "block", block_range |-> "block_range", txids |-> "txids"]
TargetOk(a) ==
    LET k == a.target_kind[1]
        v == a[TargetField[k]]
    IN /\ require_absent(a, {"block", "block_range", "txids"} \ {TargetField[k]})
       /\ Given(v)
       /\ CASE k = "block" -> v[1] # <<>> /\ \A i \in DOMAIN v[1] : validate_block_selector(v[1][i])
            [] k = "block_range" -> v[1].start <= v[1].end
            [] k = "txids" -> v[1] # <<>> /\ \A i \in DOMAIN v[1] : IsHex(v[1][i])

VariantsOk(v) == Given(v) => Len(v[1]) >= 2 /\ \A i \in DOMAIN v[1] : trim(v[1][i]) # ""
normalize_variant_refs(v) == IF Given(v) THEN [i \in DOMAIN v[1] |-> trim(v[1][i])] ELSE <<>>

WorkloadTarget(a) ==
    LET k == a.target_kind[1]
        v == a[TargetField[k]][1]
    IN CASE k = "block" -> [kind |-> k, of |-> [i \in DOMAIN v |-> BlockSelector(v[i])]]
         [] k = "txids" -> [kind |-> k, of |-> [i \in DOMAIN v |-> normalize_32_byte_hex(v[i])]]
         [] k = "block_range" -> [kind |-> k, start |-> v.start, end |-> v.end]

validate_resolved_benchmark(a) ==
    IF /\ require_absent(a, {"validation_selection", "validation_block_count", "validation_start", "validation_end"})
       /\ Given(a.target_kind)
       /\ Given(a.repetitions) /\ a.repetitions[1] >= 1
       /\ Given(a.warmup)
       /\ BoundedSelector(a.repository)
       /\ VariantsOk(a.variant_refs)
       /\ TargetOk(a)
       /\ Given(a.variant_refs) => ~non_empty(a.rev)
    THEN Resolved("benchmark",
            [target |-> WorkloadTarget(a), repetitions |-> a.repetitions[1], warmup |-> a.warmup,
             repository |-> normalize_bounded_selector(a.repository),
             rev |-> normalize_optional_text(a.rev), variants |-> normalize_variant_refs(a.variant_refs)])
    ELSE IntentValidationError

ValidationSelection(a) ==
    [kind |-> a.validation_selection[1], count |-> a.validation_block_count,
     start |-> a.validation_start, end |-> a.validation_end]
SelectionOk(s) ==
    CASE s.kind = "recent" -> ~Given(s.start) /\ ~Given(s.end) /\ s.count # Some(0)
      [] s.kind = "full" -> ~Given(s.count) /\ ~Given(s.start) /\ ~Given(s.end)
      [] s.kind = "range" -> ~Given(s.count) /\ Given(s.start) /\ Given(s.end) /\ s.start[1] <= s.end[1]
validate_resolved_block_validation(a) ==
    IF /\ require_absent(a, {"target_kind", "block", "block_range", "txids", "repetitions", "warmup", "variant_refs"})
       /\ BoundedSelector(a.repository) /\ BoundedSelector(a.rev)
       /\ Given(a.validation_selection) /\ SelectionOk(ValidationSelection(a))
    THEN Resolved("block_validation",
            [repository |-> normalize_bounded_selector(a.repository),
             rev |-> normalize_bounded_selector(a.rev), selection |-> ValidationSelection(a)])
    ELSE IntentValidationError

validate_resolved_intent(a) ==
    CASE a.task_kind = None -> IntentValidationError
      [] a.task_kind = Some("benchmark") -> validate_resolved_benchmark(a)
      [] a.task_kind = Some("block_validation") -> validate_resolved_block_validation(a)
validate_intent_resolution(a) ==
    IF a.status = "invalid" THEN validate_invalid_intent(a) ELSE validate_resolved_intent(a)

-----------------------------------------------------------------------------
(* The provider's response body.                                           *)

Part(type, text) == [type |-> type, text |-> text]
Outputs == {None, Some(<<>>), Some(<<None>>), Some(<<Some(<<Part("refusal", "prose")>>)>>),
            Some(<<None, Some(<<Part("reasoning", "prose"), Part("output_text", "answer")>>)>>),
            Some(<<Some(<<Part("text", "prose"), Part("output_text", "answer")>>)>>)}
Bodies == [http : {"ok", "error"}, json : BOOLEAN, error : BOOLEAN,
           status : {"completed", "incomplete", "failed", "cancelled"}, output : Outputs]

Contents(output) == {i \in DOMAIN output : output[i] # None}
TextAt(output) ==
    {at \in (DOMAIN output) \X (1..2) :
        /\ at[1] \in Contents(output) /\ at[2] \in DOMAIN output[at[1]][1]
        /\ output[at[1]][1][at[2]].type \in {"output_text", "text"}}
Earlier(a, b) == a[1] < b[1] \/ (a[1] = b[1] /\ a[2] <= b[2])
send(b) == b.http = "ok" /\ b.json
extract_openai_output_text(b) ==
    IF b.error \/ b.status \in {"incomplete", "failed", "cancelled"} \/ b.output = None THEN None
    ELSE LET texts == TextAt(b.output[1])
             first == CHOOSE a \in texts : \A c \in texts : Earlier(a, c)
         IN IF texts = {} THEN None ELSE Some(b.output[1][first[1]][1][first[2]].text)
\* The text is the intent object, or it does not decode.
ProviderHeard(b) == send(b) /\ extract_openai_output_text(b) = Some("answer")

-----------------------------------------------------------------------------
(* Arguments and their key.                                                *)

Count(start, end) == (end - start + 1) % U64

to_bench_args(w) ==
    LET flags(flag) == [i \in 1..(2 * Len(w.target.of)) |->
                          IF i % 2 = 1 THEN flag ELSE w.target.of[i \div 2]]
        target == CASE w.target.kind = "block" -> flags("--block")
                    [] w.target.kind = "txids" -> flags("--txid")
                    [] w.target.kind = "block_range" ->
                         <<"--start-at", ToString(w.target.start), "--count", ToString(Count(w.target.start, w.target.end))>>
        once == IF w.target.kind = "block_range" THEN <<>> ELSE <<"--repetitions", "1">>
        warm == IF Given(w.warmup) THEN <<"--warmup", ToString(w.warmup[1])>> ELSE <<>>
    IN target \o once \o warm

workload_key(args) == args
Dashed == {"--block", "--txid", "--start-at", "--count", "--end-at", "--warmup",
           "--repetitions", "--repetitions=9", "--count=5", "-v"}
has_flag(args, forms) == \E i \in DOMAIN args : args[i] \in forms
is_range_mode(args) ==
    /\ has_flag(args, {"--start-at"}) /\ has_flag(args, {"--count", "--count=5", "--end-at"})
    /\ ~has_flag(args, {"--block", "--txid"})

\* A flag's value is the next token unless that is a flag too.
IsRepetition(args, i) == args[i] = "--repetitions" \/ args[i] = "--repetitions=9"
IsItsValue(args, i) == i > 1 /\ args[i - 1] = "--repetitions" /\ args[i] \notin Dashed
normalize_in_process_repetitions(args) ==
    LET Kept[i \in 0..Len(args)] ==
            IF i = 0 THEN <<>>
            ELSE IF IsRepetition(args, i) \/ IsItsValue(args, i) THEN Kept[i - 1]
            ELSE Append(Kept[i - 1], args[i])
        out == Kept[Len(args)]
    IN IF (\E i \in DOMAIN args : IsRepetition(args, i)) /\ ~is_range_mode(out)
       THEN out \o <<"--repetitions", "1">> ELSE out

normalize_stored(stored) == normalize_in_process_repetitions(stored)
effective_arg_tokens(stored, default) ==
    normalize_in_process_repetitions(IF stored = <<>> THEN default ELSE stored)
resolve_bench_args(stored, default) ==
    LET args == effective_arg_tokens(stored, default)
    IN [effective_args |-> args, workload_key |-> workload_key(args)]
\* A queued event holds the snapshot of its effective arguments.
try_normalize_stored_value(detail) == normalize_in_process_repetitions(detail.effective_args)

-----------------------------------------------------------------------------
(* Limits and repositories.                                                *)

RequestLimits == [reps |-> AtLeast1(MaxRepetitions), variants |-> AtLeast1(MaxVariants),
                  lifecycles |-> AtLeast1(MaxLifecycles)]
validate_benchmark_request(w) ==
    /\ w.repetitions <= RequestLimits.reps
    /\ w.variants # <<>> =>
          /\ w.rev = None
          /\ Len(w.variants) >= 2 /\ Len(w.variants) <= RequestLimits.variants
          /\ Len(w.variants) * w.repetitions <= RequestLimits.lifecycles
          /\ \A i, j \in DOMAIN w.variants : i # j => w.variants[i] # w.variants[j]

Repositories == {"o/r", "o/fork"}
Conditions == {"installed", "not_suspended", "known", "allowed_installer", "member",
               "target_policy", "source_policy", "supported_root"}
Allowed(r) == r \in Repositories /\ policy[r] = Conditions
parse_slug(s) == s \in Repositories \cup {"p/q"}
resolve_target(r) == r \in Repositories /\ {"installed", "not_suspended", "known"} \subseteq policy[r]
MutResolve(r) == parse_slug(r) /\ resolve_target(r)
resolve(r) == parse_slug(r) /\ resolve_target(r) /\ Conditions \subseteq policy[r]

resolve_user_selection(s) ==
    IF s.kind = "recent" THEN OrElse(s.count, 3) <= 5 ELSE TRUE

-----------------------------------------------------------------------------
(* Submissions.                                                            *)

BenchmarkPlan(req, args, revs, runs) ==
    [kind |-> "benchmark", repository |-> OrElse(req.repository, "o/r"), effective_args |-> args,
     revs |-> revs, workload_key |-> workload_key(args), runs |-> runs]
BlockValidationPlan(req) ==
    [kind |-> "block_validation", repository |-> OrElse(req.repository, "o/r"),
     revs |-> <<OrElse(req.rev, "develop")>>, selection |-> req.selection]

\* The task a resolved benchmark asks for.
BenchmarkTask(w) ==
    BenchmarkPlan(w, to_bench_args(w),
                  IF w.variants = <<>> THEN <<OrElse(w.rev, "develop")>> ELSE w.variants, w.repetitions)

validate(plan, detail) ==
    plan.kind = "benchmark" =>
        /\ detail.effective_args = plan.effective_args
        /\ plan.revs # <<>>
        /\ plan.workload_key = workload_key(plan.effective_args)
        /\ plan.runs > 0

Detail(plan) == [effective_args |-> IF plan.kind = "benchmark" THEN plan.effective_args ELSE <<>>]
request_digest(plan, commit) == <<plan, commit>>
Job(plan, commit, answer, denied) ==
    [plan |-> plan, detail |-> Detail(plan), digest |-> request_digest(plan, commit),
     answer |-> answer, denied |-> denied, placed |-> None]
\* persist_submission: one submission per producer key, answered again when
\* it is the same one.
persist_submission(key, job) ==
    IF jobs[key] = None THEN jobs' = [jobs EXCEPT ![key] = Some(job)]
    ELSE jobs[key][1].digest = job.digest /\ UNCHANGED jobs
Persists(key, job) == jobs[key] = None \/ jobs[key][1].digest = job.digest

-----------------------------------------------------------------------------
(* Deliveries.                                                             *)

Idle == [at |-> "idle", request |-> None, answer |-> None, plan |-> None, denied |-> {}, reply |-> <<>>]
Keys == Requests \cup Triggers
Init ==
    /\ scene \in DOMAIN Scenes /\ sender \in Scenes[scene].senders
    /\ now = 0 /\ calls = <<>> /\ asked = <<>>
    /\ delivery = [d \in Deliveries |-> Idle]
    /\ policy = [r \in Repositories |-> Conditions]
    /\ default_args \in Scenes[scene].defaults
    /\ jobs = [k \in Keys |-> None]
    /\ restarts = 0 /\ changes = 0

reject(d, message) == delivery' = [delivery EXCEPT ![d].at = "refused", ![d].reply = message]

\* Calls older than the window leave the queue.
Recent(t) == now < Window \/ t >= now - Window
Pruned == SelectSeq(calls, Recent)
allow_intent_call == Len(Pruned) < AtLeast1(RateLimit)

\* What the connector reads of the text after the mention.
Texts == {"plain", "flags", "too long", "unclosed mention"}
strip_leading_mention(text) == IF text = "unclosed mention" THEN "empty" ELSE text

resolve_request_for_event(d, r, text) ==
    LET said == strip_leading_mention(text)
        fresh == [Idle EXCEPT !.request = Some(r), !.denied = {x \in Repositories : ~Allowed(x)}]
        Refuse(message) == delivery' = [delivery EXCEPT ![d] = [fresh EXCEPT !.at = "refused", !.reply = message]]
    IN IF said = "flags" THEN Refuse(<<"no flags">>) /\ UNCHANGED <<calls, asked>>
       ELSE IF ~allow_intent_call THEN Refuse(<<"too many">>) /\ calls' = Pruned /\ UNCHANGED asked
       ELSE /\ calls' = Append(Pruned, now)
            /\ IF said = "too long" THEN Refuse(<<"too long">>) /\ UNCHANGED asked
               ELSE /\ delivery' = [delivery EXCEPT ![d] = [fresh EXCEPT !.at = "asking"]]
                    /\ asked' = Append(asked, now)

\* Admission asks for any entitlement, before the text is read or the provider is
\* asked; authorization for the one the resolved task needs.
is_admitted == sender # {}
is_authorized_for(kind) == kind \in sender

handle_mention(d, r, text) ==
    /\ delivery[d].at = "idle"
    /\ IF is_admitted THEN resolve_request_for_event(d, r, text)
       ELSE /\ delivery' = [delivery EXCEPT ![d] = [Idle EXCEPT !.at = "refused", !.request = Some(r),
                                                               !.reply = <<"not authorized">>]]
            /\ UNCHANGED <<calls, asked>>
    /\ UNCHANGED <<scene, sender, now, policy, default_args, jobs, restarts, changes>>

ProviderFails(d, body) ==
    /\ delivery[d].at = "asking" /\ ~ProviderHeard(body)
    /\ reject(d, <<"couldn't resolve">>)
    /\ UNCHANGED <<scene, sender, now, calls, asked, policy, default_args, jobs, restarts, changes>>

\* The rest of handle_mention until it posts the queued message.
resolve_request(d, body, a) ==
    LET outcome == validate_intent_resolution(a)
        w == outcome.request
        Take(plan) == delivery' = [delivery EXCEPT ![d].at = "posted", ![d].plan = Some(plan), ![d].answer = Some(a)]
    IN /\ delivery[d].at = "asking" /\ ProviderHeard(body)
       /\ CASE outcome.status = "invalid" -> reject(d, outcome.reply)
            [] outcome.status \in TaskKinds /\ ~is_authorized_for(outcome.status) ->
                 reject(d, <<"not authorized to create that task">>)
            [] outcome.status = "benchmark" /\ is_authorized_for("benchmark") ->
                 IF validate_benchmark_request(w) /\ (w.repetitions > 1 => CacheEnabled)
                 THEN Take(BenchmarkTask(w)) ELSE reject(d, <<"too much">>)
            [] outcome.status = "block_validation" /\ is_authorized_for("block_validation") ->
                 Take(BlockValidationPlan(w))
       /\ UNCHANGED <<scene, sender, now, calls, asked, policy, default_args, jobs, restarts, changes>>

\* SlackTaskSubmissionAdapter::submit: the repository is checked again.
ResolveRepository(d) ==
    LET plan == delivery[d].plan[1]
    IN /\ delivery[d].at = "posted"
       /\ IF resolve(plan.repository) /\ (plan.kind = "block_validation" => resolve_user_selection(plan.selection))
          THEN delivery' = [delivery EXCEPT ![d].at = "resolved"]
          ELSE reject(d, <<"couldn't enqueue">>)
       /\ UNCHANGED <<scene, sender, now, calls, asked, policy, default_args, jobs, restarts, changes>>

Commits == {"c1", "c2"}
ResolveCommitFails(d) ==
    /\ delivery[d].at = "resolved"
    /\ reject(d, <<"couldn't enqueue">>)
    /\ UNCHANGED <<scene, sender, now, calls, asked, policy, default_args, jobs, restarts, changes>>

\* The commit is resolved, the command validated and stored.
submit(d, commit) ==
    LET x == delivery[d]
        plan == x.plan[1]
        job == Job(plan, commit, x.answer, plan.repository \in x.denied)
        key == x.request[1]
    IN /\ x.at = "resolved"
       /\ IF ~validate(plan, Detail(plan)) THEN reject(d, <<"invalid submission">>) /\ UNCHANGED jobs
          ELSE IF ~Persists(key, job) THEN reject(d, <<"couldn't enqueue">>) /\ UNCHANGED jobs
          ELSE persist_submission(key, job) /\ delivery' = [delivery EXCEPT ![d].at = "queued"]
       /\ UNCHANGED <<scene, sender, now, calls, asked, policy, default_args, restarts, changes>>

\* A comment or a push whose event carries arguments of its own, or none.
GithubBenchmarkSubmission(k, stored) ==
    LET resolved == resolve_bench_args(normalize_stored(stored), default_args)
        plan == [BenchmarkPlan([repository |-> None], resolved.effective_args, <<"head">>, 1)
                    EXCEPT !.workload_key = resolved.workload_key]
    IN /\ jobs[k] = None /\ validate(plan, Detail(plan))
       /\ persist_submission(k, Job(plan, "c1", Some([stored |-> stored]), FALSE))
       /\ UNCHANGED <<scene, sender, now, calls, asked, delivery, policy, default_args, restarts, changes>>

\* The coordinator's tick for one queued benchmark: the payload, or an error
\* that leaves the job queued for the next tick.
payload_for(job) ==
    LET stored == try_normalize_stored_value(job.detail)
        r == IF stored = <<>> /\ job.plan.workload_key = workload_key(stored)
             THEN [effective_args |-> <<>>, workload_key |-> workload_key(<<>>)]
             ELSE resolve_bench_args(stored, default_args)
    IN [ok |-> job.plan.workload_key = r.workload_key, args |-> r.effective_args]
prepare_job(k) ==
    /\ jobs[k] # None /\ jobs[k][1].plan.kind = "benchmark" /\ jobs[k][1].placed = None
    /\ jobs' = [jobs EXCEPT ![k][1].placed = Some(payload_for(jobs[k][1]))]
    /\ UNCHANGED <<scene, sender, now, calls, asked, delivery, policy, default_args, restarts, changes>>

\* The operator changes a condition of a repository.
StillDenied(d, r, now_allowed) == IF now_allowed THEN delivery[d].denied \ {r} ELSE delivery[d].denied
ChangePolicy(r, c) ==
    LET held == policy[r]
        next == IF c \in held THEN held \ {c} ELSE held \cup {c}
    IN /\ changes < Scenes[scene].policy_changes /\ changes' = changes + 1
       /\ policy' = [policy EXCEPT ![r] = next]
       /\ delivery' = [d \in Deliveries |-> [delivery[d] EXCEPT !.denied = StillDenied(d, r, next = Conditions)]]
       /\ UNCHANGED <<scene, sender, now, calls, asked, default_args, jobs, restarts>>

\* A new process: other default arguments, no deliveries, an empty limiter.
Restart ==
    /\ restarts < Scenes[scene].restarts /\ restarts' = restarts + 1
    /\ default_args' \in Scenes[scene].defaults
    /\ calls' = <<>> /\ asked' = <<>>
    /\ delivery' = [d \in Deliveries |-> Idle]
    /\ UNCHANGED <<scene, sender, now, policy, jobs, changes>>

Tick ==
    /\ now < Scenes[scene].time /\ now' = now + 1
    /\ UNCHANGED <<scene, sender, calls, asked, delivery, policy, default_args, jobs, restarts, changes>>

AnswerBodies == {b \in Bodies : ProviderHeard(b)}
FailingBodies == Bodies \ AnswerBodies
Next ==
    \/ Tick \/ Restart
    \/ \E d \in Deliveries :
         \/ \E r \in Requests, text \in Texts : handle_mention(d, r, text)
         \/ \E b \in FailingBodies : ProviderFails(d, b)
         \/ \E b \in AnswerBodies, a \in Answers[scene] : resolve_request(d, b, a)
         \/ ResolveRepository(d)
         \/ ResolveCommitFails(d)
         \/ \E c \in Commits : submit(d, c)
    \/ \E k \in Triggers, s \in Scenes[scene].stored : GithubBenchmarkSubmission(k, s)
    \/ \E k \in Keys : prepare_job(k)
    \/ \E r \in Repositories, c \in Conditions : ChangePolicy(r, c)

Spec == Init /\ [][Next]_vars

-----------------------------------------------------------------------------
(* Properties.                                                             *)

Placed == {k \in Keys : jobs[k] # None /\ jobs[k][1].placed # None}
Payload(k) == jobs[k][1].placed[1]

\* allow_intent_call: a user never makes more calls than the limit within
\* one window, however the calls fall.
RateLimited ==
    \A i, j \in DOMAIN asked : j = i + AtLeast1(RateLimit) => asked[j] - asked[i] > Window

\* What the arguments of a target are, read off the answer.  The length of the
\* range of all heights does not fit its integer and comes out as 0 (workload.rs:88).
TargetArgs(a) ==
    CASE a.target_kind = Some("block") ->
           {"--block"} \X {IF b.kind = "height" THEN ToString(b.height[1]) ELSE HexForms[b.hash[1]] :
                            b \in {a.block[1][i] : i \in DOMAIN a.block[1]}}
      [] a.target_kind = Some("txids") ->
           {"--txid"} \X {HexForms[a.txids[1][i]] : i \in DOMAIN a.txids[1]}
      [] a.target_kind = Some("block_range") ->
           LET length == a.block_range[1].end - a.block_range[1].start + 1
           IN  {<<"--start-at", ToString(a.block_range[1].start)>>,
                <<"--count", ToString(IF length = U64 THEN 0 ELSE length)>>}
\* Whatever the answer's other fields say, what is queued is what it asked
\* for: its repository and refs, its number of runs, its target or selection;
\* and the one who asked may create such a task (connector.rs:220-248).
AskedFor(job) ==
    LET a == job.answer[1]
        args == job.plan.effective_args
        Flagged == {<<args[i], args[i + 1]>> : i \in {n \in DOMAIN args : args[n] \in Dashed}}
    IN /\ a.status = "resolved" /\ a.task_kind = Some(job.plan.kind)
       /\ job.plan.kind \in sender
       /\ job.plan.repository = IF Given(a.repository) THEN trim(a.repository[1]) ELSE "o/r"
       /\ job.plan.revs = IF Given(a.variant_refs) THEN [i \in DOMAIN a.variant_refs[1] |-> trim(a.variant_refs[1][i])]
                          ELSE IF Given(a.rev) /\ trim(a.rev[1]) # "" THEN <<trim(a.rev[1])>> ELSE <<"develop">>
       /\ job.plan.kind = "block_validation" =>
             job.plan.selection = [kind |-> a.validation_selection[1], count |-> a.validation_block_count,
                                   start |-> a.validation_start, end |-> a.validation_end]
       /\ job.plan.kind = "benchmark" =>
             /\ job.plan.runs = a.repetitions[1]
             /\ Flagged = TargetArgs(a) \cup {<<"--warmup", ToString(a.warmup[1])>>}
                             \cup (IF a.target_kind = Some("block_range") THEN {} ELSE {<<"--repetitions", "1">>})
RunsWhatWasAsked ==
    \A r \in Requests : jobs[r] # None => AskedFor(jobs[r][1])

\* submission::validate never refuses what the connector's own checks let
\* through: key, arguments and run count were derived consistently.
AcceptedNeverInvalid == \A d \in Deliveries : delivery[d].reply # <<"invalid submission">>

\* A mention of blocks or transactions: its arguments hold --repetitions, and
\* normalizing moves that to their end.
Targeted(k) == k \in Requests /\ jobs[k][1].answer[1].target_kind # Some("block_range")

\* prepare_job: the frozen arguments still have the key they were queued
\* with, whatever default arguments the daemon has by now.
FrozenArgsPlaced ==
    \A k \in {p \in Placed : ~Targeted(p)} : Payload(k).ok /\ Payload(k).args = jobs[k][1].plan.effective_args

\* Clean repetitions are runs of their own: no payload asks stacks-bench for
\* more than one repetition in its process.
OneInProcessRepetition ==
    \A k \in Placed :
        LET args == Payload(k).args
        IN \A i \in DOMAIN args :
              /\ args[i] # "--repetitions=9"
              /\ args[i] = "--repetitions" => i < Len(args) /\ args[i + 1] = "1"

\* A repository whose conditions fail before the mention arrives, and are not
\* restored, gets no task from it.
RevocationHonoured == \A r \in Requests : jobs[r] # None => ~jobs[r][1].denied

\* Every refusal tells the user something, and no text of the model's is
\* passed on at more than its bound.
RefusalExplained ==
    \A d \in Deliveries : delivery[d].at = "refused" =>
        /\ delivery[d].reply # <<>>
        /\ \A i \in DOMAIN delivery[d].reply : trim(delivery[d].reply[i]) \notin {""} \cup Overlong
=============================================================================
