------------------------------ MODULE ConfigLoad ------------------------------
(***************************************************************************)
(* Loading the orchestrator's configuration (crates/sbgh-core/src/         *)
(* config.rs): compiled-in defaults, then the TOML file, then the process  *)
(* environment, then the checks that decide whether the daemon starts.     *)
(* Around it, what the rest of the system does with the result: the timing *)
(* a registered worker is served (crates/sbgh-daemon/src/fleet/service.rs, *)
(* checked by crates/sbgh-worker/src/fleet.rs), the block-validation       *)
(* policy a request is resolved against, and the mentions Slack admits.    *)
(*                                                                         *)
(* An operator edits the file, the environment and the file's place        *)
(* between restarts.  The configuration is read once per start.  A text or *)
(* a path is one of two values; an optional value is <<>> or <<v>>.        *)
(***************************************************************************)
EXTENDS Naturals, Sequences, FiniteSets, TLC

CONSTANTS
    Operators,    \* operators: the sections one edits, the numbers it writes, how
                  \* many edits it makes, and what is configured at first
    I64MAX,       \* the integer widths, scaled to TLC's integers
    U64MAX

ASSUME ConfigAssumption ==
    /\ \A o \in Operators :
         o.profile \in {"minimal", "slack"} /\ o.numbers \subseteq 0..U64MAX /\ o.edits \in Nat
    /\ I64MAX \in Nat \ {0} /\ U64MAX = 2 * I64MAX + 1

VARIABLES
    operator,     \* the one who edits
    file,         \* the TOML file's values, by section and key
    stray,        \* the file holds a key the schema does not read
    place,        \* where the file is
    env,          \* the environment's texts, by section and key
    running,      \* <<>> or the loaded configuration
    edits

configVars == <<operator, file, stray, place, env, running, edits>>

Nothing == <<>>
Some(v) == <<v>>
OrElse(o, d) == IF o = Nothing THEN d ELSE o[1]
AtLeast1(n) == IF n = 0 THEN 1 ELSE n
SatMul(a, b) == IF a > U64MAX \div b THEN U64MAX ELSE a * b

(***************************************************************************)
(* The schema: a key's kind, and how the environment overrides it.         *)
(* "secret" keys are skipped by the file's deserializer.                   *)
(***************************************************************************)
Key(kind, by) == [kind |-> kind, env |-> by]
Text == Key("text", "text")
Parsed(kind) == Key(kind, "parsed")
FileOnly(kind) == Key(kind, "none")
Secret == Key("secret", "text")
Csv == Key("list", "list")

RawDaemonServer == [database_url |-> Text, service_user |-> Text]
RawGitHub == [client_id |-> Text, api_base_url |-> Text, private_key_path |-> Text]
RawBlockValidationTask ==
    [default_recent_blocks |-> FileOnly("number"), max_recent_blocks |-> FileOnly("number"),
     timeout_secs |-> FileOnly("number"), allow_full_validation |-> FileOnly("flag"),
     allow_range_override |-> FileOnly("flag")]
RawFleet ==
    [listen |-> Parsed("text"), server_certificate |-> Text, server_private_key |-> Text,
     lease_hmac_key |-> Text, heartbeat_seconds |-> FileOnly("number"),
     lease_seconds |-> FileOnly("number"), offer_seconds |-> FileOnly("number"),
     session_seconds |-> FileOnly("number"), long_poll_seconds |-> FileOnly("number"),
     request_timeout_seconds |-> FileOnly("number"), upload_grant_seconds |-> FileOnly("number"),
     staging_gc_grace_seconds |-> FileOnly("number"), max_artifact_bytes |-> FileOnly("number"),
     max_attempt_artifact_bytes |-> FileOnly("number"), max_concurrent_requests |-> Parsed("number")]
RawVm ==
    [golden_image |-> Text, build_vcpus |-> Parsed("number"), bench_vcpus |-> Parsed("number"),
     build_memory |-> Parsed("number"), bench_memory |-> Parsed("number"),
     boot_disk_gib |-> Parsed("number"), job_timeout_secs |-> Parsed("number"), network |-> Text,
     poll_interval_secs |-> Parsed("number"), heartbeat_interval_secs |-> Parsed("number")]
RawPaths ==
    [jobs_dir |-> Text, git_mirror |-> Text, results_tmpfs_root |-> Text,
     results_archive_dir |-> Text, virsh_binary |-> Text, sudo_binary |-> Text,
     qemu_img_binary |-> Text, cloud_localds_binary |-> Text, git_binary |-> Text]
RawLvm ==
    [vg_name |-> Text, thinpool |-> Text, chainstate_base_prefix |-> Text,
     chainstate_snapshot_size_gib |-> Parsed("number"),
     min_data_free_percent |-> Parsed("number"), min_metadata_free_percent |-> Parsed("number")]
RawStacksBench == [default_args |-> Text]
RawApi == [listen |-> Csv, cookie_path |-> Text, ingest_token |-> Secret]
RawReporting ==
    [pr_report |-> FileOnly("surface"), baseline_report |-> FileOnly("surface"),
     noise_cv_pct |-> FileOnly("number")]
RawRunner ==
    [max_concurrent_jobs |-> Parsed("number"), max_clean_repetitions |-> Parsed("number"),
     max_variants |-> Parsed("number"), max_comparison_lifecycles |-> Parsed("number"),
     cpu_sets |-> Csv, host_cpus |-> Text]
RawArtifacts ==
    [kind |-> Parsed("store"), endpoint |-> Text, bucket |-> Text, region |-> Text,
     access_key_id |-> Secret, secret_access_key |-> Secret]
RawBinaryCache ==
    [enabled |-> Parsed("flag"), max_size |-> Parsed("number"), dir |-> Text]
RawSlack ==
    [enabled |-> Parsed("flag"), default_repository |-> Text, default_rev |-> Text,
     allowed_team_ids |-> Csv, allowed_user_ids |-> Csv, block_validation_user_ids |-> Csv,
     app_token |-> Secret, bot_token |-> Secret]
RawLlm ==
    [enabled |-> Parsed("flag"), provider |-> Parsed("provider"), model |-> Text,
     input_max_chars |-> Parsed("number"), timeout_secs |-> Parsed("number"),
     per_user_rate_limit_per_minute |-> Parsed("number"), openai_api_key |-> Secret]

RawDaemon ==
    [server |-> RawDaemonServer, github |-> RawGitHub, block_validation |-> RawBlockValidationTask,
     fleet |-> RawFleet, vm |-> RawVm, paths |-> RawPaths, lvm |-> RawLvm,
     stacks_bench |-> RawStacksBench, api |-> RawApi, reporting |-> RawReporting,
     runner |-> RawRunner, artifacts |-> RawArtifacts, binary_cache |-> RawBinaryCache,
     slack |-> RawSlack, llm |-> RawLlm]

ForEachKey(Op(_, _)) ==
    [s \in DOMAIN RawDaemon |-> [k \in DOMAIN RawDaemon[s] |-> Op(s, k)]]
Unset(s, k) == Nothing
Blank == ForEachKey(Unset)

\* What the file and the environment can say for a kind of key.  Ids are
\* written with and without surrounding blanks.
FileValues(kind) ==
    CASE kind = "text" -> {"from file"}
      [] kind = "number" -> operator.numbers
      [] kind = "flag" -> BOOLEAN
      [] kind = "list" -> {<<>>, <<" ">>, <<" id">>, <<"id", "id2">>}
      [] kind = "store" -> {"local", "s3"}
      [] kind = "provider" -> {"openai"}
      [] kind = "surface" -> {"check", "none"}
      [] kind = "secret" -> {}
EnvTexts(key) ==
    LET meant == IF key.kind \in {"text", "secret"} THEN {"from env", ""} ELSE FileValues(key.kind)
    IN  [value : meant, parses : IF key.env = "parsed" THEN BOOLEAN ELSE {TRUE}]

trim(s) == CASE s = " id" -> "id" [] s = " " -> "" [] OTHER -> s
normalize_ids(ids) ==
    SelectSeq([i \in DOMAIN ids |-> trim(ids[i])], LAMBDA s : s # "")

(***************************************************************************)
(* The layers.                                                             *)
(***************************************************************************)
merge_opt(dst, src) == IF src = Nothing THEN dst ELSE src

merge_section(self, other) == [k \in DOMAIN self |-> merge_opt(self[k], other[k])]
merge(self, other) == [s \in DOMAIN RawDaemon |-> merge_section(self[s], other[s])]

env_into(dst, text) == IF text = Nothing THEN dst ELSE Some(text[1].value)
env_parse_into(dst, text) ==
    IF text # Nothing /\ text[1].parses THEN Some(text[1].value) ELSE dst
env_csv_into(dst, text) ==
    IF text = Nothing THEN dst ELSE Some(normalize_ids(text[1].value))
apply_env(self) ==
    ForEachKey(LAMBDA s, k :
        CASE RawDaemon[s][k].env = "none" -> self[s][k]
          [] RawDaemon[s][k].env = "text" -> env_into(self[s][k], env[s][k])
          [] RawDaemon[s][k].env = "parsed" -> env_parse_into(self[s][k], env[s][k])
          [] RawDaemon[s][k].env = "list" -> env_csv_into(self[s][k], env[s][k]))

\* $SBGH_CONFIG is taken verbatim, then the system path, then the home path.
resolve_config_path ==
    IF place = "nowhere" THEN Nothing ELSE Some(place)
Exists(path) == path # "explicit, missing"

(***************************************************************************)
(* into_config, section by section.  Filled gives every key its default;   *)
(* a required or an optional key has none.                                 *)
(***************************************************************************)
Filled(raw, defaults) ==
    [k \in DOMAIN raw |-> IF k \in DOMAIN defaults THEN OrElse(raw[k], defaults[k]) ELSE raw[k]]

DaemonServerConfigDefault ==
    [service_user |-> "sbgh"]
GitHubConfigDefault ==
    [api_base_url |-> "https://api.github.com"]
block_validation(raw) ==
    IF \E k \in DOMAIN raw : raw[k] = Nothing THEN Nothing ELSE Some([k \in DOMAIN raw |-> raw[k][1]])
FleetConfigDefault ==
    [listen |-> "127.0.0.1:9443", server_certificate |-> "/etc/sbgh/fleet/orchestrator.crt",
     server_private_key |-> "/etc/sbgh/fleet/orchestrator.key",
     lease_hmac_key |-> "/etc/sbgh/fleet/lease-hmac.key", heartbeat_seconds |-> 10,
     lease_seconds |-> 45, offer_seconds |-> 30, session_seconds |-> 90, long_poll_seconds |-> 20,
     request_timeout_seconds |-> 120, upload_grant_seconds |-> 300,
     staging_gc_grace_seconds |-> 86400, max_artifact_bytes |-> 8,
     max_attempt_artifact_bytes |-> 32, max_concurrent_requests |-> 64]   \* bytes in GiB
VmConfigDefault ==
    [build_vcpus |-> 4, build_memory |-> 16, bench_vcpus |-> 2, bench_memory |-> 8,
     boot_disk_gib |-> 64, job_timeout_secs |-> 21600, network |-> "sandbox-egress",
     poll_interval_secs |-> 5, heartbeat_interval_secs |-> 60]
PathsConfigDefault ==
    [jobs_dir |-> "/var/lib/sbgh/jobs", git_mirror |-> "/var/lib/sbgh/git/stacks-core.git",
     results_tmpfs_root |-> "/run/sbgh/jobs", results_archive_dir |-> "/var/lib/sbgh/results",
     virsh_binary |-> "/usr/bin/virsh", sudo_binary |-> "/usr/bin/sudo",
     qemu_img_binary |-> "/usr/bin/qemu-img",
     cloud_localds_binary |-> "/usr/bin/cloud-localds", git_binary |-> "/usr/bin/git"]
LvmConfigDefault ==
    [chainstate_base_prefix |-> "mainnet-", min_data_free_percent |-> 5,
     min_metadata_free_percent |-> 5]
StacksBenchConfigDefault ==
    [default_args |-> ""]
ApiConfigDefault ==
    [listen |-> <<"127.0.0.1:8787">>, cookie_path |-> "/etc/sbgh/daemon/.cookie"]
ReportingConfigDefault ==
    [pr_report |-> "both", baseline_report |-> "check"]
runner(raw) ==
    [k \in DOMAIN raw |->
        CASE k = "max_concurrent_jobs" -> AtLeast1(OrElse(raw[k], 1))
          [] k = "max_clean_repetitions" -> AtLeast1(OrElse(raw[k], 5))
          [] k = "max_variants" -> AtLeast1(OrElse(raw[k], 2))
          [] k = "max_comparison_lifecycles" -> AtLeast1(OrElse(raw[k], 10))
          [] k = "cpu_sets" -> OrElse(raw[k], <<>>)
          [] OTHER -> raw[k]]
pins_complete(r) == r.cpu_sets = <<>> \/ Len(r.cpu_sets) >= r.max_concurrent_jobs
S3Keys == {"endpoint", "bucket", "region", "access_key_id", "secret_access_key"}
artifacts(raw) ==
    LET kind == OrElse(raw.kind, "local")
    IN  [kind |-> kind, s3 |-> IF kind = "s3" THEN Some([k \in S3Keys |-> raw[k]]) ELSE Nothing]
BinaryCacheConfigDefault ==
    [enabled |-> FALSE, max_size |-> 10, dir |-> "/var/lib/sbgh/binary-cache"]
SlackConfigDefault ==
    [enabled |-> FALSE, app_token |-> Nothing, bot_token |-> Nothing, default_repository |-> Nothing,
     default_rev |-> Nothing, allowed_team_ids |-> <<>>, allowed_user_ids |-> <<>>,
     block_validation_user_ids |-> <<>>]
slack(raw) ==
    IF ~OrElse(raw.enabled, FALSE) THEN SlackConfigDefault
    ELSE LET users == normalize_ids(OrElse(raw.allowed_user_ids, <<>>))
         IN  [raw EXCEPT !.enabled = TRUE,
                         !.allowed_team_ids = normalize_ids(OrElse(@, <<>>)),
                         !.allowed_user_ids = users,
                         !.block_validation_user_ids =
                            IF @ = Nothing THEN users ELSE normalize_ids(@[1])]
LlmConfigDefault ==
    [enabled |-> FALSE, provider |-> "openai", model |-> "gpt-5-mini", input_max_chars |-> 1000,
     timeout_secs |-> 15, per_user_rate_limit_per_minute |-> 5]

Default ==
    [server |-> DaemonServerConfigDefault, github |-> GitHubConfigDefault, fleet |-> FleetConfigDefault,
     vm |-> VmConfigDefault, paths |-> PathsConfigDefault, lvm |-> LvmConfigDefault,
     stacks_bench |-> StacksBenchConfigDefault, api |-> ApiConfigDefault,
     reporting |-> ReportingConfigDefault, binary_cache |-> BinaryCacheConfigDefault,
     llm |-> LlmConfigDefault]

MAX_LONG_POLL_SECS == 30
MAX_VALIDATION_TIMEOUT_SECS == 7 * 24 * 60 * 60

\* The bug of comparing the lease with one heartbeat instead of three.
MutValidateFleet(f) ==
    /\ f.heartbeat_seconds # 0 /\ f.lease_seconds >= f.heartbeat_seconds
    /\ f.offer_seconds # 0 /\ f.session_seconds >= SatMul(f.lease_seconds, 2)
validate_fleet_config(f) ==
    /\ f.heartbeat_seconds # 0
    /\ f.lease_seconds >= SatMul(f.heartbeat_seconds, 3)
    /\ f.offer_seconds # 0
    /\ f.session_seconds >= SatMul(f.lease_seconds, 2)
    /\ f.long_poll_seconds \in 1..MAX_LONG_POLL_SECS
    /\ f.request_timeout_seconds > f.long_poll_seconds
    /\ f.upload_grant_seconds # 0
    /\ f.staging_gc_grace_seconds >= f.upload_grant_seconds
    /\ f.staging_gc_grace_seconds <= I64MAX
    /\ f.max_artifact_bytes # 0
    /\ f.max_attempt_artifact_bytes >= f.max_artifact_bytes
    /\ f.max_concurrent_requests \in 64..1024

validate_block_validation_config(trigger) ==
    \/ trigger = Nothing
    \/ /\ trigger[1].default_recent_blocks # 0
       /\ trigger[1].default_recent_blocks <= trigger[1].max_recent_blocks
       /\ trigger[1].max_recent_blocks \in 1..I64MAX
       /\ trigger[1].timeout_secs \in 1..MAX_VALIDATION_TIMEOUT_SECS

required(options) == Nothing \notin options
block_validation_complete(raw) ==
    \/ \A k \in DOMAIN raw : raw[k] = Nothing
    \/ \A k \in DOMAIN raw : raw[k] # Nothing
\* The order of the first two checks is the code's: an entitlement without
\* a policy is reported before an empty allowlist.
slack_complete(c) ==
    ~c.slack.enabled \/
        /\ c.slack.block_validation_user_ids = <<>> \/ c.block_validation # Nothing
        /\ c.slack.allowed_team_ids # <<>> /\ c.slack.allowed_user_ids # <<>>
        /\ required({c.slack.app_token, c.slack.bot_token, c.slack.default_repository,
                     c.slack.default_rev})
llm_complete(c) ==
    /\ ~c.llm.enabled \/ required({c.llm.openai_api_key})
    /\ ~c.slack.enabled \/ c.llm.enabled

into_config(raw) ==
    LET c == [s \in DOMAIN RawDaemon |->
                CASE s = "block_validation" -> block_validation(raw[s])
                  [] s = "runner" -> runner(raw[s])
                  [] s = "artifacts" -> artifacts(raw[s])
                  [] s = "slack" -> slack(raw[s])
                  [] OTHER -> Filled(raw[s], Default[s])]
    IN  IF /\ block_validation_complete(raw.block_validation)
           /\ validate_fleet_config(c.fleet)
           /\ validate_block_validation_config(c.block_validation)
           /\ required({c.server.database_url, c.github.client_id, c.github.private_key_path,
                        c.vm.golden_image, c.lvm.vg_name, c.lvm.thinpool})
           /\ pins_complete(c.runner)
           /\ c.artifacts.s3 = Nothing \/ required({c.artifacts.s3[1][k] : k \in S3Keys})
           /\ slack_complete(c)
           /\ llm_complete(c)
        THEN Some(c) ELSE Nothing

load_layered ==
    LET path == resolve_config_path
        read == IF path = Nothing THEN FALSE ELSE Exists(path[1])
    IN  IF read /\ stray THEN Nothing       \* deny_unknown_fields
        ELSE into_config(apply_env(IF read THEN merge(Blank, file) ELSE Blank))

(***************************************************************************)
(* What uses the configuration.                                            *)
(***************************************************************************)
as_millis(secs) == (secs * 1000) % (U64MAX + 1)          \* `as u64` truncates
register(c) ==
    IF c.fleet.session_seconds * 1000 > I64MAX THEN Nothing   \* chrono_duration refuses
    ELSE Some([heartbeat_interval_ms |-> as_millis(c.fleet.heartbeat_seconds),
               lease_ttl_ms |-> as_millis(c.fleet.lease_seconds)])
validate_server_timing(timing) ==
    timing.heartbeat_interval_ms > 0 /\ timing.lease_ttl_ms > timing.heartbeat_interval_ms

Selections == {"recent, default", "recent, maximum", "full"}
resolve_user_selection(policy, selection) ==
    CASE selection = "full" -> IF policy.allow_full_validation THEN Some(1) ELSE Nothing
      [] selection = "recent, default" ->
            IF policy.default_recent_blocks \in 1..policy.max_recent_blocks
            THEN Some(policy.default_recent_blocks) ELSE Nothing
      [] selection = "recent, maximum" ->
            IF policy.max_recent_blocks # 0 THEN Some(policy.max_recent_blocks) ELSE Nothing
validate_payload(policy, count) ==
    count \in 1..I64MAX /\ policy.timeout_secs \in 1..MAX_VALIDATION_TIMEOUT_SECS

Listed(id, ids) == \E i \in DOMAIN ids : ids[i] = id
is_admitted(c, team, user) ==
    /\ Listed(team, c.slack.allowed_team_ids)
    /\ Listed(user, c.slack.allowed_user_ids) \/ Listed(user, c.slack.block_validation_user_ids)
is_authorized_for(c, user, task) ==
    IF task = "Benchmark" THEN Listed(user, c.slack.allowed_user_ids)
    ELSE Listed(user, c.slack.block_validation_user_ids)

(***************************************************************************)
(* The operator and the process.                                           *)
(***************************************************************************)
Minimal ==
    [Blank EXCEPT !.server.database_url = Some("from file"), !.github.client_id = Some("from file"),
                  !.github.private_key_path = Some("from file"),
                  !.vm.golden_image = Some("from file"), !.lvm.vg_name = Some("from file"),
                  !.lvm.thinpool = Some("from file")]
WithSlack ==
    [Minimal EXCEPT !.slack.enabled = Some(TRUE), !.slack.default_repository = Some("from file"),
                    !.slack.default_rev = Some("from file"), !.slack.allowed_team_ids = Some(<<"id">>),
                    !.slack.allowed_user_ids = Some(<<"id">>), !.llm.enabled = Some(TRUE),
                    !.block_validation = [default_recent_blocks |-> Some(10),
                        max_recent_blocks |-> Some(45), timeout_secs |-> Some(90),
                        allow_full_validation |-> Some(TRUE), allow_range_override |-> Some(FALSE)]]
SecretText == Some([value |-> "from env", parses |-> TRUE])

ConfigInit ==
    /\ operator \in Operators
    /\ file = IF operator.profile = "slack" THEN WithSlack ELSE Minimal
    /\ env = ForEachKey(LAMBDA s, k :
                IF operator.profile = "slack" /\ RawDaemon[s][k].kind = "secret" THEN SecretText ELSE Nothing)
    /\ stray = FALSE /\ place = "system" /\ running = Nothing /\ edits = 0

\* The configuration is read once, at a start, so editing a running daemon's
\* is editing a stopped one's.
Edit ==
    /\ running = Nothing
    /\ edits < operator.edits
    /\ edits' = edits + 1
    /\ UNCHANGED <<operator, running>>

EditFile(s, k) ==
    /\ Edit
    /\ \E v \in {Nothing} \cup {Some(x) : x \in FileValues(RawDaemon[s][k].kind)} :
            file' = [file EXCEPT ![s][k] = v]
    /\ UNCHANGED <<stray, place, env>>

SetEnv(s, k) ==
    /\ RawDaemon[s][k].env # "none"
    /\ Edit
    /\ \E t \in {Nothing} \cup {Some(x) : x \in EnvTexts(RawDaemon[s][k])} :
            env' = [env EXCEPT ![s][k] = t]
    /\ UNCHANGED <<file, stray, place>>

\* A misspelled key, or a secret written into the file.
WriteStrayKey ==
    /\ Edit /\ stray' = ~stray
    /\ UNCHANGED <<file, place, env>>

MoveFile(p) ==
    /\ Edit /\ place' = p
    /\ UNCHANGED <<file, stray, env>>

Restart ==
    /\ running = Nothing
    /\ running' = load_layered
    /\ UNCHANGED <<operator, file, stray, place, env, edits>>

Stop ==
    /\ running # Nothing
    /\ running' = Nothing
    /\ UNCHANGED <<operator, file, stray, place, env, edits>>

ConfigNext ==
    \/ \E s \in operator.sections : \E k \in DOMAIN RawDaemon[s] : EditFile(s, k) \/ SetEnv(s, k)
    \/ WriteStrayKey
    \/ \E p \in {"explicit", "explicit, missing", "home", "nowhere"} : MoveFile(p)
    \/ Restart
    \/ Stop

ConfigSpec == ConfigInit /\ [][ConfigNext]_configVars

-----------------------------------------------------------------------------
Up == running # Nothing
Loaded == running[1]

\* Whatever the operator wrote and whichever integer width overflowed, a session
\* that is served at all is served a timing its worker accepts and that leaves
\* room for two lost heartbeats: the check of the session's length against the
\* lease keeps a lease too long for its milliseconds from reaching a worker
\* truncated.  (It does not bound the session's length itself: a daemon that was
\* given too long a one starts and then fails every registration, service.rs
\* chrono_duration.)
TimingTrusted ==
    Up => LET timing == register(Loaded)
          IN  timing # Nothing =>
                /\ validate_server_timing(timing[1])
                /\ timing[1].lease_ttl_ms >= 3 * timing[1].heartbeat_interval_ms

\* Under a policy the daemon started with, the requests its own defaults
\* and ceiling describe become payloads the protocol accepts.
PolicyServable ==
    (Up /\ Loaded.block_validation # Nothing) =>
        LET policy == Loaded.block_validation[1]
        IN  \A sel \in Selections \ {"full"} :
                LET count == resolve_user_selection(policy, sel)
                IN  count # Nothing /\ validate_payload(policy, count[1])

\* A daemon that listens to Slack can serve the mentions it admits: it has a
\* resolver with a key, nobody is admitted by a blank entry, and a user
\* entitled to validations has a policy to validate under.
SlackServable ==
    (Up /\ Loaded.slack.enabled) =>
        /\ Loaded.llm.enabled /\ Loaded.llm.openai_api_key # Nothing
        /\ ~\E id \in {"", " ", " id"}, other \in {"id", "id2"} :
                is_admitted(Loaded, other, id) \/ is_admitted(Loaded, id, other)
        /\ \E team, user \in {"id", "id2"} :
                is_admitted(Loaded, team, user) /\ is_authorized_for(Loaded, user, "Benchmark")
        /\ (\E user \in {"id", "id2"} : is_authorized_for(Loaded, user, "BlockValidation")) =>
                Loaded.block_validation # Nothing
=============================================================================
