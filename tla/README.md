# Verification of the stacks-bench worker fleet

TLA+ modules, TLC configurations and TLAPS proofs for the daemon and worker of
stacks-bench-github (`src/crates`) and for the scripts that prepare its
chainstates (`src/scripts`). The daemon turns GitHub and Slack requests into
*submissions* of *jobs*, stores them in PostgreSQL, and hands the jobs to remote
*workers* that run benchmarks and validations in virtual machines. Hard to get
right are at-most-one execution over an unreliable network with the database as
the only authority; reports that survive failed calls and restarts; and hosts
that are left clean whatever command failed.

`FleetStore`, `AttemptLedger`, `ArtifactExchange`, `RunPlan`, `WorkerLease`, `WorkerLoop`,
`LibvirtDriver`, `QueueRunner` and `DaemonLife` are proved about as well as checked; the other modules are checked on bounded instances.

## Inventory

| component | state | operations | hard behaviour | what makes it correct |
| --- | --- | --- | --- | --- |
| fleet store (`sbgh-postgres/src/stores/fleet.rs`, `fleet/*.rs`) | `worker_registry`, `worker_session`, `worker_attempt`, `job` claim, `task_submission` placement and fence, `worker_cleanup_obligation`, `scheduler_policy`, `fleet_protocol_policy` | register, deregister, poll, accept, heartbeat, terminal, expire, cleanup, recover, cancel, abort, pause, lifecycle, registry update, emergency disable, floor change | every call may be late, repeated or from a dead process; deadlines race the calls that renew them; two-transaction accept | one active attempt per submission, claims and attempts agree, no stranded job, teardown before requeue, cancellation final, offers do not cross a pause, comparable runs |
| event ledger and artifacts (same file, 3071-4135, 4397-4469, 4539-4667) | `worker_attempt_event`, `worker_attempt_progress`, `worker_artifact_staging`, projected and contiguous sequence numbers | ingest, project, discard, grant, verify, promote, reap | duplicates, gaps, conflicts; projection read before and marked after an external call; loss while projecting | projected is a prefix of a log that never changes; artifacts visible only after the terminal |
| fleet service (`sbgh-daemon/src/fleet/service.rs`, `grpc.rs`, `lease.rs`) | open long polls, lease signer | one handler per RPC, maintenance loop | lookups and writes in separate transactions | a handler adds no state the store does not check |
| coordinator (`fleet/coordinator.rs`) | queue projection caches | prepare queued jobs, project events, sweep expired attempts | generation read before and used after network calls | preparation does not cross a pause; every stale attempt is swept |
| worker loop (`sbgh-worker/src/fleet.rs`, `lease.rs`, `events.rs`) | session, local lease, reliable buffer, pending terminal, cleanup acknowledgements | register, poll, admit, execute, heartbeat, send, complete, clean up | a stalled RPC crosses the lease; cancellation races completion | the worker stops before the server gives the work away; terminals are withheld unless teardown was verified |
| protocol negotiation (`sbgh-fleet/src/negotiation.rs`) | none | negotiate, validate selection, digest | revisions and features of two sides | both sides compute the same contract |
| jobs and submissions (`stores/jobs.rs`, `submissions.rs`, `sbgh-daemon/src/submission.rs`) | `job`, `job_event`, `task_submission`, `task_spec` | submit, plan runs, next run, job events | repeated deliveries of one request | one submission per request digest, runs are planned once |
| webhook inbox (`stores/webhook.rs`, `webhook_processor.rs`, `sbgh-handler`, `sbgh-smee`) | delivery rows | store, claim, process, retry | crash between claim and completion | a delivery is processed, or retried until it fails for good |
| Slack (`sbgh-slack`, `slack_queue.rs`, `slack_report.rs`) | sessions, message snapshots, queue position cache | receive, acknowledge, post, update | out-of-order updates, a lost connector | the newest state wins; unreported jobs are not run |
| reporting (`reporter.rs`, `report.rs`, `comparison.rs`) | check-run and message identities | create, update | restart between two provider calls | one provider surface per job |
| binary cache and pins (`binary_cache.rs`, `pin_manager.rs`, `pin_resolver.rs`) | cached binaries and their metadata, pinned refs | look up, publish, evict, recompute pins, warm | metadata read outside the lock | a pinned binary is not evicted, the budget holds, eviction takes the least recently used |
| single-host runner (`runner.rs`, compiled for tests) | slots, claims, machines | claim, renew, run, reap, recover, drain, abort | lost claims, panics, restart | one machine per job, a job ends once |
| daemon life (`lib.rs`, `main.rs`, `shutdown.rs`, `api/auth.rs`) | admin cookie, services, draining and exit tokens | start, supervise, signal, drain, exit | a start cut short, a service that hangs | only this boot's operator can write, every shutdown ends |
| libvirt driver (`sbgh-libvirt`) | files, mounts, loops, volumes, domains of an attempt | provision, boot, poll, tear down, clean up by name | failure between two host commands | teardown is verified before it is acknowledged, no disk has two writers |
| block validation (`libvirt/block_validation.rs` and the guest's runner) | plan, processes, result | probe, plan, run, reduce | guest and host plan separately | the verdict is exact or there is none |
| worker host (`sbgh-worker/src/config.rs`, `host_resources.rs`, `preflight.rs`) | configuration, host, evidence | load, validate, measure, preflight, admit, define | the host or the file changes after the check | what is advertised can run |
| worker link (`identity.rs`, `transport.rs`, `fleet/tls.rs`, `sbgh-proto`) | identity file, connections, permits | generate, dial, verify, queue, call | stalled handshakes, clock skew, peers of another build | a caller is served as itself, nothing is misread |
| intake (`sbgh-intent`, `sbgh-slack/src/connector.rs`, `sbgh-core/src/workload.rs`) | rate limit, policies, queued plans | classify, validate, authorize, submit | an answer of any shape, authority lost meanwhile | what runs is what was asked |
| configuration (`sbgh-core/src/config.rs`) | file, environment | load, merge, check | numbers at their limits | a daemon that starts can serve |
| managed-node scripts (`scripts/managed-node-*.sh`) | node, filesystem, snapshots | install, wait, quiesce, snapshot, resume | failing commands and signals | provenance is true, the host is left as found |
| CLI, HTTP clients, `ripcat` | - | request forwarding, parsing | - | - |

Interaction: workers call the service over gRPC; a handler authorizes the peer
and runs one store transaction (accept runs two). The coordinator task prepares
queued jobs every second, projects events every 250 ms and sweeps expired
attempts every two seconds. Operators change policy through the administration
API. All shared state is in PostgreSQL; the transactions lock in the order
scheduler policy, protocol policy, worker, attempt, session, job (`request_cancel`
starts at the attempt).

## Modules

| module | what it is |
| --- | --- |
| `FleetStore` | the fleet store: one action per writing transaction, plus the passing of deadlines |
| `FleetStoreProofs` | type correctness; the inductive invariant `Consistent`; the properties that follow from it, and those with an argument of their own |
| `ReportChannel` | abstract: what the reader of a report is promised about one attempt's reliable events |
| `AttemptLedger` | one attempt's events, progress, artifacts, Complete calls, maintenance and projection, statement by statement |
| `AttemptLedgerProofs` | type correctness, the event invariant, the refinement of `ReportChannel`; the artifact invariant and the completeness of terminal reports |
| `WorkerLoop` | the worker process, its heartbeat task, and the machines that outlive it |
| `WorkerLease` | one lease in time: the worker's deadline against the daemon's expiry |
| `WorkerLoopProofs` | the inductive invariants of both, and what follows |
| `FleetGateway` | authorization of every call, negotiation, the long poll, enrolment and revocation of keys |
| `FleetWire` | one call on the wire: encoding, decoding, validation, errors and what the worker retries |
| `WorkerLink` | identity keys, connection certificates and the daemon's listener |
| `WorkerHost` | configuration and preflight of a worker, and the machines it defines |
| `TerminalResult` | a result from the machine's files to the daemon's rows |
| `ArtifactExchange`, `ArtifactExchangeProofs` | the files of a submission's runs between worker, staging, bucket, mirror and reader; its inductive invariant and what follows |
| `SerialPlan` | abstract: the runs of a submission are one sequential program |
| `RunPlan`, `RunPlanProofs` | submission, source freezing, preparation, and planning of the next run; its inductive invariant, what follows, and the refinement of `SerialPlan` |
| `TaskIntake` | from a mention or an event to a queued plan and its frozen arguments |
| `WebhookProcessor` | the webhook inbox and every handler, call by call, with operators beside them |
| `SlackThread` | one Slack request and the message that reports on it |
| `GitHubReport` | the comment and the check run of a submission |
| `LibvirtDriver`, `LibvirtDriverProofs` | one attempt on its host, command by command; its inductive invariant and what follows |
| `BlockValidation` | the guest's planner and runner, and the host's reducer |
| `BinaryCache` | the cache of built binaries, its pins and warming builds |
| `QueueRunner`, `QueueRunnerProofs` | the in-process runner of a single host; its inductive invariant and what follows |
| `DaemonLife`, `DaemonLifeProofs` | start, supervision and shutdown of the daemon; its inductive invariant and what follows |
| `ConfigLoad` | the layers and checks of the daemon's configuration |
| `NodeCuts` | the backfill and snapshot scripts of a managed node |
| `MCFleetStore`, `MCFleetPlacement` | instances of `FleetStore`: one worker whose process restarts; two workers competing for a two-run submission, and its recovery |
| `MCAttemptLedger` | instances of `AttemptLedger` |
| `MCWorker`, `MCHost`, `MCDaemon`, `MCIntake`, `MCReports` | instances of the components of one side of the system, see Runs |
| `MCDaemonProgress`, `MCWorkerProgress` | instances under fairness |

How they fit together. Each module keeps of its neighbours what its own steps
read and write. `TerminalResult` uses `BlockValidation`'s planner by INSTANCE,
`AttemptLedger` implements `ReportChannel`, `RunPlan` implements `SerialPlan`.
`WorkerLoop` relies on `WorkerLease` (the daemon expires a lease only once the
worker's deadline has passed), and `FleetGateway`'s calls are the transactions of
`FleetStore` seen with the clock each began at.

### FleetStore: state and actions

Rows are records indexed by model values; a row whose status is `"none"` has
not been inserted. `attempt[a].live` stands for the comparison of
`offer_expires_at` or `lease_expires_at` with `NOW()`, `session[s].fresh` for
`expires_at > NOW()`: time only turns them false (`AttemptDeadline`,
`SessionDeadline`), and the transactions that extend a deadline require it not
to have passed, or set it anew (`RegisterExisting`, `HeartbeatAttempt`).
`newest` is the worker's latest `started_at`. `accepting` holds the accepts that
are past their first transaction (`offered_assignment`) and not past the second
(`accept_offer`), `cancelling` the cancellations that have found no attempt and
not yet read the debts and the job. `cancelled` is an observer: jobs whose
cancellation was answered "accepted".

A transaction is one atomic action, with one exception. This is what the code's row
locks establish: each transaction locks the policy rows and the worker row it
depends on before it reads (`FOR UPDATE`, `FOR SHARE`). `request_cancel` locks
neither (`stores/fleet.rs:2655`). When the job has an active attempt it locks that
row, and is one action (`RequestCancel`); when it has none there is nothing to
lock, and its statements are two steps (`CancelLooksUp`, then `CancelDecides` or
`CancelGivesUp`) between which a poll may offer the job and an accept may start it.
`abort_fleet` selects with the policy row locked, in a pause, so no poll can come
between its statements. `SKIP LOCKED` appears as
nondeterminism (`PollIdle` may find nothing although a candidate exists,
`ExpireStaleAttempts` takes any set of stale attempts, `PollClaim` any
candidate). A refused call writes nothing and is a stuttering step. There is no
model of the network: any call may happen whenever its guard holds, which
contains every duplication, delay and reordering a network can cause.

Abstractions: identity keys and tokens (an authorized caller calls for its own
session), payload contents (`prepared` says the payload is frozen and, for a
Slack job, that its report message exists), `required_measurement_profile` and
the per-payload contract check (static conjuncts of the candidate query), audit
rows and receipts (a repeated request is a stutter), the ledger and artifact
checks of `accept_terminal` (there they only refuse; `AttemptLedger` has them).
`Revision[s]` is the revision of the contract the session negotiated.
`accept_offer` and `accept_terminal` update the session row without naming its
status; the table's CHECK makes those updates fail on an ended row, so both
actions require a live status.

### AttemptLedger: state and actions

One attempt after its acceptance. Here a handler is not one transaction, so
every database statement and every object-store request is a step, and what a
process remembers between two of them is state: `task[t]` for the Complete
handlers (several may overlap: the worker retries) and for the maintenance loop,
`proj` for the coordinator's projection tick.

| state | code |
| --- | --- |
| `status`, `live`, `authorized` | `worker_attempt.status`, `lease_expires_at > NOW()`, the registry check |
| `event`, `contiguous`, `projected` | `worker_attempt_event` rows, `highest_contiguous_reliable_seq`, `projected_reliable_seq` |
| `progress` | `worker_attempt_progress` rows |
| `staging`, `grant`, `aged` | `worker_artifact_staging` rows, their newest grant, whether `created_at` is past the grace |
| `staged`, `visible` | objects under `staging/` and under their logical key (object store, external) |
| `shown`, `report` | observers: the last reliable event the provider took, and what the report says |

The Complete handler verifies each listed upload (`VerifyObject`,
`RecordVerified`), accepts (`AcceptTerminal`) and promotes (`PromoteHead`,
`PromoteCopy`, `PromoteDelete`, `MarkPromoted`); the maintenance loop resumes
promotions and reaps (`MaintenanceTick` ... `MaintenanceDone`); the coordinator
fetches, rechecks, reports and marks (`FetchEvents` ... `TickDone`). `Expire` is
the coordinator's own sweep and so never falls inside a tick; `Fence` is
`register_session` in a service task and may. A failing call may or may not have
had its effect (`TaskFails`, `ReapFails`, `TickFails`), and `Crash` forgets every
process and keeps rows and objects.

Abstractions: the worker's completion is one fixed `request`, repeated on every
retry, so digest, identity and manifest comparisons succeed and a conflicting
event under a known number is left out; heartbeats appear only as `live` staying
true until `LeaseLapses`; rows of other attempts in a projection batch are left
out, and with them the order between attempts (a failed report blocks only its
own attempt); `plan_next_repeat` and job events are writes to other tables. The
signed grant is good at the object store until it lapses, whatever became of the
attempt. The configuration makes the staging grace no shorter than a grant
(`config.rs:1709`), so a row ages only after its first grant is over
(`StagingAges`); a renewed grant may outlive that, as in the code.

`ReportsInOrder` is the refinement: `ReportChannel` with `known <- contiguous`,
`open <- Authoritative` and a call in flight from the recheck to the provider's
answer. It says precisely how much a fenced attempt can still do: one call.

### WorkerLoop and WorkerLease

`WorkerLoop` has a main task (`MainStep`: register, recover, settle debts, poll,
accept, execute, tear down, report, deregister), a heartbeat task, the daemon
reduced to sessions, attempts and debts, and the machines on the host, which a
crash leaves running. A call that fails and is tried again is a step only where
the daemon may have acted on it. `WorkerLease` has both clocks: a deadline is
computed from answers that may be late or lost, the daemon may grant a shorter
lease than it registered, and its clock is off by `Skew`.

### FleetGateway, FleetWire, WorkerLink

`FleetGateway` splits a call into its authorization and its transaction, whose
`NOW()` is the instant it began; an operator's command may fall between any two.
Work is reduced to the one attempt a session may hold. `FleetWire` follows one
call: a message is a function from field names to values, a field's kind says how
it is converted and checked. Honest values vary one field at a time and one field
of one message may be damaged or lost by a peer of another build (`MaxSkew`);
digests are injective. A lost field reads as protobuf's default: `Defaults` says which
of them are taken for one, the rest must be refused, and an offer or a contract
is bound to the revision that has it (`Versioned`). An offer's identity is only
checked when it comes back with Accept (`Uninspected`), and Accept commits before it
validates its answer. Answers that cannot be decoded are not `FleetClientError`s.
`WorkerLink` counts time in ticks, with a skew at the limit of the back-dating;
a stranger may stall, present any wrapper and repeat one it saw, and signs only
with its own key. `accept` errors are retried without delay, as in the code.

### WorkerHost

Bytes, KiB and the `u64` range are scaled down together; a processor list is its
sequence of ranges. Configurations are those within two edits of a working one.
The online processors are looked at when the worker starts and not again.

### TerminalResult, BlockValidation, LibvirtDriver

`BlockValidation` runs the guest's plan and the host's plan of the same range
side by side; a process may fail, lie about its progress or be cut by the
timeout. `TerminalResult` goes on from the files a machine leaves: texts are
sequences of character classes with byte widths, limits and `i64` are scaled, and
one fault damages one file or one field of the result, or keeps the daemon from
reading the uploaded run back (`job_source.rs:844`). A run's counters may be beyond
`i64`: the casts wrap them and the columns' CHECKs refuse them. An exit 1 without a
diagnostic is `BlockValidation`'s finding and is left out here, as are
`chainstate_origin` and the `i32` conversions, which earlier checks bound.
`LibvirtDriver` has one step per host command; each may fail without effect, a
crash forgets the handles and keeps the host, and cleanup by name follows.

### ArtifactExchange, RunPlan, TaskIntake

In `RunPlan` and `ArtifactExchange` a database file is the set of runs or
attempts whose rows it holds, so that losing rows is visible. In `RunPlan` a source is
resolved one request at a time, so a push may fall between two specs of a
submission; a queued run may be cancelled, or failed for lack of its connector, and a
running one may lose its worker and be queued again. `ArtifactExchange`
has one worker for all runs of a submission, as placement guarantees, and leaves
reaping to `AttemptLedger`; an attempt is the pair of its run and its number. The worker
reuses a file it has cached for the submission (`remote_artifacts.rs:126`), so from
the third run on the seed may be the file of an earlier run than the predecessor:
`ResultsBuildOn` says what holds of every file, that it stands on some accepted one.
`TaskIntake` has one user, who may be entitled to no task, one or both, one commit
per delivery and one changed field per answer; texts and their hexadecimal forms are tables, `u64`
is scaled to 16. The payload of a block validation is prepared at submission.

### WebhookProcessor

A handler is the sequence of store and GitHub calls it makes for its event
(`Program`), each call a step, so that another processor, an operator, a push or
a crash may come between any two. One installation, one user; the events arrive
in any order.

### SlackThread, GitHubReport

Every call may fail, or succeed and lose its answer; the daemon may restart.
Slack's message carries the version of its snapshot; the publisher, the session
of each run and the debounced progress each remember one. Reactions are left out
as best-effort decoration. GitHub's objects are found again by marker after a
restart, and the pull request's head may move between any two calls.

### BinaryCache, QueueRunner, DaemonLife, ConfigLoad, NodeCuts

`BinaryCache` separates the read of metadata from the mutation under the lock.
`QueueRunner` has the rows, the slots and the machines; a worker task that panics
loses its machine, and rows it leaves running wait for the next boot. A teardown may
fail: the machine stays, and the run counts as failed or aborted (`KeptOutcomes`).
`DaemonLife` takes the start-up step by step, with the admin token named by its
boot; services are reduced to running, failing, hanging and ending, there is one
daemon process (a second start would overwrite the cookie), and systemd's
`Restart=on-failure` is why `CleanEndMeansSignal` matters. `ConfigLoad` scales
integers to 21 bits and bytes to GiB; edits are made while the daemon is stopped.
`NodeCuts` has one height for both chains; a signal may fall between a command
and the assignment that remembers it. The validation of a snapshot may be turned off
(`Validate`), and then a snapshot counts as good when it is complete. Of the options
only `--from` and `--restart-on-failure` are modelled: `--only`, `--through`,
`--skip-install`, `--skip-start`, `force_install`, the dry run and SIGKILL are not.


## Runs

An MC module of the daemon, intake, host, reports, worker and progress runs
checks several components at once. Its variable `part`, chosen in `Init` and never
changed, names the case a behaviour is about: one component with one choice of
its constants. The variables of the other components hold `Off`. A component is
an instance (`Result(k) == INSTANCE TerminalResult WITH ...`) over a table of
cases, so each case is explored from its own initial states with exactly the
component's `Init` and `Next`. The component a run has theorems about is
EXTENDed instead (`WorkerLoop` and `ArtifactExchange` in `MCWorker`, `DaemonLife` in `MCDaemon`, `WorkerLease` in
`MCWorkerProgress`, `QueueRunner` and `LibvirtDriver` in `MCHost`, `RunPlan` in `MCReports`), so
that TLC evaluates its assumption and checks the very definition that is proved;
its variables keep their initial values in the other parts. `MCDaemon` extends
`ConfigLoad` for its assumption.

A property of such a run is the conjunction of what the component promises, for
the cases it is about; the parts are named definitions of the component's module
with a comment each.

| run | instance | what it asks |
| --- | --- | --- |
| `fleet_store` | 1 worker whose process restarts (2 sessions), 1 submission, 2 jobs, 2 attempts; parts: scheduler pause with aborts and floor changes, lifecycle and registry commands, cancellation (in two halves for the job without an attempt, `MayCancel`), preparation and queued failures | does every order of calls, deadlines, sweeps, restarts and operator commands keep a job owned once and settled once? |
| `fleet_placement` | 2 workers, 3 jobs, 2 submissions (one created by recovery), 2 attempts | do competing polls and recovery keep a submission serial, placed and torn down? |
| `ledger` | parts: 3 events with 2 progress updates; 2 uploads and a manifest of one or both; 1 upload with 2 overlapping Complete calls and maintenance | do storing, projecting, losing and restarting show the events in order and acknowledge only what was shown, and is no listed file lost? |
| `worker` | parts for `WorkerLoop` (2 attempts, crash, signal), `WorkerHost`, `WorkerLink`, `BinaryCache` and `ArtifactExchange` (2 runs of 2 attempts, 2 faults) | is the host ever shared or left dirty, does what is advertised fit, is the caller served as itself, do cache and files keep what they should? |
| `host` | parts for `LibvirtDriver` (a benchmark, one with a calibration that may find its binary, a build that may, a validation of 2 shards; 3 failing commands and crashes in all), `BlockValidation`, `TerminalResult`, `QueueRunner` (2 submissions of 2 runs, 2 slots, `Mishaps` = 2 deaths, stops, panics and failed calls in all) and `NodeCuts`; one to three faults each | whatever command fails: is a disk pulled from under a machine, is a verdict wrong, is a machine lost, is a recorded height false? |
| `daemon` | parts for `ConfigLoad`, `DaemonLife`, `FleetGateway` (revocation, operators, enrolment, contracts) and `FleetWire` | can a daemon start that cannot serve, how long can work outlive its caller's key (2 calls in flight), is a damaged or shortened message misread? |
| `intake` | parts for `TaskIntake` (answers, limits, revoked, frozen) and `WebhookProcessor` (commands, triggers, registry, install, pulls, operators) | does what is queued follow from what was asked and from the authority at that moment? |
| `reports` | parts for `RunPlan`, a plan of 2 repeats and another spec (race: 2 deliveries of one key, a redelivery, a push, a pause and no faults; legacy: 2 daemons freeze and run a stored submission across a pause and a resume; runs: one plan to its end with 2 faults, failing runs and lost files), `SlackThread` (faults, a second delivery, a second run, progress over a restart, progress an outcome overtakes) and `GitHubReport` (a pull request with a push, with two runs, with overtaken progress; a commit) | is a plan one sequential program, and has each submission one message, comment and check that shows its end? |
| `daemon_progress` | the daemon's components under the fairness of its loops | does everything the daemon owes happen? |
| `worker_progress` | `WorkerLease` with skewed clocks and late answers, and the worker's components under the fairness of its loops | does a deadline ever outlive its lease, and does everything the worker owes happen? |
| `fleet_wedge` | 1 worker, 2 submissions, 2 attempts | expected violation, see Findings |
| `ledger_last_word` | 1 event, 1 progress update | expected violation, see Findings |

The properties of the passing runs, and the parts they name:

| property | says |
| --- | --- |
| `TypeOK`, `Consistent` (`fleet_store`) | the rows of the store have their types, and those of jobs, attempts, submissions and debts agree: `ClaimAgrees`, `NoJobStranded`, `FenceCurrent`, `OneTerminalPerJob`, `CancelIsFinal` and the parts that make it inductive |
| `HistoryKept` | `JobSettles`, `AttemptNeverRevived`, `RequeueAfterTeardown` |
| `PolicyHolds` | `OffersOfThisGeneration`, `FloorHolds`, `OneLiveSession` |
| `OneActivePerSubmission`, `ComparableRuns`, `TeardownBlocksReuse` (`fleet_placement`) | competing workers: one runs a submission, all its benchmarks on one worker and profile, none while a teardown is owed |
| `AcknowledgedWasReported`, `ListedArtifactsKept`, `TerminalReportComplete`, `ReportsInOrder` (`ledger`) | the worker forgets only what was reported; listed files are kept and visible when the outcome is; the reports are a `ReportChannel` |
| `OneTenant`, `NothingForgotten` (`worker`) | two attempts are never on the host; `LeftoversOwed`, `OutcomeAfterTeardown`, `LeavesClean` |
| `HostFits` | `MachineFits`, `DevicesDistinct`, `AdmittedRuns`, `ReportIsRunning`, `HealthyWhenAccepted` |
| `PeersKnown` | `ServedAsItself`, `FreshWrapper`, `IdentityKept` |
| `CacheHonest` | `MetadataMatches`, `WithinBudget`, `PinnedKept`, `LeastRecentlyUsed` |
| `FilesAccepted` | `AcceptedKept`, `ServesAccepted`, `ResultsBuildOn` |
| `MachinesExclusive`, `NoMachineInTheWay`, `OutcomesTrue` (`host`) | the single-host runner: `OneMachinePerJob`, `SlotsConserved`; no machine is left of a completed job or of one that may still start; `EndsOnce`, `ReportFollowsStore`, `DatabaseComplete` |
| `MachinesAccounted` | `LiveBacking`, `CleanupProves`, `SuccessIsReal`, `NoTwoWriters`, `VerifiedIsClean` |
| `ValidationExact` | `VerdictExact`, `EachBlockOnce`, `HonestAccepted`, `WithinCeiling`, `ProgressHonest` |
| `ResultsFaithful` | `RowResolvesTask`, `VerdictTrue`, `HonestAgreed`, `AcceptedPersists`, `MetricKept`, `FailureCarried` |
| `SnapshotsTrue` | `GoodSidecarsTrue`, `SuccessIsComplete`, `LeavesNodeAsFound`, `OneSnapshotPerCut` |
| `ConfigServable` (`daemon`) | `TimingTrusted`, `SlackServable`, `PolicyServable` |
| `CallersAuthorized` | `BornAuthorized`, `RevocationBounded`, `RevokedForGood`, `OnePoll`, `ContractsAgree` |
| `WireExact` | `NeverMisread`: a damaged or shortened message is refused, or its missing field is one of `Defaults` |
| `LifeOrderly` | `CookiePrivate`, `CookieServes`, `OnlyOperatorWrites`, `CleanEndMeansSignal`, `SlackOptional`, `GraceHonoured` |
| `RequestsHonoured` (`intake`) | `RunsWhatWasAsked`, `AcceptedNeverInvalid`, `RefusalExplained`, `RateLimited`, `RevocationHonoured`, `FrozenArgsPlaced`, `OneInProcessRepetition` |
| `JobsAllowed` | `OneActivePerCommit`, `RevokedIsDisarmed`, `RetiredHasNoMembers`, `JobsAuthorized` |
| `DeliveriesFinal` | `GivenUpExactly`, `ResultsFinal`, `ReopenedByEvent` |
| `SourcesFrozen` (`reports`) | `OneSubmissionPerKey`, `SourcesAgree`, `SeededFromFirst`, `FrozenForGood`, `FreshlyResolved` |
| `ImplementsSerialPlan` | `RunPlan` implements `SerialPlan` |
| `MessageTrue` | `OneMessage`, `AcknowledgedShown`, `RunnableIsReported`, `VersionsGrow` |
| `ChecksTrue` | `OneReport`, `FinalShown`, `CheckStaysConcluded` |
| `WorkSettles`, `OutcomesProjected` (`daemon_progress`) | a shutdown ends, claims resolve, lost work is owed, an unfinished plan waits for nobody but workers, deliveries are decided; every outcome is projected and marked reported, and leftovers of lost uploads go |
| `DeadlineBeforeExpiry` (`worker_progress`) | the worker's deadline never outlives the daemon's lease |
| `HostRecovers`, `WorkEnds` | debts are paid, attempts end, cleanup is verified, permits come back; warm builds land, files are promoted, validations, backfills and jobs end |

Bounds. Two sessions are a predecessor and a successor, the only relation
between sessions the code distinguishes. Two attempts of one job are an original
and a retry, enough for a late call of the one to meet the other. Two scheduler
changes are a pause and a resume. The proofs cover any number of each, and all
commands together. Three events allow a gap that closes over two stored ones,
two artifacts a manifest that omits one, two handlers and maintenance every pair
of concurrent promotions. Elsewhere the bounds count what goes wrong
(`MaxFaults`, `MaxFailures`, `MaxRestarts`, ...): one fault falls between any two
steps, and where a second one meets the recovery of the first there are two or
three. Two processors, daemons, deliveries or job tasks are enough for a race of
two steps; where a race is beyond a run's time its case says so by having one.

Deadlock is not checked (`CHECK_DEADLOCK FALSE`) where a finite story really
ends: identities, deliveries or jobs of the instance are used up. The `ledger`
run checks it: there some step is always possible until all is settled.

Some properties are stated for the cases in which the code keeps them; the
observations below say what happens in the others.

- `ClaimAgrees` and `CancelHeld`: except an offer that a cancellation overtook
  (`Overtaken`).
- `ComparableRuns` in `fleet_placement`: the run has a single measurement profile;
  that a submission keeps its profile when the registry changes it is part of
  `Consistent`, which `fleet_store` and the proof cover.
- `RevocationBounded`: the bound counts the calls in flight, one term each.
- `TimingTrusted`: of sessions that are served; a session length beyond what a
  timestamp holds passes the configuration's checks and fails every registration.
- `NeverMisread`: except the fields of `Defaults`, whose absence is taken for a value.
- `JobsAuthorized` and `OneActivePerCommit`: with one processor, as a daemon runs
  (`lib.rs:203`), the first also without operators' commands. The lookup of an active
  job on the commit is best effort under two processors, as the code's own comment says
  (`webhook_processor.rs:572`).
- `OneMessage`: for deliveries that follow each other (`Overlap` is `FALSE`);
  `socket.rs:94` spawns a task per delivery, and two that overlap may both post.
- `AcknowledgedShown`: without restarts; `FinalShown`, `CheckStaysConcluded` and it
  except for progress that the outcome overtook, which is what `ledger_last_word` finds;
  `CheckStaysConcluded` with one run, since a second one reopens the check on purpose.
- `VersionsGrow`: of the numbers, which order publications, not the states they tell of;
  and with debounced progress only without faults, since a lost answer and a debounced
  flush together can show an older version for a moment.
- `AcceptedPersists`: except a benchmark's counter beyond `i64`. `MetricKept`: unless
  the daemon fails to read the uploaded file.
- `OutcomesProjected`: a completed run's end that is still unreported when a later run
  fails is excepted, and no archived file is lost (`MayLoseFile` is `FALSE`). "Marked" is
  what the coordinator recorded; what the message shows is `AcknowledgedShown`'s matter.
- `MetadataMatches`, `WithinBudget` and `PinnedKept`: with one job task; a warm build
  lands with one thread.
- `NoMachineInTheWay` lets a machine stay whose row is failed or cancelled.
- `LeavesNodeAsFound`: without signals and with one failing command, so not when the
  clean-up after a failure fails too. `OneSnapshotPerCut`: for an operator who resumes
  as the usage says, at a cut that is enabled and not done.
- `FrozenArgsPlaced`: for mentions of a range and for all GitHub arguments.

Fairness. The progress runs state liveness in the form `[]<>good` over a case
that is bounded in its faults: from every state the thing owed is settled again
later. They assume weak fairness of each loop's steps, and strong fairness only
where a loop meets its chance again and again without waiting for it (a
claim that is retried every tick while a lease or lock comes and goes).
- Daemon: an offer's deadline is fixed when it is made, so it passes; the
  coordinator prepares every second, projects every 250 ms, sweeps and maintains
  every two seconds (`coordinator.rs:114-155`); the webhook processor polls its
  inbox; a shutdown has a grace timer (`shutdown.rs:66`). Nothing is assumed of
  workers: a plan need not come to its end, it must not wait for anyone else. Nothing
  is assumed of operators, GitHub or Slack beyond that failures stop, which the bound on
  their number says.
- Worker: the main task and the heartbeat task go on, a command on the host
  returns or is cut by its timeout, a process that lost its authority ends
  (`fleet.rs` of the worker). Nothing is assumed of the daemon's operators.

That a teardown debt is ever paid is claimed of a worker that runs
(`HostRecovers`) and not of the store alone: a worker may stay away for ever,
which is why the operator command `recover_submission` exists.

Every property has a mutant (`Mut...` operators, each placed before the
definition it stands in for) that makes its run fail.

## Findings

`fleet_wedge`: `poll_offer` looks for an existing offer of the session that has
not expired, and the candidate query excludes active attempts of the
*submission* only. A session whose offer has expired but has not been swept can
therefore be offered a job of another submission and accept it. The sweep of the
first offer then ends the session (`offline`, `ended_at` set). The second
attempt goes on: its heartbeats do not look at the session status. But
`accept_terminal` finally sets the session to `idle` or `draining` whatever its
status, the row's CHECK rejects the update, the transaction rolls back, and the
worker retries a terminal that can never be accepted. The property
`TerminalRespectsSessionCheck` states that a terminal which passes
`accept_terminal`'s own checks meets a live session row.

`ledger_last_word`: the projection tick handles an attempt's reliable events
first and its progress second, and `unprojected_progress` also returns the rows
of finished attempts. Progress stored before the terminal and not yet projected
is therefore reported after it, in the same tick or, when its report failed, in a
later one. The surface that made the terminal report was dropped
(`coordinator.rs:528-533`), so a new one with no memory of it overwrites the
GitHub comment and sets the check run back to in progress; no later step repeats
the terminal. `TerminalReportIsLast` states the contract of `report.rs:109`:
`started`, then phases, then one of `completed`, `failed`, `cancelled`.

## Observations

Behaviour the models have and no run asks about; each was met while a module was
written and explains why a property is stated for some cases only.

- `coordinator.rs:679`: a terminal projected again after a later run completed
  copies the older database over the submission's shared file.
- `reporter.rs:196`: a completed run whose report failed once is refused when a
  later run failed meanwhile, and its event stays pending.
- `coordinator.rs:510`: one terminal whose archived file is missing ends the tick
  before the events of other attempts, on every tick.
- `webhook_processor.rs:1449`: a retried comment whose job was committed resolves
  a head that has moved and conflicts with its own submission until it is failed.
- `admin/user.rs:127`: a grant checked before a removal is inserted after it.
- `driver.rs:1797`: each phase reads the shared journal from its start, so the
  calibration's `done` counts for the benchmark; `driver.rs:1493`: a failed
  minimal seed leaves its loop attached to the `source.raw` that the checkout then
  formats and boots, two writers of one file as `source.rs:85-88` warns;
  `driver.rs:2010`: teardown deletes the file of such a loop; `driver.rs:1875`: a
  machine that writes `done` and powers off between two reads is taken for dead.
- `block_validation.rs:346`: exit 1 after the last block without a diagnostic
  reaches `unreachable!`; `block_validation.rs:813`: an empty, long or
  control-character diagnostic withholds a negative verdict.
- `stores/fleet.rs:2588`: a transaction begun before an emergency revocation
  renews the lease it expired, and another heartbeat authorized before it renews that.
- `cancellation.rs:13-103`: a poll that commits between the statements of
  `request_cancel` leaves the job cancelled and its attempt offered; an accept is
  refused, the offer lapses, and its sweep takes the worker's session offline.
- `libvirt/driver.rs:1963`: a machine whose teardown failed belongs to a row that is
  failed or cancelled; recovery at boot looks at running rows only.
- `job_source.rs:844`: a metric whose file cannot be read back is lost without a word;
  `job_source.rs:891`: a counter beyond `i64` passes every check and breaks the commit of
  an accepted result, at every retry.
- `service.rs:1234`: with too long a `session_seconds` the daemon starts, and then every
  registration fails.
- `snapshot.rs:394`: after a restart a snapshot below the message's version is
  dropped and acknowledged; `socket.rs:94`: two overlapping deliveries both post;
  `connector.rs:540`: a stored submission whose answer was lost is shown as failed.
- `reporter.rs:489`: the merge base is asked for by branch name after the head
  was compared with the benchmarked commit.
- `managed-node-backfill.sh:116`: the printed hint repeats a completed cut;
  `managed-node-backfill.sh:233` and `:322`: jq's `//` takes a plain `false` for an absent
  value, so `enabled: false` and `validate_snapshot: false` read as true.
- `binary_cache.rs:127`: metadata read before the lock is written back and clears
  a pin set in between.
- `remote_artifacts.rs:126`: a file downloaded for an earlier run is served again
  under its key although the coordinator has replaced the object.
- `config.rs:1764`: an environment variable that does not parse is skipped.
- `workload.rs:91`: a block or transaction mention is queued with a key that the
  normalized arguments no longer have; `workload.rs:88`: the count of the full
  `u64` range wraps to `--count 0`.
- `stores/fleet.rs:2759`: recovery leaves still-queued jobs of the old submission
  runnable; `stores/fleet.rs:2087`: a head candidate the session cannot run makes
  a poll answer no work; `stores/fleet.rs:3650`: a renewed grant outlives the
  staging row's grace.

## Proofs

Eight modules hold the proofs, one per component; each states its inductive invariant
first, then one lemma per action or group of actions, then the theorems.

`FleetStore`. Assumed: only `StoreAssumption`, the typing of the constants. Proved for every
number of workers, sessions, jobs, submissions and attempts, every set of
commands and any generation bound:

1. `TypeCorrect`: `Spec => []TypeOK`, one lemma per action.
2. `ConsistentAlways`: `Spec => []Consistent`. `Consistent` is the inductive
   invariant. The properties a reader cares about are not inductive alone:
   `TeardownBlocksReuse` needs that the debt belongs to the newest fence and is
   the only one of its submission (`OneDebtPerSubmission`), because otherwise
   paying one debt could requeue a job another one still blocks; that needs
   `PlacementAgrees`, since `has_pending_cleanup` asks per *worker* and the
   exclusion is per *submission*: the two coincide only because every attempt of
   a submission sits on the worker it was placed on. `CancelIsFinal` needs
   `CancelHeld` (an active attempt of a cancelled job has been asked to stop, or is
   an offer nobody can accept, `Overtaken`, and its debt does not requeue), because
   a cancellation may decide on what it saw before a poll.
3. `OneActive`, `CancelFinal`, `NoneStranded`, `TeardownBlocks`,
   `FencesCurrent`, `RunsComparable` follow from `Consistent`.
4. `NeverRevived`, `SettledStays` and `RequeueOnlyAfterTeardown` are action
   properties, proved step by step under the invariant.
5. `NoOfferAcrossPause` and `FloorAlways` have inductive arguments of their own
   (the generation of an offer; quiescence when the floor moves), `OneLive`
   follows from `LiveIsNewest`.
6. `HistoryAlways` and `PolicyAlways` combine 4 and 5 into the two properties
   `HistoryKept` and `PolicyHolds` that the run checks.

`AttemptLedger`. Assumed: only `LedgerAssumption`. Proved for every number of
events, progress updates, artifacts, overlapping calls and failures:

1. `LedgerTypeCorrect`: `Spec => []TypeOK`.
2. `EventsAlways`: `EventsConsistent` is inductive. `AcknowledgedWasReported`
   alone is not: marking after a report needs that the event in the projector's
   hand is the next one, unless the attempt was lost meanwhile, and then the
   position has moved past it, so that marking does nothing.
   `AlwaysAcknowledgedIsStored` and `AlwaysAcknowledgedWasReported` follow.
3. `ImplementsChannel`: `Spec => ReportsInOrder`; each step of the ledger is a
   step of `ReportChannel` or none, under the two invariants above.
4. `ArtifactsAlways`: `ArtifactsConsistent` is inductive. Rows and objects change
   in different steps, so `ListedArtifactsKept` needs what each process may rely
   on between its steps (`TaskKnows`: a promotion that deletes a staging object
   has seen the copy, whatever others do; the reaper's list stays reapable because
   loss and outcome are final) and what rows say about objects
   (`RowsMatchObjects`). `ListedAlwaysKept` and `AlwaysOnlyAcceptedVisible` follow.
5. `TerminalAlwaysComplete`: `attempt_terminal_outcome` looks only at rows; with
   `RowsMatchObjects` that is enough for every listed artifact to be visible when
   the terminal is reported, also by a call that was already on its way.

`WorkerLease` (in `WorkerLoopProofs`). Assumed: only its `LeaseAssumption` and that `NoTime` is no instant. `LeaseTyped` is type
correctness; `LeaseSafe` proves `DeadlineBeforeExpiry` for every registered and
granted TTL, clock skew and delay: a deadline the worker computes from an answer
never passes the daemon's expiry, because the answer was sent after the
expiry was written and the worker counts from before it asked.

`WorkerLoop`. Nothing is assumed of the constants. `Invariant` proves
`Spec => []IInv` for any set of attempts and any number of deaths, lapses and
lost answers; `OneTenantAlways`, `LeftoversAlwaysOwed`,
`OutcomeAlwaysAfterTeardown`, `AlwaysLeavesClean` and, of the three,
`NothingForgottenAlways` follow. `OneTenant` alone is
not inductive: that the host is empty when an attempt starts follows only from
what the daemon knows. `IInv` therefore relates the two views: at most one attempt
is active and an idle session has started none (`Exclusive`,
`IdleStartedNone`), what is on the host is started or owed (`LeftoversOwed`), debts
belong to fenced attempts (`DebtsFenced`), so an offer to a session without debts
meets an empty host; and while the worker trusts its lease the daemon honours it
(`TrustedHeld`), so what execution puts there is never forgotten.

`QueueRunner`. Assumed: only `RunnerAssumption` (finitely many submissions, at
least one run and one slot). `RunnerInvariant` proves `Spec => []IInv` for any
number of submissions, runs, slots, claims, faults, crashes and stops;
`MachinesExclusiveAlways`, `NoMachineInTheWayAlways` and `OutcomesTrueAlways` follow.
None of the three is inductive alone. That no job runs in two slots rests on
`TokensFresh` (no token is handed out twice, and no two tasks share one) and
`TasksHold` (a task past `mark_running` has the token of its row, and the row runs):
a claim the sweep took back has another token, so its old task cannot start. That a
row ends once needs that recovery meets no task (`Recovering`). That a completed run
holds every run before it is a loop through the whole chain: the runs of a submission
are in order (`InOrder`), the carried database is that of the runs before the one in
progress (`CarryCurrent`), a machine was seeded from it (`SeedCurrent`), and the next
run does not exist before the database has been carried (`AppendDue`).
`NoMachineInTheWay` needs `TornDown`: a run is reported completed after its machine is
gone, although a failed or aborted one may leave its machine.

`LibvirtDriver`. Assumed: only `DriverAssumption` (the kinds of tasks; a shared baseline
belongs to a benchmark, and a validation has at least one snapshot, `lvm.rs:114`).
`DriverInvariant` proves `DriverSpec => []IInv` for any set of tasks, any number of shards
and any number of failing commands and crashes; `MachinesAccountedAlways`
(`MachinesAccounted`) follows. The property is not inductive: that a defined domain
keeps what it is made of needs that the step the setup has come to tells what exists
(`Made`), that a handle exists for everything a teardown must find (`Handled`; shards
whose roll-back failed are the exception the property names), and that teardown and cleanup
come to a disk only past the step that proved the domain gone (`Ordered`), which also
carries what a verified end has released so far and whether a loop is in doubt. That a
machine never shares its disk with the host needs who may hold which loop (`Sources`): a
checkout is let go of before anything is defined, a failed minimal seed may keep a loop on
the source disk, the exception `NoTwoWriters` names.
That success is real needs that only machines of the task write and that a phase was
taken for done on an entry that was read (`Spoken`). One lemma per outcome of a command,
then one per group of actions.

`RunPlan`. Assumed: only `PlanAssumption`: at least one spec and one run of each,
marks such as `None` that are no submission and no commit, and that the
idempotency rows an older release left name each submission once
(`migrations/20260728000003_v27_submission_kernel.sql:98`, `task_submission_id` is
UNIQUE). Proved for any number of producers, keys, submissions, specs, repeats and
daemons, and any number of pushes, redeliveries, pauses, crashes, failed reports, queued
cancellations and lost attempts that are queued again:
`PlanInvariant` (`Spec => []IInv`), `SourcesFrozenAlways` (`SourcesFrozen`),
`RunsSequential` (the refinement of `SerialPlan`) and `OneLiveRun`. The properties
alone are not inductive, because a coordinator resolves, freezes and prepares, or
promotes, appends and reports, in separate transactions while another daemon does
the same. `IInv` adds what it remembers in between (`Coordinated`, of `Preparation`,
`Freshness` and `Projection`): the commits it froze are recorded, those it has yet to
freeze are of the generation it read unless that is over, the runs it projects are
over, and the first run's rows are in the shared database before it appends. Each of
these is a fact no step takes back (`Grows`), so `CoordinatedOn` proves once that a
step only has to account for the coordinator it moves. Creation of runs in order is
`Sequential`, kept because completion is for good and a run is appended right after
the one projected (`NextIs`); that no later run starts from a fresh database needs
`Carries`; that a key is never given a second submission needs `RowsHaveRuns` and
`AnswersHaveRows`, as the insertion picks an id with no row.

`ArtifactExchange`. Assumed: only `ExchangeAssumption` (at least one run and one
attempt of each). `ExchangeInvariant` proves `ExchangeSpec => []IInv` for any number of
runs, attempts and faults; `FilesAcceptedAlways` (`FilesAccepted`) and
`OnlyAcceptedCarriedAlways` follow. None is inductive alone. A lost attempt goes on
uploading while its successor runs, so that an accepted file is still there needs that
a staging key names its contents (`StagedByContent`): whoever writes under the key
writes the same bytes. That the API serves what was accepted needs that the copies
under final keys are absent or accepted (`StoresAccepted`) and that a task between
its two requests holds such a copy (`Holds`). That a result stands on an accepted one
needs the whole way of a seed: the part file, the cached file and the seed are
accepted files (`AttemptsHonest`), and a later run exists only once all before it have
one (`JobsInOrder`). An accepted file is never replaced, so each of these facts
survives every step of another process; the lemmas on `Grown` prove that once.

`DaemonLife`. Nothing is assumed of the constants. `LifeInvariant` proves
`Spec => []IInv` for any number of starts, any grace and any set of configurations;
`LifeOrderlyAlways` (`LifeOrderly`) and `OnlyTheCookieWrites` follow, the latter for any
token whatsoever, where the run tries the ones the model knows. `IInv` adds what each
start-up step knows of those before it (`CookieFollowsStart`: a file that others may
read holds at most a token no start of this model drew, it is private before it is
written), that no service runs before `try_join!` and Slack's arm never fails
(`ServicesFollowStart`), and that a result belongs to a process that is down
(`ResultIsLast`), whose services and tokens nothing changes any more.

Only model-checked: the liveness properties (`HostRecovers`,
`WorkSettles`, `OutcomesProjected`, `WorkEnds`: fairness is out of the prover's
reach); and every property of the run `intake`, of `daemon` except `LifeOrderly`, of `worker` except
`OneTenant`, `NothingForgotten` and `FilesAccepted`, of `host` except the three of `QueueRunner` and `MachinesAccounted`, and
`MessageTrue` and `ChecksTrue` of `reports`. Their
modules have no theorem yet. Some of them, such as the texts and shards of
`TerminalResult` and `BlockValidation`, are about what recursive definitions compute,
which only TLC can evaluate.

## Not modelled

Rendering of reports, statistics of comparisons, the text of domain descriptions
and seed images, the bytes of lease tokens and signed links, HTTP clients, the
CLI's parsing and listing, and `ripcat`: no shared state or no concurrency of
their own. `PROJECT.json` lists every component with its status and what is left
out of it.
