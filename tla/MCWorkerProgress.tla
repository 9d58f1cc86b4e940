-------------------------- MODULE MCWorkerProgress --------------------------
(***************************************************************************)
(* What must eventually happen on a worker's side: WorkerLoop, WorkerLink, *)
(* BinaryCache, ArtifactExchange, LibvirtDriver, BlockValidation, NodeCuts *)
(* and QueueRunner on small instances, each under the fairness its tasks   *)
(* justify; and the lease that bounds all of it in time (WorkerLease).  A  *)
(* behaviour is about one case, named by part; the variables of the other  *)
(* components are Off, those of WorkerLease as in its initial state.  The  *)
(* properties have the form that MCDaemonProgress explains.                *)
(***************************************************************************)
EXTENDS WorkerLease, Sequences, FiniteSets

CONSTANTS None, a1, c1, c2

VARIABLES
    part,
    pc, leaving, cur, beat, lost, cancel, drain, signal, undelivered,
    unacked, session, lapsed, attempt, owed, deaths, lapses,             \* WorkerLoop
    time, file, printed, enrolled, client, listening, conn, queue, dials, \* WorkerLink
    entries, lock, th, remote, builds, clock,                            \* BinaryCache
    at, cached, staged, bucket, mirror, co, rd, faults,                  \* ArtifactExchange
    task, run, guest, journal,                                           \* LibvirtDriver
    vm, seen,                                                            \* BlockValidation
    bf, sn,                                                              \* NodeCuts
    jobs, carry, vms, tasks, free, daemon, shown,                        \* QueueRunner
    host,      \* WorkerLoop, LibvirtDriver and NodeCuts
    outcome,   \* WorkerLoop and BlockValidation
    wanted,    \* WorkerLoop and BinaryCache
    job,       \* ArtifactExchange and BlockValidation
    spent      \* BinaryCache, LibvirtDriver, BlockValidation, NodeCuts and QueueRunner

Off == <<>>

loopVars == <<pc, leaving, cur, beat, lost, cancel, drain, signal, undelivered,
              unacked, session, lapsed, attempt, owed, deaths, lapses>>
linkVars == <<time, file, printed, enrolled, client, listening, conn, queue, dials>>
cacheVars == <<entries, lock, th, remote, builds, clock>>
exchangeVars == <<at, cached, staged, bucket, mirror, co, rd, faults>>
driverVars == <<task, run, guest, journal>>
blockVars == <<vm, seen>>
cutVars == <<bf, sn>>
runnerVars == <<jobs, carry, vms, tasks, free, daemon, shown>>
allVars == <<part, leaseVars, loopVars, linkVars, cacheVars, exchangeVars, driverVars, blockVars, cutVars,
            runnerVars, host, outcome, wanted, job, spent>>

-----------------------------------------------------------------------------
\* One attempt that is cancelled or interrupted, two deaths and a lapsed session,
\* and teardowns that outlast the session that asked for them.
Loop == INSTANCE WorkerLoop WITH
    Attempts <- {a1}, Commands <- {"cancel", "stop"}, MaxDeaths <- 2, MaxLapses <- 1, Slow <- TRUE

\* A stranger that dials twice, with one permit: what it may hold up.
Link == INSTANCE WorkerLink WITH
    Workers <- {}, Strangers <- {"s"}, Conns <- {c1, c2}, Skews <- <<>>,
    Lead <- 1, Life <- 2, MaxValidity <- 4, Timeout <- 1, Permits <- 1, Buffer <- 1,
    Redials <- 2, MaxTime <- 2, now <- time

\* Two binaries of which the budget holds one, and two refs that move.
Cache == INSTANCE BinaryCache WITH
    Sizes <- <<1, 1>>, Budget <- 1, Threads <- {1}, Refs <- {"r", "q"}, MaxJobs <- 2, MaxMoves <- 2,
    MaxFaults <- 1

Exchange == INSTANCE ArtifactExchange WITH Runs <- 1, Tries <- 2, MaxFaults <- 1

\* A benchmark in a shared directory, with two failing commands or crashes.
Driver == INSTANCE LibvirtDriver WITH
    Tasks <- {[kind |-> "benchmark", shared |-> TRUE, warm |-> FALSE, shards |-> {}]},
    MaxFailures <- 2, failures <- spent

\* A validation of two shards, of which one fails.
Block == INSTANCE BlockValidation WITH
    Selections <- {[kind |-> "full"], [kind |-> "range", range |-> [start |-> 1, end |-> 2]]},
    Observed <- [pre : {1}, naka : {1, 2}], Targets <- {2}, MaxShards <- 2, Ceilings <- {1}, MaxFaults <- 1

\* Two cuts of one release, the first taken at once.
CutAt(target, command) == [target |-> target, release |-> 1, enabled |-> TRUE, command |-> command]
Cuts == INSTANCE NodeCuts WITH
    Cuts <- <<CutAt(1, "snapshot-now"), CutAt(3, "wait-cut")>>, Boundaries <- {2}, Quiesce <- "sync",
    RestartAfter <- TRUE, AllowDrift <- TRUE, Validate <- TRUE, RestartOnFailure <- TRUE,
    FollowHint <- FALSE,
    MaxHeight <- 3, MaxRuns <- 3, MaxFaults <- 1, MaxSignals <- 0

\* A submission of two runs with failing calls, a crash and a drain.
Runner == INSTANCE QueueRunner WITH
    Subs <- {"a"}, Runs <- 2, Slots <- 2, MaxClaims <- 8, MaxFaults <- 1, MaxCrashes <- 1, MaxStops <- 1

-----------------------------------------------------------------------------
LoopOff == /\ pc = Off /\ leaving = Off /\ cur = Off /\ beat = Off /\ lost = Off /\ cancel = Off
           /\ drain = Off /\ signal = Off /\ undelivered = Off /\ unacked = Off /\ session = Off
           /\ lapsed = Off /\ attempt = Off /\ owed = Off /\ deaths = Off /\ lapses = Off
LinkOff == /\ time = Off /\ file = Off /\ printed = Off /\ enrolled = Off /\ client = Off
           /\ listening = Off /\ conn = Off /\ queue = Off /\ dials = Off
CacheOff == entries = Off /\ lock = Off /\ th = Off /\ remote = Off /\ builds = Off /\ clock = Off
ExchangeOff == /\ at = Off /\ cached = Off /\ staged = Off /\ bucket = Off /\ mirror = Off
               /\ co = Off /\ rd = Off /\ faults = Off
DriverOff == task = Off /\ run = Off /\ guest = Off /\ journal = Off
BlockOff == vm = Off /\ seen = Off
CutsOff == bf = Off /\ sn = Off
RunnerOff == /\ jobs = Off /\ carry = Off /\ vms = Off /\ tasks = Off /\ free = Off
             /\ daemon = Off /\ shown = Off

MCInit ==
    /\ LeaseInit
    /\ \/ /\ part = "loop" /\ Loop!Init /\ LinkOff /\ CacheOff /\ ExchangeOff /\ DriverOff /\ BlockOff
          /\ CutsOff /\ RunnerOff /\ job = Off /\ spent = Off
       \/ /\ part = "link" /\ Link!Init /\ LoopOff /\ CacheOff /\ ExchangeOff /\ DriverOff /\ BlockOff
          /\ CutsOff /\ RunnerOff /\ host = Off /\ outcome = Off /\ wanted = Off /\ job = Off /\ spent = Off
       \/ /\ part = "cache" /\ Cache!Init /\ LoopOff /\ LinkOff /\ ExchangeOff /\ DriverOff /\ BlockOff
          /\ CutsOff /\ RunnerOff /\ host = Off /\ outcome = Off /\ job = Off
       \/ /\ part = "exchange" /\ Exchange!ExchangeInit /\ LoopOff /\ LinkOff /\ CacheOff /\ DriverOff /\ BlockOff
          /\ CutsOff /\ RunnerOff /\ host = Off /\ outcome = Off /\ wanted = Off /\ spent = Off
       \/ /\ part = "driver" /\ Driver!DriverInit /\ LoopOff /\ LinkOff /\ CacheOff /\ ExchangeOff /\ BlockOff
          /\ CutsOff /\ RunnerOff /\ outcome = Off /\ wanted = Off /\ job = Off
       \/ /\ part = "block" /\ Block!Init /\ LoopOff /\ LinkOff /\ CacheOff /\ ExchangeOff /\ DriverOff
          /\ CutsOff /\ RunnerOff /\ host = Off /\ wanted = Off
       \/ /\ part = "cuts" /\ Cuts!Init /\ LoopOff /\ LinkOff /\ CacheOff /\ ExchangeOff /\ DriverOff
          /\ BlockOff /\ RunnerOff /\ outcome = Off /\ wanted = Off /\ job = Off
       \/ /\ part = "runner" /\ Runner!Init /\ LoopOff /\ LinkOff /\ CacheOff /\ ExchangeOff /\ DriverOff
          /\ BlockOff /\ CutsOff /\ host = Off /\ outcome = Off /\ wanted = Off /\ job = Off
       \/ /\ part = "lease" /\ LoopOff /\ LinkOff /\ CacheOff /\ ExchangeOff /\ DriverOff /\ BlockOff
          /\ CutsOff /\ RunnerOff /\ host = Off /\ outcome = Off /\ wanted = Off /\ job = Off /\ spent = Off

MCNext ==
    \/ /\ part = "lease" /\ LeaseNext
       /\ UNCHANGED <<part, loopVars, linkVars, cacheVars, exchangeVars, driverVars, blockVars,
                      cutVars, runnerVars, host, outcome, wanted, job, spent>>
    \/ /\ part = "loop" /\ Loop!Next
       /\ UNCHANGED <<part, leaseVars, linkVars, cacheVars, exchangeVars, driverVars, blockVars, cutVars,
                      runnerVars, job, spent>>
    \/ /\ part = "link" /\ Link!Next
       /\ UNCHANGED <<part, leaseVars, loopVars, cacheVars, exchangeVars, driverVars, blockVars, cutVars,
                      runnerVars, host, outcome, wanted, job, spent>>
    \/ /\ part = "cache" /\ Cache!Next
       /\ UNCHANGED <<part, leaseVars, loopVars, linkVars, exchangeVars, driverVars, blockVars, cutVars,
                      runnerVars, host, outcome, job>>
    \/ /\ part = "exchange" /\ Exchange!ExchangeNext
       /\ UNCHANGED <<part, leaseVars, loopVars, linkVars, cacheVars, driverVars, blockVars, cutVars,
                      runnerVars, host, outcome, wanted, spent>>
    \/ /\ part = "driver" /\ Driver!DriverNext
       /\ UNCHANGED <<part, leaseVars, loopVars, linkVars, cacheVars, exchangeVars, blockVars, cutVars,
                      runnerVars, outcome, wanted, job>>
    \/ /\ part = "block" /\ Block!Next
       /\ UNCHANGED <<part, leaseVars, loopVars, linkVars, cacheVars, exchangeVars, driverVars, cutVars,
                      runnerVars, host, wanted>>
    \/ /\ part = "cuts" /\ Cuts!Next
       /\ UNCHANGED <<part, leaseVars, loopVars, linkVars, cacheVars, exchangeVars, driverVars, blockVars,
                      runnerVars, outcome, wanted, job>>
    \/ /\ part = "runner" /\ Runner!Next
       /\ UNCHANGED <<part, leaseVars, loopVars, linkVars, cacheVars, exchangeVars, driverVars, blockVars,
                      cutVars, host, outcome, wanted, job>>

-----------------------------------------------------------------------------
(* Fairness.                                                               *)

\* The worker's loop and its heartbeat go on, and the daemon sweeps its attempt.
LoopFair == /\ WF_(Loop!vars)(part = "loop" /\ Loop!MainStep)
            /\ WF_(Loop!vars)(part = "loop" /\ (Loop!Heartbeat \/ Loop!LoseLease))
            /\ WF_(Loop!vars)(part = "loop" /\ Loop!ExpireAttempt(a1))

\* The runtime polls what is ready, the clock runs and its timers fire; nobody is
\* assumed to finish a handshake.
LinkFair ==
    /\ WF_(Link!vars)(part = "link" /\ Link!PollNext) /\ WF_(Link!vars)(part = "link" /\ Link!Tick)
    /\ \A c \in {c1, c2} : /\ WF_(Link!vars)(part = "link" /\ Link!HandshakeTimesOut(c))
                           /\ WF_(Link!vars)(part = "link" /\ Link!Identify(c))
                           /\ WF_(Link!vars)(part = "link" /\ Link!Send(c))

\* Tasks run on and a queued warming build is started.
CacheFair ==
    /\ WF_(Cache!vars)(part = "cache" /\ Cache!Work(1))
    /\ \A c \in {1, 2} : /\ WF_(Cache!vars)(part = "cache" /\ Cache!StartWarmBuild(1, c))
                         /\ WF_(Cache!vars)(part = "cache" /\ Cache!CooldownPasses(c))
\* Promotion is retried.
ExchangeFair == \A j \in Exchange!Jobs : WF_(Exchange!exchangeVars)(part = "exchange" /\ Exchange!Promote(j))

\* The driver's commands return; the guest's agent and each shard's process end.
DriverFair == WF_(Driver!driverVars)(part = "driver" /\ Driver!Driver)
BlockFair ==
    /\ WF_(Block!vars)(part = "block" /\ (\/ Block!probe \/ Block!PlanShards \/ Block!Turn
                                          \/ Block!WriteResult \/ Block!reduce_result))
    /\ \A i \in {0, 1} :
         WF_(Block!vars)(part = "block" /\ i \in DOMAIN vm.active /\ (Block!validate_block(i) \/ Block!Exit(i)))

\* The chain grows, and the scripts run on.
CutsFair == /\ WF_(Cuts!vars)(part = "cuts" /\ Cuts!Advance) /\ WF_(Cuts!vars)(part = "cuts" /\ Cuts!Script)
            /\ WF_(Cuts!vars)(part = "cuts" /\ Cuts!Backfill)

\* The runner's loop, its boots and its job tasks go on, and leases pass.
RunnerFair ==
    /\ WF_(Runner!vars)(part = "runner" /\ Runner!Coordinator)
    /\ WF_(Runner!vars)(part = "runner" /\ Runner!wait_for_progress)
    /\ WF_(Runner!vars)(part = "runner" /\ Runner!Boot)
    /\ \A s \in {1, 2} : WF_(Runner!vars)(part = "runner" /\ Runner!Up /\ Runner!JobTask(s))
    /\ \A j \in Runner!Jobs : WF_(Runner!vars)(part = "runner" /\ Runner!LeasePasses(j))

\* What is ready again and again is taken in the end: a poll of the machine that
\* sees it, and the end of each slot's task, for which the runner selects.
own == IF part = "driver" THEN Driver!driverVars ELSE Runner!vars
Chosen == /\ UNCHANGED part
          /\ \/ part = "driver" /\ Driver!PollState /\ run'.pc # "journal"
             \/ part = "runner" /\ Runner!reap(1)
ChosenToo == UNCHANGED part /\ part = "runner" /\ Runner!reap(2)

MCSpec == /\ MCInit /\ [][MCNext]_allVars
          /\ LoopFair /\ LinkFair /\ CacheFair /\ ExchangeFair /\ DriverFair /\ BlockFair /\ CutsFair
          /\ RunnerFair /\ SF_own(Chosen) /\ SF_own(ChosenToo)

-----------------------------------------------------------------------------
(* Properties.                                                             *)

\* What a worker leaves behind is cleared.  Every debt is settled while the worker
\* stays, although every teardown may outlast the session that asked for it; no
\* attempt stays active for ever; what an attempt left on its host is removed,
\* though commands fail and the worker dies while it cleans up; and a handshake
\* that stalls, or a stream that waits for the accepted channel, gives its permit
\* back (a timeout of one tick, in a clock that stops at two).
HostRecovers ==
    /\ []<>(part = "loop" => a1 \notin owed \/ pc = "gone")
    /\ []<>(part = "loop" => ~Loop!Active(a1))
    /\ []<>(part = "driver" => /\ run.pc \notin {"crashed", "dirty", "cleanup"}
                               /\ run.pc = "ended" => run.verified)
    /\ \A c \in {c1, c2} : []<>(part = "link" /\ Link!Holding(c) => conn[c].since + 1 > 2)

\* What was begun is ended.  A warming build puts its binary into the cache or
\* fails, even when the budget is full of pinned entries; an accepted upload
\* reaches its final key; a block validation ends with a result or with the death
\* of its machine; a backfill takes its cuts, fails or gives up; and a queued job
\* ends, unless its last write failed and it waits for the next boot.
WorkEnds ==
    /\ \A c \in {1, 2} : []<>(part = "cache" /\ builds[c] = "active" => c \in Cache!scan_entries)
    /\ []<>(part = "exchange" => \A j \in Exchange!Jobs : ~Exchange!PromotionDue(j))
    /\ []<>(part = "block" => outcome.kind # "none" \/ vm.pc = "died")
    /\ []<>(part = "cuts" => bf.pc = "idle")
    /\ []<>(part = "runner" => \A j \in Runner!Jobs :
              jobs[j].status \in {"absent"} \cup Runner!Terminals \/ Runner!Stranded(j))
=============================================================================
