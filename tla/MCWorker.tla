------------------------------ MODULE MCWorker ------------------------------
(***************************************************************************)
(* A worker on small instances: its loop (WorkerLoop), the machine it runs *)
(* on (WorkerHost), its identity and connections (WorkerLink), the         *)
(* binaries it keeps (BinaryCache) and the databases it exchanges with the *)
(* daemon (ArtifactExchange).  A behaviour is about one case, named by     *)
(* part; the variables of the other components are Off, those of           *)
(* WorkerLoop and ArtifactExchange as in their initial states.             *)
(***************************************************************************)
EXTENDS WorkerLoop, ArtifactExchange, Integers, Sequences

CONSTANTS a1, a2, c1, c2

VARIABLES
    part,
    disk, node, worker, offer, machine, fault, edits, changes,       \* WorkerHost
    file, printed, enrolled, client, listening, conn, queue, dials,  \* WorkerLink
    entries, lock, th, remote, warm, builds, spent,                  \* BinaryCache
    clock     \* WorkerLink's now and BinaryCache's clock

Off == <<>>

hostVars == <<disk, node, worker, offer, machine, fault, edits, changes>>
linkVars == <<file, printed, enrolled, client, listening, conn, queue, dials>>
cacheVars == <<entries, lock, th, remote, warm, builds, spent>>
allVars == <<part, vars, hostVars, linkVars, cacheVars, exchangeVars, clock>>

-----------------------------------------------------------------------------
(* A host of six processors, with the edits an operator may make to a      *)
(* working configuration and the changes the machine may undergo.          *)

MCBase ==
    [url |-> "https_origin",
     benchmark |-> <<[build_vcpus |-> 2, bench_vcpus |-> 1, build_memory |-> 8,
                      bench_memory |-> 4, timeout |-> 1, cpu_set |-> <<<<1, 2>>>>]>>,
     block |-> <<[vcpus |-> 2, memory |-> 4, tmpfs |-> 1, target |-> 1, max_shards |-> 2,
                  max_concurrency |-> 2, max_parallel |-> 1, prefix |-> "safe",
                  mount |-> "nouuid", cpu_set |-> <<<<2, 2>>, <<3, 4>>>>]>>,
     host_cpus |-> <<<<<<0, 0>>>>>>, min_data |-> 5, min_metadata |-> 5]

MCHost ==
    [online |-> <<<<0, 3>>, <<4, 5>>>>, meminfo |-> [lines |-> 1, unit |-> "kB", kib |-> 2],
     golden |-> "ok", tools |-> "ok", network |-> "ok", data |-> 10, metadata |-> 10,
     origins |-> <<"read_only">>]

CpuLists == {<<>>, <<<<2, 1>>>>, <<<<1, 2>>, <<2, 3>>>>, <<<<1, 9>>>>, <<<<0, 2>>>>, <<<<1, 6>>>>}

EditBenchmark(b) ==
    {[b EXCEPT !.build_vcpus = n] : n \in {0, 3}} \cup {[b EXCEPT !.bench_vcpus = n] : n \in {0, 3}}
    \cup {[b EXCEPT !.build_memory = n] : n \in {0, 9}}
    \cup {[b EXCEPT !.bench_memory = n] : n \in {0, 9}}
    \cup {[b EXCEPT !.timeout = 0]} \cup {[b EXCEPT !.cpu_set = l] : l \in CpuLists}

EditBlock(v) ==
    {[v EXCEPT !.vcpus = n] : n \in {0, 4}} \cup {[v EXCEPT !.memory = n] : n \in {0, 7, 30}}
    \cup {[v EXCEPT !.tmpfs = n] : n \in {0, 3}} \cup {[v EXCEPT !.target = 0]}
    \cup {[v EXCEPT !.max_shards = n] : n \in {0, 1, 64, 65}}
    \cup {[v EXCEPT !.max_concurrency = n] : n \in {0, 1}}
    \cup {[v EXCEPT !.max_parallel = 2], [v EXCEPT !.prefix = "slash"], [v EXCEPT !.mount = "rw"]}
    \cup {[v EXCEPT !.cpu_set = l] : l \in CpuLists}

MCEdited(c) ==
    {[c EXCEPT !.url = u] : u \in {"http_origin", "https_path"}}
    \cup {[c EXCEPT !.benchmark = <<>>], [c EXCEPT !.block = <<>>]}
    \cup {[c EXCEPT !.host_cpus = h] : h \in {<<>>, <<<<<<3, 3>>>>>>, <<<<<<6, 6>>>>>>}}
    \cup {[c EXCEPT !.min_data = n] : n \in {0, 101}} \cup {[c EXCEPT !.min_metadata = n] : n \in {0, 90}}
    \cup (IF c.benchmark = <<>> THEN {}
          ELSE {[c EXCEPT !.benchmark = <<b>>] : b \in EditBenchmark(c.benchmark[1])})
    \cup (IF c.block = <<>> THEN {}
          ELSE {[c EXCEPT !.block = <<v>>] : v \in EditBlock(c.block[1])})

MCChanged(h) ==
    {[h EXCEPT !.online = l] : l \in {<<>>, <<<<0, 1>>>>, <<<<0, 4>>>>}}
    \cup {[h EXCEPT !.meminfo.lines = 2], [h EXCEPT !.meminfo.kib = 1], [h EXCEPT !.meminfo.kib = 8]}
    \cup {[h EXCEPT !.golden = "missing"], [h EXCEPT !.tools = "missing"],
          [h EXCEPT !.network = "unmanaged"]}
    \cup {[h EXCEPT !.data = 96], [h EXCEPT !.metadata = 96], [h EXCEPT !.data = 95]}
    \cup {[h EXCEPT !.origins = o] :
            o \in {<<>>, <<"read_only", "writable">>, <<"writable", "read_only">>}}

\* Few edits, for the run about a changing host.
MCFewEdits(c) == {[c EXCEPT !.benchmark = <<>>], [c EXCEPT !.min_data = 90]} \ {c}

Profiles == INSTANCE WorkerHost WITH
    Base <- MCBase, BaseHost <- MCHost, Edited <- MCEdited, Changed <- MCChanged,
    MaxEdits <- 2, MaxChanges <- 0, MaxCpuId <- 7, U64Max <- 31, KiB <- 4, MiB <- 2, host <- node

Changes == INSTANCE WorkerHost WITH
    Base <- MCBase, BaseHost <- MCHost, Edited <- MCFewEdits, Changed <- MCChanged,
    MaxEdits <- 1, MaxChanges <- 2, MaxCpuId <- 7, U64Max <- 31, KiB <- 4, MiB <- 2, host <- node

-----------------------------------------------------------------------------
(* A worker whose clock is as far ahead as a wrapper is dated back, and a  *)
(* stranger, over two connections and one permit.                          *)

Link == INSTANCE WorkerLink WITH
    Workers <- {"w1"}, Strangers <- {"s"}, Conns <- {c1, c2}, Skews <- [w \in {"w1"} |-> 1],
    Lead <- 1, Life <- 2, MaxValidity <- 4, Timeout <- 1, Permits <- 1, Buffer <- 1,
    Redials <- 1, MaxTime <- 4, now <- clock

-----------------------------------------------------------------------------
(* Three binaries that do not fit together, one of them larger: one job at *)
(* a time with moving refs and failures, and two jobs at once.             *)

CacheCases ==
    [cache_serial |-> [threads |-> {1}, jobs |-> 4, moves |-> 2],
     cache_shared |-> [threads |-> {1, 2}, jobs |-> 3, moves |-> 0]]

Cache(k) == INSTANCE BinaryCache WITH
    Sizes <- <<1, 1, 2>>, Budget <- 2, Threads <- CacheCases[k].threads, Refs <- {"r"},
    MaxJobs <- CacheCases[k].jobs, MaxMoves <- CacheCases[k].moves, MaxFaults <- 1,
    wanted <- warm

ASSUME CasesAssumption == \A k \in DOMAIN CacheCases : Cache(k)!CacheAssumption

-----------------------------------------------------------------------------
HostOff ==
    /\ disk = Off /\ node = Off /\ worker = Off /\ offer = Off /\ machine = Off /\ fault = Off
    /\ edits = Off /\ changes = Off
LinkOff ==
    /\ file = Off /\ printed = Off /\ enrolled = Off /\ client = Off /\ listening = Off
    /\ conn = Off /\ queue = Off /\ dials = Off
CacheOff ==
    /\ entries = Off /\ lock = Off /\ th = Off /\ remote = Off /\ warm = Off /\ builds = Off /\ spent = Off
MCInit ==
    /\ Init /\ ExchangeInit
    /\ \/ part \in {"loop", "exchange"} /\ HostOff /\ LinkOff /\ CacheOff /\ clock = Off
       \/ /\ \/ part = "host_profiles" /\ Profiles!Init
             \/ part = "host_changes" /\ Changes!Init
          /\ LinkOff /\ CacheOff /\ clock = Off
       \/ part = "link" /\ Link!Init /\ HostOff /\ CacheOff
       \/ /\ \E k \in DOMAIN CacheCases : part = k /\ Cache(k)!Init
          /\ HostOff /\ LinkOff

MCNext ==
    \/ /\ part = "loop" /\ Next
       /\ UNCHANGED <<part, hostVars, linkVars, cacheVars, exchangeVars, clock>>
    \/ /\ \/ part = "host_profiles" /\ Profiles!Next
          \/ part = "host_changes" /\ Changes!Next
       /\ UNCHANGED <<part, vars, linkVars, cacheVars, exchangeVars, clock>>
    \/ /\ part = "link" /\ Link!Next
       /\ UNCHANGED <<part, vars, hostVars, cacheVars, exchangeVars>>
    \/ /\ \E k \in DOMAIN CacheCases : part = k /\ Cache(k)!Next
       /\ UNCHANGED <<part, vars, hostVars, linkVars, exchangeVars>>
    \/ /\ part = "exchange" /\ ExchangeNext
       /\ UNCHANGED <<part, vars, hostVars, linkVars, cacheVars, clock>>

MCSpec == MCInit /\ [][MCNext]_allVars

-----------------------------------------------------------------------------
(* Properties, beside those of WorkerLoop and ArtifactExchange: what each  *)
(* component promises in the cases it is about.                            *)

\* WorkerHost: what a worker advertises can run.  Every machine it defines fits the
\* measured host and its own processors, no two of its discs share a device name,
\* no advertised capability fails for want of a recipe, the evidence it registers
\* is that of the running image and values, and it accepts a block validation only
\* over a healthy pool and origin, though the host or the file changes in between.
HostFits ==
    /\ [](part = "host_profiles" =>
            Profiles!MachineFits /\ Profiles!DevicesDistinct /\ Profiles!AdmittedRuns)
    /\ [](part = "host_changes" => Changes!ReportIsRunning)
    /\ [][part = "host_changes" => Changes!HealthyWhenAccepted]_allVars

\* WorkerLink: a stream is served under the digest of the key its peer holds, a
\* worker at most Lead ahead is never refused for its certificate, and no command
\* replaces an identity that holds a key.
PeersKnown ==
    /\ [](part = "link" => Link!ServedAsItself /\ Link!FreshWrapper)
    /\ [][part = "link" => Link!IdentityKept]_allVars

\* BinaryCache: the recorded hash is that of the binary, the store fits its budget
\* between mutations, an entry the last recompute pinned stays and, with two jobs
\* at once too, what is evicted was used least recently.
CacheHonest ==
    /\ [](part = "cache_serial" =>
            Cache("cache_serial")!MetadataMatches /\ Cache("cache_serial")!WithinBudget)
    /\ [][part = "cache_serial" => Cache("cache_serial")!PinnedKept]_allVars
    /\ [][part = "cache_shared" => Cache("cache_shared")!LeastRecentlyUsed]_allVars
=============================================================================
