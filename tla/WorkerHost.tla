------------------------------ MODULE WorkerHost ------------------------------
(***************************************************************************)
(* A worker and the machine it runs on: the configuration file and its     *)
(* validation, the host's processors and memory, the preflight that comes  *)
(* before a session is registered and the evidence it leaves, the second   *)
(* look before a block-validation offer is accepted, and the shape of the  *)
(* virtual machines an assignment is given (worker config.rs,              *)
(* host_resources.rs, preflight.rs, fleet.rs; libvirt driver.rs, lvm.rs,   *)
(* domain.rs).                                                             *)
(*                                                                         *)
(* A processor list is its sequence of ranges, <<a, b>> standing for "a-b" *)
(* or for "a" when they are equal.  Bytes, KiB and the u64 range are       *)
(* scaled down together.  Digests are the values they hash.                *)
(***************************************************************************)
EXTENDS Naturals, Sequences, FiniteSets

CONSTANTS
    Base,           \* a configuration that works on BaseHost
    BaseHost,
    Edited(_),      \* the configurations one edit of the file may lead to
    Changed(_),     \* the hosts one change of the machine may lead to
    MaxEdits, MaxChanges,
    MaxCpuId,       \* 65535
    U64Max, KiB,    \* the top of a u64, and 1024
    MiB             \* 1024 * 1024

VARIABLES
    disk,           \* the configuration file and the executable on disk
    host,           \* the machine as it is
    worker,         \* the process: phase, loaded config, image, resources, report
    offer,          \* the capability of the admitted assignment, or "none"
    machine,        \* the virtual machine defined last, <<>> or <<m>>
    fault,          \* why an admitted assignment could not start
    edits, changes

vars == <<disk, host, worker, offer, machine, fault, edits, changes>>

Some(x) == <<x>>
Unset == <<>>
Capability == {"benchmark", "build_only", "block_validation"}

-----------------------------------------------------------------------------
(* Host resources *)

\* parse_cpu_id, on both ends of a component.
CpuIdsOk(r) == r[1] <= MaxCpuId /\ r[2] <= MaxCpuId

\* parse_cpu_list: ascending ranges that name no processor twice.
CpuListOk(list) ==
    /\ list # <<>>
    /\ \A i \in 1..Len(list) : CpuIdsOk(list[i]) /\ list[i][1] <= list[i][2]
    /\ \A i, j \in 1..Len(list) :
          i # j => (list[i][1]..list[i][2]) \cap (list[j][1]..list[j][2]) = {}

Cpus(list) == UNION {list[i][1]..list[i][2] : i \in 1..Len(list)}

\* parse_mem_total: one MemTotal line, in kB, whose bytes fit a u64.
MemTotalOk(info) == info.lines = 1 /\ info.unit = "kB" /\ info.kib > 0 /\ info.kib * KiB <= U64Max

\* HostResources::new under discover_host_resources.
HostResources(h) == [online |-> Cpus(h.online), memory |-> h.meminfo.kib * KiB]
DiscoverOk(h) == CpuListOk(h.online) /\ MemTotalOk(h.meminfo)

-----------------------------------------------------------------------------
(* The configuration *)

\* The five fields of a benchmark recipe and its processor set.
BenchmarkOk(b) ==
    /\ b.build_vcpus > 0 /\ b.build_memory > 0 /\ b.timeout > 0
    /\ b.bench_vcpus > 0 /\ b.bench_memory > 0
    /\ CpuListOk(b.cpu_set)
    /\ b.build_vcpus <= Cardinality(Cpus(b.cpu_set))
    /\ b.bench_vcpus <= Cardinality(Cpus(b.cpu_set))

\* The memory and the tmpfs a block-validation machine holds together.
Reserved(v) == v.memory + v.tmpfs * MiB

BlockOk(v) ==
    /\ v.vcpus > 0 /\ v.memory > 0 /\ Reserved(v) <= U64Max
    /\ v.target > 0 /\ v.max_shards > 0
    /\ v.max_concurrency > 0 /\ v.max_concurrency <= v.max_shards
    /\ CpuListOk(v.cpu_set)
    /\ v.vcpus <= Cardinality(Cpus(v.cpu_set))

MutHostCpusOk(c) ==
    c.host_cpus # Unset =>
        /\ CpuListOk(c.host_cpus[1])
        /\ c.benchmark # Unset => Cpus(c.host_cpus[1]) \cap Cpus(c.benchmark[1].cpu_set) = {}

\* The emulator's processors are kept from every guest's.
HostCpusOk(c) ==
    c.host_cpus # Unset =>
        /\ CpuListOk(c.host_cpus[1])
        /\ c.benchmark # Unset => Cpus(c.host_cpus[1]) \cap Cpus(c.benchmark[1].cpu_set) = {}
        /\ c.block # Unset => Cpus(c.host_cpus[1]) \cap Cpus(c.block[1].cpu_set) = {}

\* WorkerConfig::validate: an HTTPS origin, a recipe, and each recipe sound.
Valid(c) ==
    /\ c.url = "https_origin"
    /\ c.benchmark # Unset \/ c.block # Unset
    /\ c.benchmark # Unset => BenchmarkOk(c.benchmark[1])
    /\ c.block # Unset => BlockOk(c.block[1])
    /\ HostCpusOk(c)

\* advertised_capabilities.
Advertised(c) ==
    (IF c.benchmark # Unset THEN {"benchmark", "build_only"} ELSE {})
    \cup (IF c.block # Unset THEN {"block_validation"} ELSE {})

\* BenchmarkProfile::default.
NoProfile == [build_vcpus |-> 0, bench_vcpus |-> 0, build_memory |-> 0, bench_memory |-> 0]

\* BenchmarkConfig::libvirt_profile.
LibvirtProfile(b) == [f \in DOMAIN NoProfile |-> b[f]]

\* libvirt_config: an absent benchmark recipe is the default profile of zeroes.
LibvirtConfig(c) ==
    [benchmark |-> IF c.benchmark # Unset
                   THEN LibvirtProfile(c.benchmark[1]) ELSE NoProfile,
     block |-> c.block, host_cpus |-> c.host_cpus, network |-> "sandbox-egress",
     min_data |-> c.min_data, min_metadata |-> c.min_metadata]

\* validate_online_cpu_set.
Online(list, res) == Cpus(list) \subseteq res.online

\* A validation machine's tmpfs counts as memory of the host.
BlockFits(v, res) ==
    /\ v.vcpus <= Cardinality(res.online) /\ Reserved(v) <= res.memory
    /\ Online(v.cpu_set, res)

\* Build and execution follow one another, so each phase is held to the host alone.
BenchmarkFits(b, res) ==
    /\ b.build_vcpus <= Cardinality(res.online) /\ b.build_memory <= res.memory
    /\ b.bench_vcpus <= Cardinality(res.online) /\ b.bench_memory <= res.memory
    /\ Online(b.cpu_set, res)

\* validate_host_resources.
FitsHost(c, res) ==
    /\ c.benchmark # Unset => BenchmarkFits(c.benchmark[1], res)
    /\ c.block # Unset => BlockFits(c.block[1], res)
    /\ c.host_cpus # Unset => Online(c.host_cpus[1], res)

-----------------------------------------------------------------------------
(* The driver's checks of the host *)

\* validate_pool_health_policy.
PoolPolicyOk(l) == l.min_data \in 1..100 /\ l.min_metadata \in 1..100

\* preflight_sandbox: the managed network, the golden image, the five tools and
\* the policy check.  Missing directories are created.
SandboxOk(l, h) ==
    /\ l.network = "sandbox-egress"
    /\ PoolPolicyOk(l)
    /\ h.golden = "ok" /\ h.tools = "ok" /\ h.network = "ok"

\* validate_thin_pool_health, from the two used percentages.
PoolHealthy(l, h) ==
    PoolPolicyOk(l) /\ 100 - h.data >= l.min_data /\ 100 - h.metadata >= l.min_metadata

\* resolve_latest_read_only_origin: the last name with the prefix, which must be
\* read-only; an older read-only one does not stand in.
OriginReadOnly(h) ==
    h.origins # <<>> /\ h.origins[Len(h.origins)] = "read_only"

OriginOk(l, h) == OriginReadOnly(h) /\ PoolHealthy(l, h)

\* preflight_block_validation: the profile, the sandbox and the origin.
BlockPreflightOk(l, h) ==
    /\ l.block # Unset
    /\ l.block[1].vcpus > 0 /\ l.block[1].memory > 0 /\ l.block[1].tmpfs > 0
    /\ l.block[1].target > 0
    /\ l.block[1].max_shards > 0 /\ l.block[1].max_shards <= 64
    /\ l.block[1].max_concurrency \in 1..l.block[1].max_shards
    /\ l.block[1].max_parallel = 1
    /\ l.block[1].prefix = "safe" /\ l.block[1].mount = "nouuid"
    /\ SandboxOk(l, h) /\ OriginOk(l, h)

\* preflight_local_execution: every advertised recipe.
LocalExecutionOk(c, h) ==
    LET l == LibvirtConfig(c) IN
    /\ "build_only" \in Advertised(c) => SandboxOk(l, h)
    /\ "benchmark" \in Advertised(c) => OriginOk(l, h)
    /\ "block_validation" \in Advertised(c) => BlockPreflightOk(l, h)

-----------------------------------------------------------------------------
(* The process *)

Off == [phase |-> "off", config |-> Base, exe |-> 0,
        resources |-> HostResources(BaseHost), report |-> Unset]
Goes(phase) == worker' = [worker EXCEPT !.phase = phase]
NothingRuns == UNCHANGED <<offer, machine, fault>>

\* WorkerConfig::load: the file is read once, and refused as a whole.
Load ==
    /\ worker.phase = "off"
    /\ Valid(disk.config)
    /\ worker' = [Off EXCEPT !.phase = "loaded", !.config = disk.config, !.exe = disk.exe]
    /\ UNCHANGED <<disk, host, edits, changes>> /\ NothingRuns

Discover ==
    /\ worker.phase = "loaded"
    /\ worker' = IF DiscoverOk(host)
                 THEN [worker EXCEPT !.phase = "discovered", !.resources = HostResources(host)]
                 ELSE Off
    /\ UNCHANGED <<disk, host, edits, changes>> /\ NothingRuns

\* preflight_report, first part: the recipes against the host.
CheckResources ==
    /\ worker.phase = "discovered"
    /\ IF FitsHost(worker.config, worker.resources) THEN Goes("fits") ELSE worker' = Off
    /\ UNCHANGED <<disk, host, edits, changes>> /\ NothingRuns

\* configuration_digest of the loaded values, executable_digest of /proc/self/exe.
Digest == [config |-> worker.config, exe |-> worker.exe]

TakeDigests ==
    /\ worker.phase = "fits"
    /\ worker' = [worker EXCEPT !.phase = "digested", !.report = Some(Digest)]
    /\ UNCHANGED <<disk, host, edits, changes>> /\ NothingRuns

\* preflight_local_execution, then the registration that carries the report.
Register ==
    /\ worker.phase = "digested"
    /\ IF LocalExecutionOk(worker.config, host) THEN Goes("ready") ELSE worker' = Off
    /\ UNCHANGED <<disk, host, edits, changes>> /\ NothingRuns

\* admit_offer: an advertised capability with its own requirements, and for block
\* validation the preflight once more.
AdmitOffer(c, h, cap, req) ==
    /\ cap \in Advertised(c)
    /\ req = cap
    /\ cap = "block_validation" => BlockPreflightOk(LibvirtConfig(c), h)

Offered(cap, req) ==
    /\ worker.phase = "ready" /\ offer = "none"
    /\ AdmitOffer(worker.config, host, cap, req)
    /\ offer' = cap
    /\ UNCHANGED <<disk, host, worker, machine, fault, edits, changes>>

\* local_vcpu_cpuset, within execution_request: the worker's own recipe.
LocalCpuSet(c, cap) ==
    IF cap = "block_validation" THEN (IF c.block # Unset THEN Some(c.block[1].cpu_set) ELSE Unset)
    ELSE (IF c.benchmark # Unset THEN Some(c.benchmark[1].cpu_set) ELSE Unset)

-----------------------------------------------------------------------------
(* The virtual machine *)

\* The digits of v in the bijective base 26 of Linux disk names.
Letters[v \in 0..100] ==
    IF v < 26 THEN <<v>> ELSE Append(Letters[v \div 26 - 1], v % 26)

\* scsi_target_dev: sda is the cloud-init disc's.
ScsiTargetDev(shard) == <<"sd", Letters[shard + 3]>>

\* render: the boot, chainstate, source and cloud-init discs, then a disc per
\* shard on its own target of the one SCSI controller.
Devices(chainstate, shards) ==
    <<<<"vd", <<0>>>>>> \o (IF chainstate THEN <<<<"vd", <<1>>>>>> ELSE <<>>)
    \o <<<<"vd", <<2>>>>, <<"sd", <<0>>>>>>
    \o [i \in 1..shards |-> ScsiTargetDev(i - 1)]

MachineOf(vcpus, memory, held, cpus, l, chainstate, shards) ==
    [vcpus |-> vcpus, memory |-> memory, held |-> held, cpus |-> cpus,
     emulator |-> IF l.host_cpus # Unset THEN Cpus(l.host_cpus[1]) ELSE {},
     network |-> l.network, devices |-> Devices(chainstate, shards)]

\* The machines of a task, one at a time: a build, a measurement after it unless
\* the build is all that was asked, or one validation over so many shards.
MachinesFor(cap, c) ==
    LET l == LibvirtConfig(c)
        cpus == Cpus(LocalCpuSet(c, cap)[1])
        b == l.benchmark
    IN CASE cap = "build_only" ->
                {MachineOf(b.build_vcpus, b.build_memory, b.build_memory, cpus, l, FALSE, 0)}
         [] cap = "benchmark" ->
                {MachineOf(b.build_vcpus, b.build_memory, b.build_memory, cpus, l, TRUE, 0),
                 MachineOf(b.bench_vcpus, b.bench_memory, b.bench_memory, cpus, l, TRUE, 0)}
         [] OTHER ->
                {MachineOf(l.block[1].vcpus, l.block[1].memory, Reserved(l.block[1]), cpus, l,
                           FALSE, n) : n \in {1, l.block[1].max_shards}}

\* execution_request and the driver's phases.
Execute ==
    /\ offer # "none" /\ fault = "none"
    /\ IF LocalCpuSet(worker.config, offer) = Unset
       THEN fault' = "no_profile" /\ UNCHANGED machine
       ELSE /\ \E m \in MachinesFor(offer, worker.config) : machine' = Some(m)
            /\ UNCHANGED fault
    /\ UNCHANGED <<disk, host, worker, offer, edits, changes>>

Finish ==
    /\ offer # "none"
    /\ offer' = "none" /\ machine' = Unset /\ fault' = "none"
    /\ UNCHANGED <<disk, host, worker, edits, changes>>

Stop ==
    /\ worker.phase # "off"
    /\ worker' = Off
    /\ offer' = "none" /\ machine' = Unset /\ fault' = "none"
    /\ UNCHANGED <<disk, host, edits, changes>>

-----------------------------------------------------------------------------
(* Operators and hardware *)

\* The file and the executable may be replaced at any time.
EditConfig ==
    /\ edits < MaxEdits
    /\ \E c \in Edited(disk.config) : disk' = [disk EXCEPT !.config = c]
    /\ edits' = edits + 1
    /\ UNCHANGED <<host, worker, changes>> /\ NothingRuns

ReplaceExecutable ==
    /\ edits < MaxEdits
    /\ disk' = [disk EXCEPT !.exe = @ + 1]
    /\ edits' = edits + 1
    /\ UNCHANGED <<host, worker, changes>> /\ NothingRuns

\* Processors go offline, the pool fills, an origin is replaced, a tool is lost.
HostChanges ==
    /\ changes < MaxChanges
    /\ host' \in Changed(host)
    /\ changes' = changes + 1
    /\ UNCHANGED <<disk, worker, edits>> /\ NothingRuns

Init ==
    /\ disk = [config |-> Base, exe |-> 1]
    /\ host = BaseHost
    /\ worker = Off
    /\ offer = "none" /\ machine = Unset /\ fault = "none"
    /\ edits = 0 /\ changes = 0

Next ==
    \/ Load \/ Discover \/ CheckResources \/ TakeDigests \/ Register
    \/ \E cap, req \in Capability : Offered(cap, req)
    \/ Execute \/ Finish \/ Stop
    \/ EditConfig \/ ReplaceExecutable \/ HostChanges

Spec == Init /\ [][Next]_vars

-----------------------------------------------------------------------------
(* Properties *)

\* Every machine the worker defines fits the host that was measured and stays on
\* processors of its own: enough of them for its vCPUs, all online, none of them
\* the emulator's, and memory with its tmpfs within the host's.
MachineFits ==
    machine # Unset =>
        /\ machine[1].vcpus \in 1..Cardinality(machine[1].cpus)
        /\ machine[1].cpus \subseteq worker.resources.online
        /\ machine[1].cpus \cap machine[1].emulator = {}
        /\ machine[1].held <= worker.resources.memory

\* The discs of a machine have names of their own, whatever the number of shards
\* the preflight admits: libvirt would refuse a domain with a name given twice.
DevicesDistinct ==
    machine # Unset =>
        \A i, j \in 1..Len(machine[1].devices) :
            machine[1].devices[i] = machine[1].devices[j] => i = j

\* An assignment of an advertised capability is never lost for want of a recipe.
AdmittedRuns == fault = "none"

\* The evidence a session registers with is of the image that is running and of
\* the values it loaded, although both files may have been replaced since.
ReportIsRunning ==
    worker.report # Unset => worker.report[1] = [config |-> worker.config, exe |-> worker.exe]

\* Block validation is accepted only over a read-only origin and a pool above its
\* floors at that moment; what registration saw does not count.
HealthyWhenAccepted ==
    offer = "none" /\ offer' = "block_validation" =>
        /\ OriginReadOnly(host)
        /\ 100 - host.data >= worker.config.min_data
        /\ 100 - host.metadata >= worker.config.min_metadata
=============================================================================
