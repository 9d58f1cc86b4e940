----------------------------- MODULE BinaryCache -----------------------------
(***************************************************************************)
(* The cache of built binaries shared by the job tasks of a host: hits     *)
(* verified by hash, atomic publication, eviction by last use under a size *)
(* budget, and the pins that follow the refs of pinned triggers, with the  *)
(* builds that warm a pinned ref whose binary is missing.                  *)
(*                                                                         *)
(* Mutations hold one lock; a reader checks an entry before it takes it.   *)
(***************************************************************************)
EXTENDS Integers, Sequences, FiniteSets, FiniteSetsExt

CONSTANTS
    Sizes,      \* the size of each commit's binary
    Budget,     \* max_bytes
    Threads,    \* job tasks that share the cache
    Refs,       \* remote refs that pinned triggers match
    MaxJobs,    \* bound: jobs started
    MaxMoves,   \* bound: pushes to the refs, expiries
    MaxFaults   \* bound: failed listings and builds

Commits == 1..Len(Sizes)

CacheAssumption == \A c \in Commits : Sizes[c] \in Nat \ {0}

VARIABLES
    entries,   \* the store: a binary and its metadata by commit
    lock,      \* the thread inside a mutation, or 0
    th,        \* each thread: its job, the metadata it read, its recompute
    remote,    \* the commit each ref points to, and the pins not yet expired
    wanted,    \* the entries the last recompute pinned
    builds,    \* warming builds: "none", "active", "failed" (cooling down)
    clock, spent

vars == <<entries, lock, th, remote, wanted, builds, clock, spent>>

NoEntry == [bin |-> 0, sha |-> 0, used |-> 0, pinned |-> FALSE]
Idle == [pc |-> "idle", commit |-> 0, meta |-> NoEntry, targets |-> {}]

Init ==
    /\ entries = [c \in Commits |-> NoEntry]
    /\ lock = 0
    /\ th = [t \in Threads |-> Idle]
    /\ remote = [at |-> [r \in Refs |-> 1], pins |-> Refs]
    /\ wanted = {} /\ builds = [c \in Commits |-> "none"]
    /\ clock = 1 /\ spent = [jobs |-> 0, moves |-> 0, faults |-> 0]

scan_entries == {c \in Commits : entries[c].bin # 0}
Bytes(cs) == MapThenSumSet(LAMBDA c : Sizes[c], cs)

Fault == spent.faults < MaxFaults /\ spent' = [spent EXCEPT !.faults = @ + 1]
Go(t, pc) == [th EXCEPT ![t].pc = pc]

-----------------------------------------------------------------------------
(* A job: a hit or a build and its publication.                            *)

StartJob(t, c) ==
    /\ th[t].pc = "idle" /\ spent.jobs < MaxJobs /\ spent' = [spent EXCEPT !.jobs = @ + 1]
    /\ th' = [th EXCEPT ![t] = [Idle EXCEPT !.pc = "get", !.commit = c]]
    /\ UNCHANGED <<entries, lock, remote, wanted, builds, clock>>

StartWarmBuild(t, c) ==
    /\ th[t].pc = "idle" /\ builds[c] = "active" /\ \A u \in Threads : th[u].commit # c
    /\ th' = [th EXCEPT ![t] = [Idle EXCEPT !.pc = "get", !.commit = c]]
    /\ UNCHANGED <<entries, lock, remote, wanted, builds, clock, spent>>

\* The entry is read and its binary hashed without the lock; a mismatch is a miss.
Verified(e) == e.bin # 0 /\ e.sha = e.bin

get_reads(t) ==
    /\ th[t].pc = "get"
    /\ th' = [th EXCEPT ![t].pc = IF Verified(entries[th[t].commit]) THEN "touch" ELSE "build",
                        ![t].meta = entries[th[t].commit]]
    /\ UNCHANGED <<entries, lock, remote, wanted, builds, clock, spent>>

\* Under the lock the metadata read before is written back with its new use.
get_touches(t) ==
    LET c == th[t].commit
    IN  /\ th[t].pc = "touch" /\ lock = 0
        /\ entries' = IF entries[c].bin = 0 THEN entries
                      ELSE [entries EXCEPT ![c] = [th[t].meta EXCEPT !.bin = entries[c].bin, !.used = clock]]
        /\ builds' = [builds EXCEPT ![c] = IF @ = "active" THEN "none" ELSE @]
        /\ clock' = clock + 1 /\ th' = Go(t, "recompute")
        /\ UNCHANGED <<lock, remote, wanted, spent>>

\* Builds are not reproducible byte for byte: each makes a binary of its own.
BuildFails(t) ==
    /\ th[t].pc = "build" /\ Fault /\ th' = Go(t, "recompute")
    /\ builds' = [builds EXCEPT ![th[t].commit] = IF @ = "active" THEN "failed" ELSE @]
    /\ UNCHANGED <<entries, lock, remote, wanted, clock>>

\* The prior entry is cleared, then the staged one takes its place, under the lock.
publish_clears(t) ==
    /\ th[t].pc = "build" /\ lock = 0
    /\ lock' = t /\ entries' = [entries EXCEPT ![th[t].commit] = NoEntry] /\ th' = Go(t, "rename")
    /\ UNCHANGED <<remote, wanted, builds, clock, spent>>

\* Over the budget, the least recently used entries that are neither pinned nor
\* protected go until it holds.
Evictable(es, protected) == {c \in Commits : es[c].bin # 0 /\ ~es[c].pinned /\ c \notin protected}

MutOlder(es, c, d) == es[d].bin < es[c].bin
Older(es, c, d) == es[d].used < es[c].used

evict_locked(es, protected) ==
    LET held == {c \in Commits : es[c].bin # 0}
        gone == {c \in Evictable(es, protected) :
                   Bytes(held) - Bytes({d \in Evictable(es, protected) : Older(es, c, d)}) > Budget}
    IN  [c \in Commits |-> IF c \in gone THEN NoEntry ELSE es[c]]

Staged(c) == [bin |-> clock, sha |-> clock, used |-> clock, pinned |-> FALSE]

publish_renames(t) ==
    LET c == th[t].commit
    IN  /\ th[t].pc = "rename" /\ lock' = 0
        /\ entries' = evict_locked([entries EXCEPT ![c] = Staged(c)], {c})
        /\ builds' = [builds EXCEPT ![c] = IF @ = "active" THEN "none" ELSE @]
        /\ clock' = clock + 1 /\ th' = Go(t, "recompute")
        /\ UNCHANGED <<remote, wanted, spent>>

-----------------------------------------------------------------------------
(* The recompute of the pins, after every job.                             *)

pinned_targets == {remote.at[r] : r \in remote.pins}

\* A repository that cannot be listed leaves every pin as it is.
recompute_resolves(t) ==
    /\ th[t].pc = "recompute"
    /\ \/ th' = [th EXCEPT ![t].pc = "pin", ![t].targets = pinned_targets] /\ UNCHANGED spent
       \/ Fault /\ th' = [th EXCEPT ![t] = Idle]
    /\ UNCHANGED <<entries, lock, remote, wanted, builds, clock>>

set_pinned_by_commit(t) ==
    /\ th[t].pc = "pin" /\ lock = 0
    /\ entries' = [c \in Commits |-> [entries[c] EXCEPT !.pinned = entries[c].bin # 0 /\ c \in th[t].targets]]
    /\ wanted' = th[t].targets \cap scan_entries /\ th' = Go(t, "evict")
    /\ UNCHANGED <<lock, remote, builds, clock, spent>>

evict_to_budget(t) ==
    /\ th[t].pc = "evict" /\ lock = 0
    /\ entries' = evict_locked(entries, {}) /\ th' = Go(t, "warm")
    /\ UNCHANGED <<lock, remote, wanted, builds, clock, spent>>

\* A build still under way, or one that failed within the cooldown, is not asked again.
recent_build_attempt(c) == builds[c] # "none"

warm_missing(t) ==
    /\ th[t].pc = "warm" /\ lock = 0
    /\ builds' = [c \in Commits |->
                    IF c \in th[t].targets /\ c \notin scan_entries /\ ~recent_build_attempt(c)
                    THEN "active" ELSE builds[c]]
    /\ th' = [th EXCEPT ![t] = Idle]
    /\ UNCHANGED <<entries, lock, remote, wanted, clock, spent>>

CooldownPasses(c) ==
    /\ builds[c] = "failed" /\ builds' = [builds EXCEPT ![c] = "none"]
    /\ UNCHANGED <<entries, lock, th, remote, wanted, clock, spent>>

-----------------------------------------------------------------------------
Moved == spent.moves < MaxMoves /\ spent' = [spent EXCEPT !.moves = @ + 1]

Push(r, c) ==
    /\ Moved /\ remote.at[r] # c /\ remote' = [remote EXCEPT !.at[r] = c]
    /\ UNCHANGED <<entries, lock, th, wanted, builds, clock>>

is_expired(r) ==
    /\ Moved /\ r \in remote.pins /\ remote' = [remote EXCEPT !.pins = @ \ {r}]
    /\ UNCHANGED <<entries, lock, th, wanted, builds, clock>>

Work(t) ==
    \/ get_reads(t) \/ get_touches(t) \/ publish_clears(t) \/ publish_renames(t)
    \/ recompute_resolves(t) \/ set_pinned_by_commit(t) \/ evict_to_budget(t) \/ warm_missing(t)

Next ==
    \/ \E t \in Threads : Work(t) \/ BuildFails(t) \/ \E c \in Commits : StartJob(t, c) \/ StartWarmBuild(t, c)
    \/ \E c \in Commits : CooldownPasses(c)
    \/ \E r \in Refs : is_expired(r) \/ \E c \in Commits : Push(r, c)

Spec == Init /\ [][Next]_vars

-----------------------------------------------------------------------------
(* Properties.                                                             *)

\* An entry that the last recompute pinned is not evicted: it leaves the store only
\* to be replaced by its own rebuild.
PinnedKept ==
    \A c \in wanted \cap wanted' :
        entries[c].bin # 0 /\ entries'[c].bin = 0 =>
            \E t \in Threads : th'[t].pc = "rename" /\ th[t].pc = "build" /\ th[t].commit = c

\* The recorded hash of every entry is that of the binary beside it.
MetadataMatches == \A c \in Commits : entries[c].sha = entries[c].bin

\* Whenever no mutation is under way and no recompute is between its pins and its
\* eviction, the store fits the budget, or only pinned entries and the one just
\* published are left.
WithinBudget ==
    (lock = 0 /\ \A t \in Threads : th[t].pc # "evict") =>
        \/ Bytes(scan_entries) <= Budget
        \/ Cardinality({c \in scan_entries : ~entries[c].pinned}) <= 1

\* What is evicted was used less recently than every entry that could have been
\* evicted and was kept.
LeastRecentlyUsed ==
    \A c, d \in Commits :
        (/\ entries[c].bin # 0 /\ entries'[c].bin = 0 /\ lock' = 0
         /\ entries'[d].bin # 0 /\ entries'[d] = entries[d] /\ ~entries[d].pinned)
        => entries[c].used < entries[d].used
=============================================================================
