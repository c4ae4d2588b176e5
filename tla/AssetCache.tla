----------------------------- MODULE AssetCache -----------------------------
(***************************************************************************)
(* NV3047Memory::AssetCache (src/src/NV3047_AssetCache.cpp) between        *)
(* begin() and end(): a table of keyed assets with a byte budget, pinning  *)
(* and eviction of the least recently used.  The cache has no lock; this   *)
(* is one task's use of it.  put() and the trimming calls are loops, whose *)
(* every eviction and every attempt to allocate is a step.                 *)
(*                                                                         *)
(* The manager is what the cache sees of it: a block nobody has, or        *)
(* nullptr.  Between two calls it may lose a block of the cache: somebody  *)
(* releases the asset's pointer or all blocks with the cache's tag.  The   *)
(* address is not given out again while the cache still has the entry.     *)
(***************************************************************************)
EXTENDS Integers, FiniteSets, FiniteSetsExt

CONSTANTS
    Key,
    NoKey,
    Block,
    NoBlock,
    Empty,          \* an entry with used = false
    MAX_ENTRIES,
    Sizes,
    Budgets,        \* budgetBytes passed to begin(), 0 for no limit
    COUNTER_MAX     \* largest value of use_counter_, 2^32 - 1 in the code

Slot == 1 .. MAX_ENTRIES
NoSlot == 0
Entry == [key : Key, block : Block, bytes : Nat, pinned : BOOLEAN, lastUse : Nat]

ASSUME CacheConstants ==
    /\ MAX_ENTRIES \in Nat \ {0} /\ COUNTER_MAX \in Nat \ {0}
    /\ Sizes \subseteq Nat \ {0} /\ Budgets \subseteq Nat
    /\ NoKey \notin Key /\ NoBlock \notin Block /\ Empty \notin Entry

VARIABLES
    budget,         \* budget_bytes_
    entries,        \* entries_
    used_bytes,
    use_counter,
    live,           \* blocks the manager has given out to the cache
    older,          \* <<r, s>> when slot r was last used before s (history)
    pc,
    job             \* arguments and locals of put, evictLRU, trimToBytes

vars == <<budget, entries, used_bytes, use_counter, live, older, pc, job>>
table == <<entries, used_bytes, use_counter, older>>

Used == {s \in Slot : entries[s] # Empty}
SlotsOf(k) == {s \in Used : entries[s].key = k}
Owned(s) == entries[s].block \in live
OwnedOf(k) == {s \in SlotsOf(k) : Owned(s)}
FindIndex(k, x) == IF SlotsOf(k) = {} THEN x = NoSlot ELSE x \in SlotsOf(k)
Free == Slot \ Used
FindFreeIndex(x) == x \in Free /\ \A s \in Free : x <= s
Bytes(S) == SumFunction([s \in S |-> entries[s].bytes])
UsedLast(s) == {p \in older : p[1] # s} \cup (Used \ {s}) \X {s}
Forgotten(S) == {p \in older : p[1] \notin S /\ p[2] \notin S}

Job == [key : Key \cup {NoKey}, bytes : Nat, pinned : BOOLEAN, existing : Slot \cup {NoSlot},
        slot : Slot \cup {NoSlot}, block : Block \cup {NoBlock}, target : Int]
NoJob == [key |-> NoKey, bytes |-> 0, pinned |-> FALSE,
          existing |-> NoSlot, slot |-> NoSlot, block |-> NoBlock, target |-> 0]

Init ==
    /\ budget \in Budgets
    /\ entries = [s \in Slot |-> Empty]
    /\ used_bytes = 0
    /\ use_counter = 0
    /\ live = {}
    /\ older = {}
    /\ pc = "idle"
    /\ job = NoJob

-----------------------------------------------------------------------------
(* findLRUUnpinned, with the slot it has to spare *)
Evictable_Pinned(x) == {s \in Used : s # x}
Evictable(x) == {s \in Used : ~entries[s].pinned /\ s # x}
LRU(s, x) ==
    /\ s \in Evictable(x)
    /\ \A r \in Evictable(x) :
        \/ entries[s].lastUse < entries[r].lastUse
        \/ entries[s].lastUse = entries[r].lastUse /\ s <= r

(* touch, of entry s of table f: when the counter wraps, all start again   *)
(* from 1.  The variant starts only s again.                               *)
Touch_NoReset(f, s) ==
    LET wraps == use_counter = COUNTER_MAX
        stamp == IF wraps THEN 1 ELSE use_counter + 1
    IN /\ use_counter' = stamp
       /\ entries' = [f EXCEPT ![s].lastUse = stamp]
       /\ older' = UsedLast(s)
Touch(f, s) ==
    LET wraps == use_counter = COUNTER_MAX
        stamp == IF wraps THEN 1 ELSE use_counter + 1
    IN /\ use_counter' = stamp
       /\ entries' = [r \in Slot |->
             IF f[r] # Empty /\ (r = s \/ wraps)
             THEN [f[r] EXCEPT !.lastUse = stamp] ELSE f[r]]
       /\ older' = UsedLast(s)

(* remove: the blocks go back to the manager, the lost ones excepted.  The *)
(* variant keeps the total.                                                *)
Remove_KeepsTotal(S) ==
    /\ entries' = [s \in Slot |-> IF s \in S THEN Empty ELSE entries[s]]
    /\ live' = live \ {entries[s].block : s \in S}
    /\ older' = Forgotten(S)
    /\ UNCHANGED <<use_counter, used_bytes>>
Remove(S) ==
    /\ entries' = [s \in Slot |-> IF s \in S THEN Empty ELSE entries[s]]
    /\ used_bytes' = Max({0, used_bytes - Bytes(S)})
    /\ live' = live \ {entries[s].block : s \in S}
    /\ older' = Forgotten(S)
    /\ UNCHANGED use_counter

Goto(l, j) == pc' = l /\ job' = j /\ UNCHANGED budget
Return == Goto("idle", NoJob)
Quick == pc = "idle" /\ UNCHANGED <<budget, pc, job>>

-----------------------------------------------------------------------------
(* Calls that are one step *)

get == /\ Quick
       /\ \E k \in Key : \E s \in OwnedOf(k) : Touch(entries, s)
       /\ UNCHANGED <<used_bytes, live>>
pin == /\ Quick
       /\ \E k \in Key : \E s \in OwnedOf(k) :
            Touch([entries EXCEPT ![s].pinned = TRUE], s)
       /\ UNCHANGED <<used_bytes, live>>
unpin == /\ Quick
         /\ \E k \in Key : \E s \in OwnedOf(k) :
              Touch([entries EXCEPT ![s].pinned = FALSE], s)
         /\ UNCHANGED <<used_bytes, live>>
remove == Quick /\ \E k \in Key : SlotsOf(k) # {} /\ Remove(SlotsOf(k))
purgeUnpinned == Quick /\ Evictable(NoSlot) # {} /\ Remove(Evictable(NoSlot))
clear == Quick /\ Remove(Used)

(* Not a call of the cache: the manager releases one of its blocks. *)
Lose ==
    /\ Quick
    /\ \E s \in Used : Owned(s) /\ live' = live \ {entries[s].block}
    /\ UNCHANGED table

-----------------------------------------------------------------------------
(* put *)

(* The same size again: the asset is overwritten where it is. *)
putSame ==
    /\ Quick
    /\ \E k \in Key, p \in BOOLEAN : \E s \in OwnedOf(k) :
        Touch([entries EXCEPT ![s].pinned = p], s)
    /\ UNCHANGED <<used_bytes, live>>

(* What can never fit is refused at once. *)
Admissible(n) == budget = 0 \/ n <= budget
put ==
    /\ pc = "idle"
    /\ \E k \in Key, n \in Sizes, p \in BOOLEAN, x \in Slot \cup {NoSlot} :
        /\ Admissible(n)
        /\ FindIndex(k, x)
        /\ x # NoSlot => Owned(x) /\ entries[x].bytes # n
        /\ Goto("room", [NoJob EXCEPT !.key = k, !.bytes = n, !.pinned = p,
                                      !.existing = x])
    /\ UNCHANGED <<table, live>>

(* An entry whose block is lost is dropped, even for an asset that cannot  *)
(* fit; then the asset is a new one.  The variant keeps the total.         *)
putDropsLost_KeepsTotal ==
    /\ pc = "idle"
    /\ \E k \in Key, n \in Sizes, p \in BOOLEAN :
        /\ SlotsOf(k) # OwnedOf(k)
        /\ Remove_KeepsTotal(SlotsOf(k))
        /\ IF Admissible(n)
           THEN Goto("room", [NoJob EXCEPT !.key = k, !.bytes = n, !.pinned = p])
           ELSE Return
putDropsLost ==
    /\ pc = "idle"
    /\ \E k \in Key, n \in Sizes, p \in BOOLEAN :
        /\ SlotsOf(k) # OwnedOf(k)
        /\ Remove(SlotsOf(k))
        /\ IF Admissible(n)
           THEN Goto("room", [NoJob EXCEPT !.key = k, !.bytes = n, !.pinned = p])
           ELSE Return

(* The budget must hold the new asset and all but the one it replaces; a   *)
(* new one needs a slot too.                                               *)
OldBytes(j) == IF j.existing = NoSlot THEN 0 ELSE entries[j.existing].bytes
NeedsRoom(j) ==
    \/ budget # 0 /\ used_bytes - OldBytes(j) > budget - j.bytes
    \/ j.existing = NoSlot /\ Free = {}

(* The least recently used makes way; if there is none, put fails. *)
EvictOr(x, otherwise) ==
    \/ \E s \in Slot : LRU(s, x) /\ Remove({s}) /\ UNCHANGED <<budget, pc, job>>
    \/ Evictable(x) = {} /\ otherwise /\ UNCHANGED <<table, live>>

(* A variant that evicts the old asset as well. *)
MakeRoom_AnySlot ==
    /\ pc = "room"
    /\ \/ NeedsRoom(job) /\ EvictOr(NoSlot, Return)
       \/ /\ ~NeedsRoom(job)
          /\ \E s \in Slot :
                /\ IF job.existing = NoSlot THEN FindFreeIndex(s) ELSE s = job.existing
                /\ Goto("allocate", [job EXCEPT !.slot = s])
          /\ UNCHANGED <<table, live>>
MakeRoom ==
    /\ pc = "room"
    /\ \/ NeedsRoom(job) /\ EvictOr(job.existing, Return)
       \/ /\ ~NeedsRoom(job)
          /\ \E s \in Slot :
                /\ IF job.existing = NoSlot THEN FindFreeIndex(s) ELSE s = job.existing
                /\ Goto("allocate", [job EXCEPT !.slot = s])
          /\ UNCHANGED <<table, live>>

Allocated ==
    /\ pc = "allocate"
    /\ \E b \in Block \ live :
        /\ \A s \in Used : entries[s].block # b
        /\ live' = live \cup {b}
        /\ Goto("commit", [job EXCEPT !.block = b])
    /\ UNCHANGED table
AllocationFails == pc = "allocate" /\ EvictOr(job.existing, Return)

(* The replaced block is released, the entry written.  The variant forgets *)
(* the old block.                                                          *)
Written ==
    [entries EXCEPT ![job.slot] = [key |-> job.key, block |-> job.block,
        bytes |-> job.bytes, pinned |-> job.pinned, lastUse |-> 0]]
Commit_ForgetsOld ==
    /\ pc = "commit"
    /\ Touch(Written, job.slot)
    /\ used_bytes' = Max({0, used_bytes - OldBytes(job)}) + job.bytes
    /\ UNCHANGED live
    /\ Return
Commit ==
    /\ pc = "commit"
    /\ Touch(Written, job.slot)
    /\ used_bytes' = Max({0, used_bytes - OldBytes(job)}) + job.bytes
    /\ live' = IF job.existing = NoSlot THEN live
               ELSE live \ {entries[job.existing].block}
    /\ Return

-----------------------------------------------------------------------------
(* evictLRU(n) frees n bytes, trimToBytes and trimToPercent leave n; either *)
(* stops early when only pinned assets are left.                           *)
evictLRU ==
    /\ pc = "idle"
    /\ \E n \in Sizes : Goto("trim", [NoJob EXCEPT !.target = used_bytes - n])
    /\ UNCHANGED <<table, live>>
trimToBytes ==
    /\ pc = "idle"
    /\ \E n \in 0 .. used_bytes : Goto("trim", [NoJob EXCEPT !.target = n])
    /\ UNCHANGED <<table, live>>
Trim ==
    /\ pc = "trim"
    /\ \/ used_bytes > job.target /\ EvictOr(NoSlot, Return)
       \/ used_bytes <= job.target /\ Return /\ UNCHANGED <<table, live>>

Next == \/ get \/ pin \/ unpin \/ remove \/ purgeUnpinned \/ clear \/ Lose
        \/ putSame \/ put \/ putDropsLost \/ MakeRoom \/ Allocated \/ AllocationFails \/ Commit
        \/ evictLRU \/ trimToBytes \/ Trim
Spec == Init /\ [][Next]_vars

-----------------------------------------------------------------------------
(* Properties *)

(* Every variable has its type. *)
TypeOK ==
    /\ budget \in Budgets
    /\ entries \in [Slot -> Entry \cup {Empty}]
    /\ used_bytes \in Nat
    /\ use_counter \in 0 .. COUNTER_MAX
    /\ live \subseteq Block
    /\ older \subseteq Slot \X Slot
    /\ pc \in {"idle", "room", "allocate", "commit", "trim"}
    /\ job \in Job

(* validate(): used_bytes_ is the sum of the entries, within the budget;   *)
(* and a key has one entry.                                                *)
Accounting ==
    /\ used_bytes = Bytes(Used)
    /\ budget # 0 => used_bytes <= budget
    /\ \A k \in Key : Cardinality(SlotsOf(k)) <= 1

(* The cache's own test of itself, validate(), with the types.             *)
CacheInvariant == TypeOK /\ Accounting

(* INTEGRATION_PLAN: "Every pointer has exactly one owner."  The cache     *)
(* leaks no block and releases none twice: what the manager gave it and    *)
(* has not lost is in one entry, or is about to be written to one.         *)
EveryBlockHasOneEntry ==
    \A b \in Block :
        LET n == Cardinality({s \in Used : entries[s].block = b})
                   + (IF job.block = b THEN 1 ELSE 0)
        IN n <= 1 /\ (b \in live => n = 1)

(* README: pressure recovery will not evict a pinned asset.  It goes only  *)
(* when its own key is removed or replaced, or the cache is cleared.       *)
PinnedKept ==
    [][~remove /\ ~clear =>
        \A s \in Used : entries[s].pinned /\ Owned(s) =>
            \/ entries'[s] # Empty /\ entries'[s].block = entries[s].block
            \/ Commit /\ s = job.existing]_vars

(* put: "a failed resize" does not destroy "a previously valid cached      *)
(* asset".  Whatever put evicts on the way, the asset it replaces stays as *)
(* it was until the replacement is written.                                *)
FailedResizeKeepsAsset ==
    [][job.existing # NoSlot /\ ~Commit
         => entries'[job.existing] = entries[job.existing]]_vars

(* Levelled(r, s): the wrap of use_counter_ made r and s equal. *)
Levelled(r, s) == entries[r].lastUse = 1 /\ entries[s].lastUse = 1

(* README: "LRU cache eviction".  Evicted is the unpinned asset that has   *)
(* not been used for longest, except that the wrap of use_counter_ makes   *)
(* the assets used before it equals.                                       *)
EvictsLeastRecent ==
    [][\A s \in Used, r \in Evictable(job.existing) :
        /\ pc \in {"room", "allocate", "trim"}
        /\ entries'[s] = Empty
        /\ <<r, s>> \in older
        => Levelled(r, s)]_vars
=============================================================================
