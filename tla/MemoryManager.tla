--------------------------- MODULE MemoryManager ---------------------------
(***************************************************************************)
(* NV3047Memory::MemoryManager (src/src/NV3047_MemoryManager.cpp): the     *)
(* owner of every block of the firmware's managed memory.  FreeRTOS tasks  *)
(* call it concurrently.  The allocation table records_ is only touched    *)
(* under the manager's mutex, so a critical section is one action; what    *)
(* lies between two of them (reading the heap's free size, taking the      *)
(* block, giving it back) is an action of its own.                         *)
(*                                                                         *)
(* begin() and end() change more than one step of another task could see:  *)
(* begin() clears the records and the counters before there is a mutex,    *)
(* end() frees the scratch block, forgets it, clears ready_ and deletes    *)
(* the mutex, and release() tests ready_ before it waits for the mutex.    *)
(* Begin, Close and Drop each make one step of that.  This is what the     *)
(* code does as long as no other task is inside the manager during begin() *)
(* and end() (ExclusiveLifecycle): only then does the module speak of it.  *)
(*                                                                         *)
(* The ESP-IDF heap, reached by heap_caps calls, is external: it is a set  *)
(* of places where a block can start, in three pools, with a free-byte     *)
(* count per pool.  It may refuse any request, because of fragmentation.   *)
(***************************************************************************)
EXTENDS Naturals, FiniteSets, Functions

CONSTANTS
    Task,           \* FreeRTOS tasks that call the manager
    Keeper,         \* the one task that calls begin() and end()
    InternalOnly,   \* block addresses in internal RAM that DMA cannot reach
    DmaCapable,     \* block addresses in DMA-capable internal RAM
    External,       \* block addresses in PSRAM
    NoAddr,         \* nullptr
    Foreign,        \* addresses of blocks other firmware allocated
    Capacity,       \* bytes free in each pool before the manager starts
    Slots,          \* MAX_TRACKED_ALLOCATIONS
    Vacant,         \* a record with used = false
    Sizes,          \* block sizes requested
    Purposes,       \* MemoryPurpose values requested
    Tags, NoTag,    \* allocation tags, and the empty tag
    HasPSRAM,       \* heap_caps_get_total_size(SPIRAM) > 0
    PreferPSRAM, AllowFallback, AllowBitmapFallback, AllowScratchFallback,
    RequirePSRAMForFramebuffer, Threshold, InternalReserve, PSRAMReserve,
    ScratchBytes,   \* the fields of MemoryConfig
    ExclusiveLifecycle  \* TRUE: no other task is inside the manager while
                        \* Keeper runs begin() or end()

Addr == InternalOnly \cup DmaCapable \cup External
Slot == 1 .. Slots
AllPurposes == {"General", "UIObject", "Framebuffer", "Bitmap", "Scratch",
                "DMA", "Control"}
Region == {"Internal", "PSRAM", "DMA"}
Pools == {"iram", "dma", "psram"}

ASSUME TaskAssumption == /\ Keeper \in Task
                         /\ Task \cap {"heap", "table", "scratch"} = {}
ASSUME PoolAssumption ==
    /\ InternalOnly \cap DmaCapable = {}
    /\ InternalOnly \cap External = {}
    /\ DmaCapable \cap External = {}
    /\ NoAddr \notin InternalOnly \cup DmaCapable \cup External
    /\ Foreign \subseteq InternalOnly \cup DmaCapable \cup External
    /\ Capacity \in [{"iram", "dma", "psram"} -> Nat]
ASSUME SizeAssumption == Sizes \subseteq Nat \ {0}
ASSUME PurposeAssumption ==
    Purposes \subseteq {"General", "UIObject", "Framebuffer", "Bitmap",
                        "Scratch", "DMA", "Control"}
ASSUME ConfigAssumption ==
    /\ Slots \in Nat
    /\ {HasPSRAM, PreferPSRAM, AllowFallback, AllowBitmapFallback,
        AllowScratchFallback, RequirePSRAMForFramebuffer,
        ExclusiveLifecycle} \subseteq BOOLEAN
    /\ {Threshold, InternalReserve, PSRAMReserve, ScratchBytes} \subseteq Nat

VARIABLES
    heap,           \* heap[a]: bytes of the live block at a, 0 if none
    free,           \* free[p]: free bytes the heap reports for pool p
    ready,          \* ready_
    table,          \* records_
    trackedBytes,   \* tracked_bytes_
    active,         \* active_allocations_
    scratch,        \* scratch_base_
    pc, op,         \* where each task is, and in which call
    order,          \* arguments and locals of allocateTracked, per task
    ptr,            \* the block a task holds between two steps
    old             \* reallocate's argument, per task

heapVars == <<heap, free>>
tableVars == <<table, trackedBytes, active>>
taskVars == <<pc, op, order, ptr, old>>
vars == <<heap, free, ready, table, trackedBytes, active, scratch, pc, op,
          order, ptr, old>>

Record == [ptr : Addr, bytes : Nat, region : Region, purpose : AllPurposes,
           tag : Tags \cup {NoTag}]
ASSUME VacantAssumption == Vacant \notin Record

Order == [bytes : Nat, region : Region, fallback : BOOLEAN,
          purpose : AllPurposes, tag : Tags \cup {NoTag}]
NoOrder == [bytes |-> 0, region |-> "Internal", fallback |-> FALSE,
            purpose |-> "General", tag |-> NoTag]

-----------------------------------------------------------------------------
(* The heap *)

PoolOf(a) == IF a \in InternalOnly THEN "iram"
             ELSE IF a \in DmaCapable THEN "dma" ELSE "psram"

(* The pools that the capability mask of a region reaches. *)
PoolsOf(r) == IF r = "Internal" THEN {"iram", "dma"}
              ELSE IF r = "DMA" THEN {"dma"} ELSE {"psram"}

InternalFree == free["iram"] + free["dma"]
FreeIn(r) == IF r = "Internal" THEN InternalFree
             ELSE IF r = "DMA" THEN free["dma"] ELSE free["psram"]
ReserveOf(r) == IF r = "PSRAM" THEN PSRAMReserve ELSE InternalReserve

(* heap_caps_free: the pool gets the block's bytes back. *)
GiveBack(a) ==
    /\ heap' = [heap EXCEPT ![a] = 0]
    /\ free' = [free EXCEPT ![PoolOf(a)] = @ + heap[a]]

-----------------------------------------------------------------------------
(* Region policy *)

psram_available == ready /\ HasPSRAM

PreferExternal == psram_available /\ PreferPSRAM

chooseRegion(n, p) ==
    CASE p = "DMA" -> "DMA"
      [] p \in {"Framebuffer", "Bitmap", "Scratch"} ->
            IF PreferExternal THEN "PSRAM" ELSE "Internal"
      [] p \in {"UIObject", "Control"} -> "Internal"
      [] OTHER ->
            IF PreferExternal /\ n >= Threshold THEN "PSRAM" ELSE "Internal"

(* allocate: how a purpose becomes a region and a fallback permission.     *)
MustBeExternal(p) == p = "Framebuffer" /\ RequirePSRAMForFramebuffer
(* Fault: the framebuffer rule is forgotten. *)
MayFallBack_Always(p) == AllowFallback
MayFallBack(p) == /\ ~MustBeExternal(p)
                  /\ AllowFallback
                  /\ p = "Bitmap" => AllowBitmapFallback
                  /\ p = "Scratch" => AllowScratchFallback
OrderFor(n, p, g) ==
    [bytes |-> n, purpose |-> p, tag |-> g, fallback |-> MayFallBack(p),
     region |-> IF MustBeExternal(p) THEN "PSRAM" ELSE chooseRegion(n, p)]

(* Fault: the reserve is not kept. *)
Admits_NoReserve(r, n) ==
    /\ r = "PSRAM" => psram_available
    /\ \E p \in PoolsOf(r) : n <= free[p]
(* rawAllocate's admission test; the largest free block is at most the     *)
(* whole free size of one pool.                                            *)
Admits(r, n) ==
    /\ r = "PSRAM" => psram_available
    /\ r = "DMA" => n + ReserveOf(r) <= InternalFree
    /\ n + ReserveOf(r) <= FreeIn(r)
    /\ \E p \in PoolsOf(r) : n <= free[p]

-----------------------------------------------------------------------------
(* The tracking table *)

Tracked(a) == \E s \in Slot : table[s] # Vacant /\ table[s].ptr = a
IsFirst(s, S) == s \in S /\ \A r \in S : s <= r
TableFull == \A s \in Slot : table[s] # Vacant

(* trackAllocation: the first unused record, under the mutex. *)
trackAllocation(t, s) ==
    /\ IsFirst(s, {r \in Slot : table[r] = Vacant})
    /\ table' = [table EXCEPT ![s] =
                    [ptr |-> ptr[t], bytes |-> order[t].bytes,
                     region |-> order[t].region,
                     purpose |-> order[t].purpose, tag |-> order[t].tag]]
    /\ trackedBytes' = trackedBytes + order[t].bytes
    /\ active' = active + 1

(* Faults: the record stays; the allocation counter stays. *)
untrack_KeepsRecord(s) ==
    /\ UNCHANGED table
    /\ trackedBytes' = IF trackedBytes >= table[s].bytes
                       THEN trackedBytes - table[s].bytes ELSE 0
    /\ active' = IF active > 0 THEN active - 1 ELSE 0
untrack_KeepsCount(s) ==
    /\ table' = [table EXCEPT ![s] = Vacant]
    /\ trackedBytes' = trackedBytes - table[s].bytes
    /\ UNCHANGED active
(* release: the record that names the pointer is cleared, under the mutex; *)
(* the counters saturate at zero.                                          *)
untrack(s) ==
    /\ table' = [table EXCEPT ![s] = Vacant]
    /\ trackedBytes' = IF trackedBytes >= table[s].bytes
                       THEN trackedBytes - table[s].bytes ELSE 0
    /\ active' = IF active > 0 THEN active - 1 ELSE 0

FindRecord(s, a) ==
    IsFirst(s, {r \in Slot : table[r] # Vacant /\ table[r].ptr = a})

-----------------------------------------------------------------------------
Init ==
    /\ heap = [a \in Addr |-> IF a \in Foreign THEN 1 ELSE 0]
    /\ free = Capacity
    /\ ready = FALSE
    /\ table = [s \in Slot |-> Vacant]
    /\ trackedBytes = 0
    /\ active = 0
    /\ scratch = NoAddr
    /\ pc = [t \in Task |-> "idle"]
    /\ op = [t \in Task |-> "none"]
    /\ order = [t \in Task |-> NoOrder]
    /\ ptr = [t \in Task |-> NoAddr]
    /\ old = [t \in Task |-> NoAddr]

InLifecycle == op[Keeper] \in {"begin", "end"}

(* A task may call the manager. *)
CanCall(t) ==
    /\ pc[t] = "idle"
    /\ ExclusiveLifecycle => ~InLifecycle

Goto(t, l) == pc' = [pc EXCEPT ![t] = l]
Call(t, name, l) ==
    /\ op' = [op EXCEPT ![t] = name]
    /\ Goto(t, l)
(* The call returns: its locals are gone. *)
Return(t) ==
    /\ Call(t, "none", "idle")
    /\ order' = [order EXCEPT ![t] = NoOrder]
    /\ ptr' = [ptr EXCEPT ![t] = NoAddr]
    /\ old' = [old EXCEPT ![t] = NoAddr]

-----------------------------------------------------------------------------
(* Entry points.  A call that fails its first test (not ready, no bytes,   *)
(* framebuffer without PSRAM) changes nothing but a failure counter and    *)
(* is not an action.                                                       *)

(* allocate, calloc, allocateFramebuffer, allocateRGB565 *)
Allocate(t) ==
    /\ CanCall(t)
    /\ ready
    /\ \E n \in Sizes, p \in Purposes, g \in Tags \cup {NoTag} :
        /\ MustBeExternal(p) => psram_available
        /\ order' = [order EXCEPT ![t] = OrderFor(n, p, g)]
    /\ Call(t, "allocate", "check")
    /\ UNCHANGED <<heapVars, tableVars, ready, scratch, ptr, old>>

(* allocateDMA, allocateControl: fixed region, no fallback *)
AllocateFixed(t) ==
    /\ CanCall(t)
    /\ ready
    /\ \E n \in Sizes, g \in Tags \cup {NoTag}, p \in {"DMA", "Control"} \cap Purposes :
        order' = [order EXCEPT ![t] =
            [bytes |-> n, purpose |-> p, tag |-> g, fallback |-> FALSE,
             region |-> IF p = "DMA" THEN "DMA" ELSE "Internal"]]
    /\ Call(t, "allocate", "check")
    /\ UNCHANGED <<heapVars, tableVars, ready, scratch, ptr, old>>

(* allocateIn: the caller names the region (Auto is chooseRegion's) *)
AllocateIn(t) ==
    /\ CanCall(t)
    /\ ready
    /\ \E n \in Sizes, g \in Tags \cup {NoTag}, r \in Region, f \in BOOLEAN :
        order' = [order EXCEPT ![t] =
            [bytes |-> n, purpose |-> "General", tag |-> g, fallback |-> f,
             region |-> r]]
    /\ Call(t, "allocate", "check")
    /\ UNCHANGED <<heapVars, tableVars, ready, scratch, ptr, old>>

(* Fault: the old block's record is cleared before a new one is found. *)
Reallocate_ReleasesFirst(t) ==
    /\ CanCall(t)
    /\ ready
    /\ \E s \in Slot, n \in Sizes :
        /\ table[s] # Vacant
        /\ order' = [order EXCEPT ![t] = OrderFor(n, table[s].purpose, NoTag)]
        /\ old' = [old EXCEPT ![t] = table[s].ptr]
        /\ untrack(s)
    /\ Call(t, "reallocate", "check")
    /\ UNCHANGED <<heapVars, ready, scratch, ptr>>
(* reallocate of a tracked block: the record is read under the mutex, then *)
(* allocate() runs with the old purpose and tag unless the caller gives    *)
(* others.  (A null pointer is Allocate, zero bytes is Release.)           *)
Reallocate(t) ==
    /\ CanCall(t)
    /\ ready
    /\ \E s \in Slot, n \in Sizes, p \in Purposes \cup {"General"},
          g \in Tags \cup {NoTag} :
        /\ table[s] # Vacant
        /\ FindRecord(s, table[s].ptr)
        /\ LET purpose == IF p = "General" THEN table[s].purpose ELSE p
               tag == IF g = NoTag THEN table[s].tag ELSE g
           IN /\ MustBeExternal(purpose) => psram_available
              /\ order' = [order EXCEPT ![t] = OrderFor(n, purpose, tag)]
        /\ old' = [old EXCEPT ![t] = table[s].ptr]
    /\ Call(t, "reallocate", "check")
    /\ UNCHANGED <<heapVars, tableVars, ready, scratch, ptr>>

(* release: any pointer may be passed, also one that is stale or foreign.  *)
(* Its ready_ test happens here, the search under the mutex in Drop.       *)
Release(t) ==
    /\ CanCall(t)
    /\ ready
    /\ \E a \in Addr : ptr' = [ptr EXCEPT ![t] = a]
    /\ Call(t, "release", "drop")
    /\ UNCHANGED <<heapVars, tableVars, ready, scratch, order, old>>

ReleaseTag(t) ==
    /\ CanCall(t)
    /\ ready
    /\ \E g \in Tags : order' = [order EXCEPT ![t] = [NoOrder EXCEPT !.tag = g]]
    /\ Call(t, "releaseTag", "pick")
    /\ UNCHANGED <<heapVars, tableVars, ready, scratch, ptr, old>>

ReleaseAll(t) ==
    /\ CanCall(t)
    /\ ready
    /\ Call(t, "releaseAll", "pick")
    /\ UNCHANGED <<heapVars, tableVars, ready, scratch, order, ptr, old>>

-----------------------------------------------------------------------------
(* Lifecycle *)

OthersOutside(t) == \A u \in Task \ {t} : pc[u] = "idle"

(* What begin() asks of rawAllocate for the scratch arena. *)
ScratchOrder ==
    [bytes |-> ScratchBytes, purpose |-> "Scratch", tag |-> NoTag,
     fallback |-> AllowFallback /\ AllowScratchFallback,
     region |-> IF HasPSRAM /\ PreferPSRAM THEN "PSRAM" ELSE "Internal"]

(* begin: records_ is cleared whatever it held, ready_ is set, and only    *)
(* then the scratch block is requested.                                    *)
Begin(t) ==
    /\ t = Keeper
    /\ pc[t] = "idle"
    /\ ~ready
    /\ ExclusiveLifecycle => OthersOutside(t)
    /\ ready' = TRUE
    /\ table' = [s \in Slot |-> Vacant]
    /\ trackedBytes' = 0
    /\ active' = 0
    /\ scratch' = NoAddr
    /\ IF ScratchBytes = 0
       THEN UNCHANGED <<pc, op, order>>
       ELSE /\ Call(t, "begin", "check")
            /\ order' = [order EXCEPT ![t] = ScratchOrder]
    /\ UNCHANGED <<heapVars, ptr, old>>

End(t) ==
    /\ t = Keeper
    /\ pc[t] = "idle"
    /\ ready
    /\ ExclusiveLifecycle => OthersOutside(t)
    /\ Call(t, "end", "pick")
    /\ UNCHANGED <<heapVars, tableVars, ready, scratch, order, ptr, old>>

(* The tail of end(): the scratch block goes back, ready_ is cleared. *)
Close(t) ==
    /\ pc[t] = "close"
    /\ IF scratch = NoAddr THEN UNCHANGED heapVars ELSE GiveBack(scratch)
    /\ scratch' = NoAddr
    /\ ready' = FALSE
    /\ Return(t)
    /\ UNCHANGED tableVars

-----------------------------------------------------------------------------
(* allocateTracked *)

OtherRegion(r) == IF r = "PSRAM" THEN "Internal" ELSE "PSRAM"

(* Fault: each region is the other's fallback, for ever. *)
Refused_Forever(t) ==
    LET o == order[t] IN
    IF o.fallback /\ o.region # "DMA"
    THEN /\ order' = [order EXCEPT ![t] = [o EXCEPT !.region = OtherRegion(@)]]
         /\ Goto(t, "check")
         /\ UNCHANGED <<op, ptr, old>>
    ELSE Return(t)
(* A null pointer came back from rawAllocate: try the other region once,   *)
(* or give up.                                                             *)
Refused(t) ==
    LET o == order[t] IN
    IF /\ o.fallback
       /\ o.region # "DMA"
       /\ OtherRegion(o.region) = "PSRAM" => psram_available
    THEN /\ order' = [order EXCEPT ![t] = [o EXCEPT !.fallback = FALSE,
                                                    !.region = OtherRegion(@)]]
         /\ Goto(t, "check")
         /\ UNCHANGED <<op, ptr, old>>
    ELSE Return(t)

(* rawAllocate reads the free sizes and the largest block ... *)
Check(t) ==
    /\ pc[t] = "check"
    /\ \/ /\ Admits(order[t].region, order[t].bytes)
          /\ Goto(t, "take")
          /\ UNCHANGED <<op, order, ptr, old>>
       \/ Refused(t)
    /\ UNCHANGED <<heapVars, tableVars, ready, scratch>>

(* ... and then asks the heap, which has its own view of what is free. *)
Take(t) ==
    /\ pc[t] = "take"
    /\ \E a \in Addr :
        /\ heap[a] = 0
        /\ PoolOf(a) \in PoolsOf(order[t].region)
        /\ order[t].bytes <= free[PoolOf(a)]
        /\ heap' = [heap EXCEPT ![a] = order[t].bytes]
        /\ free' = [free EXCEPT ![PoolOf(a)] = @ - order[t].bytes]
        /\ IF op[t] = "begin"
           THEN scratch' = a /\ Return(t)
           ELSE /\ ptr' = [ptr EXCEPT ![t] = a]
                /\ Goto(t, "track")
                /\ UNCHANGED <<scratch, op, order, old>>
    /\ UNCHANGED <<tableVars, ready>>

(* heap_caps_aligned_alloc returns nullptr. *)
TakeFails(t) ==
    /\ pc[t] = "take"
    /\ Refused(t)
    /\ UNCHANGED <<heapVars, tableVars, ready, scratch>>

(* The record is filled in; allocate returns the block, reallocate goes on *)
(* to copy and release the old block.                                      *)
Track(t) ==
    /\ pc[t] = "track"
    /\ \E s \in Slot : trackAllocation(t, s)
    /\ IF op[t] = "reallocate"
       THEN /\ Goto(t, "drop")
            /\ ptr' = [ptr EXCEPT ![t] = old[t]]
            /\ UNCHANGED <<op, order, old>>
       ELSE Return(t)
    /\ UNCHANGED <<heapVars, ready, scratch>>

(* Fault: an untracked block is forgotten. *)
TrackFails_Forgets(t) ==
    /\ pc[t] = "track"
    /\ TableFull
    /\ Return(t)
    /\ UNCHANGED <<heapVars, tableVars, ready, scratch>>
(* The table is full: the block goes back to the heap. *)
TrackFails(t) ==
    /\ pc[t] = "track"
    /\ TableFull
    /\ Goto(t, "free")
    /\ UNCHANGED <<heapVars, tableVars, ready, scratch, op, order, ptr, old>>

-----------------------------------------------------------------------------
(* release, releaseTag, releaseAll *)

(* Which record the next round of the loop takes, read under the mutex.    *)
Wanted(t, s) == /\ table[s] # Vacant
                /\ op[t] = "releaseTag" => table[s].tag = order[t].tag

Pick(t) ==
    /\ pc[t] = "pick"
    /\ \/ \E s \in Slot :
            /\ IsFirst(s, {r \in Slot : Wanted(t, r)})
            /\ ptr' = [ptr EXCEPT ![t] = table[s].ptr]
            /\ Goto(t, "drop")
            /\ UNCHANGED <<op, order, old>>
       \/ /\ \A s \in Slot : ~Wanted(t, s)
          /\ IF op[t] = "end"
             THEN Goto(t, "close") /\ UNCHANGED <<op, order, ptr, old>>
             ELSE Return(t)
    /\ UNCHANGED <<heapVars, tableVars, ready, scratch>>

(* The block is gone, or was never ours: the loops look for the next one,  *)
(* the other calls return.                                                 *)
Looping(t) == op[t] \in {"releaseTag", "releaseAll", "end"}
Finish(t) ==
    IF Looping(t)
    THEN /\ Goto(t, "pick")
         /\ ptr' = [ptr EXCEPT ![t] = NoAddr]
         /\ UNCHANGED <<op, order, old>>
    ELSE Return(t)

(* Fault: the pointer is freed whether or not a record names it. *)
Drop_AnyPointer(t) ==
    /\ pc[t] = "drop"
    /\ \/ \E s \in Slot : FindRecord(s, ptr[t]) /\ untrack(s)
       \/ ~Tracked(ptr[t]) /\ UNCHANGED tableVars
    /\ Goto(t, "free")
    /\ UNCHANGED <<heapVars, ready, scratch, op, order, ptr, old>>
(* release(pointer), under the mutex: untrack it if it is ours. *)
Drop(t) ==
    /\ pc[t] = "drop"
    /\ \/ /\ ready
          /\ \E s \in Slot : FindRecord(s, ptr[t]) /\ untrack(s)
          /\ Goto(t, "free")
          /\ UNCHANGED <<op, order, ptr, old>>
       \/ /\ ~ready \/ ~Tracked(ptr[t])
          /\ Finish(t)
          /\ UNCHANGED tableVars
    /\ UNCHANGED <<heapVars, ready, scratch>>

(* rawFree, after the mutex was given *)
Free(t) ==
    /\ pc[t] = "free"
    /\ GiveBack(ptr[t])
    /\ Finish(t)
    /\ UNCHANGED <<tableVars, ready, scratch>>

-----------------------------------------------------------------------------
Step(t) == \/ Check(t) \/ Take(t) \/ TakeFails(t) \/ Track(t)
           \/ TrackFails(t) \/ Pick(t) \/ Drop(t) \/ Free(t) \/ Close(t)
Start(t) == \/ Allocate(t) \/ AllocateFixed(t) \/ AllocateIn(t)
            \/ Reallocate(t) \/ Release(t) \/ ReleaseTag(t) \/ ReleaseAll(t)
            \/ Begin(t) \/ End(t)

Next == \E t \in Task : Start(t) \/ Step(t)

Spec == Init /\ [][Next]_vars
(* The scheduler lets every task that is inside a call go on; nothing      *)
(* obliges the application to make another call.                           *)
FairSpec == Spec /\ \A t \in Task : WF_vars(Step(t))
-----------------------------------------------------------------------------
(* Properties *)

(* Every variable has its type. *)
TypeOK ==
    /\ heap \in [Addr -> Nat]
    /\ free \in [Pools -> Nat]
    /\ ready \in BOOLEAN
    /\ table \in [Slot -> Record \cup {Vacant}]
    /\ trackedBytes \in Nat
    /\ active \in Nat
    /\ scratch \in Addr \cup {NoAddr}
    /\ pc \in [Task -> {"idle", "check", "take", "track", "pick", "drop",
                        "free", "close"}]
    /\ op \in [Task -> {"none", "allocate", "reallocate", "release",
                        "releaseTag", "releaseAll", "begin", "end"}]
    /\ order \in [Task -> Order]
    /\ ptr \in [Task -> Addr \cup {NoAddr}]
    /\ old \in [Task -> Addr \cup {NoAddr}]

(* A task between Take and Track, or between Drop or TrackFails and Free,  *)
(* is the only one that knows the block.                                   *)
Holding(t) == pc[t] \in {"track", "free"}
HeldByATask(a) == \E t \in Task : Holding(t) /\ ptr[t] = a

(* Every block in the table is live, has the size the table says, is no    *)
(* other firmware's, and is listed once: allocate never returns a block    *)
(* that somebody still has, and release never frees one twice.             *)
TrackedIsLive ==
    /\ \A s \in Slot : table[s] # Vacant =>
        /\ heap[table[s].ptr] = table[s].bytes
        /\ table[s].bytes > 0
        /\ table[s].ptr \notin Foreign
    /\ \A r, s \in Slot :
        /\ table[r] # Vacant
        /\ table[s] # Vacant
        /\ table[r].ptr = table[s].ptr
        => r = s

(* The block a task is about to track or to free is live, in no record,    *)
(* not the scratch block, and in no other task's hands.                    *)
HeldIsExclusive ==
    /\ \A t \in Task : Holding(t) =>
        /\ ptr[t] \in Addr \ Foreign
        /\ heap[ptr[t]] > 0
        /\ ~Tracked(ptr[t])
        /\ ptr[t] # scratch
    /\ \A t, u \in Task : Holding(t) /\ Holding(u) /\ ptr[t] = ptr[u] => t = u

(* The scratch block is live while it is installed and nobody can release  *)
(* it by name.                                                             *)
ScratchIsSafe ==
    scratch # NoAddr => /\ scratch \notin Foreign
                        /\ heap[scratch] > 0
                        /\ ~Tracked(scratch)

(* Release "never frees a pointer that is not owned by this manager"       *)
(* (release, comment): blocks of other firmware stay as they are, whatever *)
(* pointers the application passes.                                        *)
ForeignUntouched == \A a \in Foreign : heap[a] = 1

(* However the tasks interleave: a block in the table, in a task's hands   *)
(* or in the arena is live and has that one owner, and no block of other   *)
(* firmware is touched; so nothing is freed twice.                         *)
ManagerInvariant == /\ TypeOK
                    /\ TrackedIsLive
                    /\ HeldIsExclusive
                    /\ ScratchIsSafe
                    /\ ForeignUntouched

(* "Always-on ownership bookkeeping for safe shutdown": every block the    *)
(* manager took from the heap is in the table, is the scratch block, or is *)
(* in the hands of a running call.                                         *)
NoLeak ==
    \A a \in Addr \ Foreign :
        heap[a] > 0 => Tracked(a) \/ a = scratch \/ HeldByATask(a)

(* A record names the region the block really lies in, also after a        *)
(* fallback; DMA blocks are DMA-capable, and framebuffers that must be in  *)
(* PSRAM are there.                                                        *)
PlacementPolicy ==
    \A s \in Slot : table[s] # Vacant =>
        /\ PoolOf(table[s].ptr) \in PoolsOf(table[s].region)
        /\ table[s].purpose = "DMA" => table[s].region = "DMA"
        /\ MustBeExternal(table[s].purpose) => table[s].region = "PSRAM"

(* "The manager protects configurable reserve amounts before approving     *)
(* allocations": no step takes a region's free bytes below its reserve.    *)
ReserveProtected ==
    [][/\ free'["iram"] + free'["dma"] < InternalFree =>
            free'["iram"] + free'["dma"] >= InternalReserve
       /\ free'["psram"] < free["psram"] => free'["psram"] >= PSRAMReserve]_vars

(* MemoryManager::validate: the counters are those of the records in use.  *)
Used == {s \in Slot : table[s] # Vacant}
validate == /\ trackedBytes = SumFunction([s \in Used |-> table[s].bytes])
            /\ active = Cardinality(Used)

(* At every moment, also inside other tasks' calls, the running totals of  *)
(* bytes and allocations are those of the table.                           *)
Accounting == ready => validate

(* While reallocate looks for a larger block, the old one stays tracked:   *)
(* when it fails, the caller still has its block.  (Other tasks may        *)
(* release it meanwhile, so this is for a task on its own.)                *)
ReallocKeepsOld ==
    \A t \in Task :
        op[t] = "reallocate" /\ pc[t] \in {"check", "take", "track"} =>
            Tracked(old[t])

(* README: "grouped cleanup by tag".  A releaseTag call removes a record   *)
(* only if it carries that tag.  (Another task can release the picked      *)
(* pointer and be given its address again, so this is for a task on its    *)
(* own.)                                                                   *)
ReleaseTagKeepsOthers ==
    [][\A t \in Task, s \in Slot :
        /\ op[t] = "releaseTag"
        /\ pc[t] = "drop"
        /\ pc'[t] = "free"
        /\ table[s] # Vacant
        /\ table'[s] = Vacant
        => table[s].tag = order[t].tag]_vars

(* Who owns a block of the heap: the allocator itself ("heap"), the table, *)
(* the scratch handle or one running call.                                 *)
ownerOf(b) ==
    IF heap[b] = 0 THEN "heap"
    ELSE IF Tracked(b) THEN "table"
    ELSE IF b = scratch THEN "scratch"
    ELSE IF HeldByATask(b) THEN CHOOSE t \in Task : Holding(t) /\ ptr[t] = b
    ELSE "lost"
owners == [b \in Addr \ Foreign |-> ownerOf(b)]

Ledger == INSTANCE OwnershipLedger WITH
    Block <- Addr \ Foreign, Holder <- Task, Books <- "table",
    Reserve <- "scratch", Nobody <- "heap",
    owner <- owners

(* The manager implements the ledger: each block the heap gave away is in  *)
(* the table, is the scratch block, or is held by one task's running call; *)
(* it changes hands only as the ledger allows.                             *)
LedgerSpec == Ledger!Spec

(* A call of the manager that is not a loop over the table returns, also   *)
(* one whose fallback or reallocate asks the heap again.                   *)
SimpleCallsReturn ==
    \A t \in Task : (pc[t] # "idle" /\ ~Looping(t)) ~> pc[t] = "idle"

(* end() loops until the table is empty.  It does return, with the manager *)
(* closed, when nobody else allocates meanwhile; releaseTag and releaseAll *)
(* loop the same way.                                                      *)
EndReturns == op[Keeper] = "end" ~> (op[Keeper] = "none" /\ ~ready)

(* So every call returns to its caller.                                    *)
CallsReturn == SimpleCallsReturn /\ EndReturns
=============================================================================
