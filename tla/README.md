# A verification development for NV3047_memorymanager

TLA+ models of the memory manager for the NV3047 display driver (ESP32-S3,
Arduino, FreeRTOS), checked with TLC on small instances, with the safety
properties of all but two modules proved by TLAPS for every instance. Paths below are relative to the
repository; `PROJECT.json` lists, for each definition, the lines it stands for.

## 1. The system

| Part | State | Operations | Talks to |
|---|---|---|---|
| `MemoryManager` | table of allocation records, running totals, scratch arena, last pressure level, configuration | `begin`, `end`, `allocate*`, `reallocate`, `release`, `releaseTag`, `releaseAll`, `scratch*`, `service` | ESP-IDF heap; everybody else calls it |
| `MemoryBroker` | client table (priority, activity, limits, usage), lease table, both in one arena taken from the manager | `begin`, `end`, client registration and settings, `request`, `requestElastic`, `release`, `releaseClientAllocations`, `touch`, `reclaimFor`, `service` | manager; calls clients back to make them give up memory |
| `ElasticBuffer` | pointer to a leased block | `ensure`, `data`, `release`; callback that clears the pointer | broker |
| `AssetCache` | keyed entries, byte budget, use counter | `put`, `get`, `pin`, `unpin`, `remove`, eviction and trimming | manager |
| `AutoMemory` | the singleton that owns one of each of the above, and the pressure policy | `begin`, `end`, `beginFrame`, `service`, `emergencyPurge` | all |
| `AutoRuntime` | background task, `runtime_mutex`, `minimal_mode_owned` | a pass every 250 ms: start a lightweight instance, service it, or stand aside | `AutoMemory`, the bridge |
| `DriverTakeover` | `bridge_active`, `started_by_bridge` | `providerBegin`, `providerEnd`, frame, service and DMA calls of the display driver | `AutoMemory`, the runtime's mutex |
| `DMAPool`, `FramebufferPair` | blocks taken from the manager | `begin`, `end`, acquire and release, swap | manager |
| `ObjectPool` | one block cut into slots, `used_`, `used_count_` | `begin`, `end`, `create`, `destroy`, `clear` | manager, constructors and destructors |
| `ManagedBuffer` | pointer to one block | `allocate`, `release`, move | manager |
| dump, stats, provider ABI | none of their own | output, a table of function pointers | |

What is hard here:

* **Windows between critical sections.** The manager's table is guarded by a
  FreeRTOS mutex, the broker's tables by a port critical section, and *neither
  lock is ever held while a block is taken from or returned to the level
  below*. In each such window a block is known to one running call only, and
  other tasks may take, free or re-lease the same address.
* **Values read before a lock and used under it**: free sizes, limits,
  `millis()`, the pressure level.
* **Callbacks with no lock held.** The broker calls reclaim and invalidation
  callbacks between two critical sections; the buffer that is invalidated
  may just be in the middle of `ensure()`. Constructors call the pool that
  constructs them.
* **Failure half-way.** Out of memory, no free record, client gone, a part of
  `AutoMemory` that does not come up: each comes after some memory has changed
  hands already.
* **Hand-over of the singleton** between a background task, the driver and the
  sketch, with flags that remember who began it.
* **Addresses as identities.** "Does the manager own this pointer" is the only
  guard against stale pointers, and an address can be given out again.
* **Loops without an obvious bound**: release loops, reclaim passes, eviction.
* **Edges**: wrapping counters and clocks, alignment at the end of the address
  space, limits that are zero for "none", full tables.

`PROJECT.json` lists the hazards one by one, at their lines, with the
properties that guard each or the reason why none does.

## 2. Modules

| Module | Models | State ↔ code |
|---|---|---|
| `OwnershipLedger` | abstract: what an owner of blocks promises | `owner[b]`: heap, a task, the books, the reserve |
| `MemoryManager` | `NV3047_MemoryManager.cpp` under concurrent tasks | `table` = `records_`, `trackedBytes`, `active`, `scratch` = `scratch_base_`; `pc`, `op`, `order`, `ptr`, `old` = position, call and locals of each task; `heap`, `free` = the external heap |
| `ScratchArena` | the scratch calls of the same file | `offset` = `scratch_offset_`, `mark` = marks in their users' hands; `held` is history: the bytes still in use |
| `MemoryBroker` | `NV3047_MemoryBroker.cpp` between `begin` and `end`, with `NV3047_ElasticBuffer.h` | `clients`, `leases` = the two tables, `data` = `data_` of each buffer, `live` = blocks the manager gave, `pc`/`job` = each task's call and locals |
| `ActivityClock` | time in the same file: stamps, `refreshActivities`, the oldest lease | `millis` wraps at `W`; `call` = what each task has read and not yet used; `quiet`, `unused`, `unserved` are history: the true ages |
| `AssetCache` | `NV3047_AssetCache.cpp` used by one task | `entries`, `used_bytes`, `use_counter`; `older` is history: the true order of use |
| `PressurePolicy` | `AutoMemory::service`, `emergencyPurge` and what they drive | `reported`, `last_pressure` = the two fields of that name, `observed` = the cache as the broker knows it, `pc`/`job` = the call; `reset` is history |
| `DriverTakeover` | `NV3047_AutoRuntime.cpp`, `NV3047_DriverTakeover.cpp`, `AutoMemory` as a whole | the three flags by their names, `mutex` = `runtime_mutex`, `automatic` = the singleton and who began it; `accepted` is history |
| `AutoLifecycle` | `AutoMemory::begin` and `end` part by part, `DMAPool`, `FramebufferPair`, `begin` and `end` of broker and cache, the provider's DMA calls | one record per part with the pointers it keeps, `held` = whose block lies where, `todo` = what is left of a call |
| `ObjectPool` | `NV3047_ObjectPool.h` | `used`, `used_count`; `stack` = calls that wait for a constructor or destructor; `objects` is history |
| `ManagedBuffer` | `NV3047_ManagedBuffer.h` | `data` = `data_` of each buffer, `held` = whose block lies where |
| `ManagerClients` | buffers and an object pool on one manager | the variables of both, and `block` = `storage_` of the pool |
| `MC_*` | instances for TLC | |
| `*_proofs` | theorems about the module they are named after; `ManagerClients_proofs` also those about pool and buffers, each alone, and about `DriverTakeover`; `PressurePolicy_proofs` also those about `ScratchArena`, which the policy resets; `Sums_proofs` the lemmas about sums, `Min` and `Max` that the others use | |

How they fit together. `MemoryManager` is shown to implement `OwnershipLedger`;
`MemoryBroker`, `AssetCache`, `AutoLifecycle` and `ManagedBuffer` rest on the
ledger: to them the manager is a set of blocks of which each request yields one
that nobody has, or `nullptr`. `ManagerClients` has buffers and a pool take their
blocks from the same manager, so that the one is given what the other has just
released. `AutoLifecycle` composes the parts and is shown
to implement `DriverTakeover`, in which a `begin()` is one step that succeeds or
fails. `PressurePolicy` composes manager, broker and cache with respect to
amounts of memory; whom the broker takes it from, and in what order, is
`MemoryBroker`, and which asset goes first is `AssetCache`.

**Granularity.** One critical section is one action: nothing else can see its
inside. Everything between two critical sections is an action of its own: the
reading of the heap's free size (`Check`) is separate from the allocation
(`Take`), clearing a record (`Drop`) from freeing the block (`Free`), recording a
lease (`Record`) from the caller's assignment of the pointer (`Assign`), reading
`millis()` from the section that uses it. In `AssetCache` and `AutoLifecycle`,
which have no lock, each eviction and each attempt to allocate is a step,
because the calls can fail between them.

**What is abstracted.** The heap is a set of places where blocks can start,
with a free-byte count per pool; it may refuse any request, which stands for
fragmentation and alignment. Names, tags and purposes are members of small
sets, block contents are left out. In `MemoryBroker` a client may be found as
old as one likes at any refresh, and any lease that fits may be the oldest;
`ActivityClock` is where ages are true. Operators named `X_Something` are faulty
variants of `X`. No action uses them; `PROJECT.json` pairs each with the property
that rejects it.

**External code.** The heap (`PoolOf`, `FreeIn`, ...), the FreeRTOS primitives,
`millis()` and what sketches and other tasks do are modelled from how the code
uses them.

## 3. Properties

A property that a run checks may be a conjunction of named parts; the proofs use
the parts.

| Property | Parts | Says |
|---|---|---|
| *Manager* | | |
| `ManagerInvariant` | `TypeOK`, `TrackedIsLive`, `HeldIsExclusive`, `ScratchIsSafe`, `ForeignUntouched` | a tracked block is live, listed once and of the size recorded; a block in a task's hands is nobody else's; the scratch block cannot be released by name; no pointer an application passes makes the manager free a block that is not its own |
| `NoLeak` | | what was taken from the heap is tracked, the scratch block, or in hand |
| `Accounting` | | the totals of `validate()` hold at every moment |
| `LedgerSpec` | | the manager implements `OwnershipLedger`; `ownerOf` is the refinement mapping |
| `ReallocKeepsOld` | | a reallocate that fails has kept the old block |
| `PlacementPolicy`, `ReserveProtected` | | regions and reserves, fallbacks included |
| `ReleaseTagKeepsOthers` | | `releaseTag` releases blocks with that tag only |
| `CallsReturn` | `SimpleCallsReturn`, `EndReturns` | liveness |
| *Scratch* | | |
| `FrameLifetime` | | no byte is drawn while somebody still uses it |
| `OffsetIsExact` | `ArenaTypeOK`, `ScratchBounds`, `NothingKeptBack` | blocks lie in the arena where they were asked for; a rewind gives back all of its operation's memory |
| *Broker* | | |
| `EveryBlockHasOneOwner` | | one lease, or one running call, per block |
| `BrokerInvariant` | `TypeOK`, `LeaseAccounting` | the totals are those of the leases |
| `HardLimitKept` | | no lease takes a client above its limit |
| `DonorsRespected` | `FloorKept`, `ProtectedClientsKept` | no reclaim takes from below a floor, from a Critical or a more important client, or from the requester |
| `HandleOwnsItsBlock` | | the block in an elastic buffer's `data_` is leased to that buffer and nobody else, or the buffer is about to be told |
| `CallsReturn` | | liveness |
| *Clock* | | |
| `NobodyBeforeItsTurn` | `NotDemotedEarly`, `OldestElasticFirst` | no client is demoted before its time; no lease goes while one that would do as well has been unused for longer |
| `IdleWhenQuiet` | `TypeOK`, `IdleInTime` | a quiet client is Idle within two passes after its time |
| *Cache* | | |
| `CacheInvariant` | `TypeOK`, `Accounting` | totals, budget, one entry per key |
| `EveryBlockHasOneEntry` | | no block is leaked or released twice |
| `PinnedKept`, `FailedResizeKeepsAsset`, `EvictsLeastRecent` | | what eviction may take, and in what order |
| *Policy* | | |
| `CriticalInFull` | `TypeOK`, `CriticalEntryHandled`, `CriticalTakesAll` | an entry to Critical is recorded only when all that is eligible was reclaimed and the arena reset |
| `PreservesTheRest`, `UsageIsCurrent` | | pinned assets and floors survive; targets come from current figures |
| `CriticalRecovers` | | liveness: while Critical lasts, again and again nothing eligible is left |
| *Takeover* | | |
| `NoReclaimBehindTheDriver`, `DriverGetsItsFrames`, `BridgeTearsDown`, `ManualInstanceKept` | | who may touch the singleton, and who ends it |
| `LightweightRestored` | | liveness |
| *Lifecycle* | | |
| `PartsAgree` | `TypeOK`, `OneOwner`, `DMAIsLent` | at every step of `begin`, `end` and their failures each part knows exactly the blocks that lie in its name; a lent DMA block stays lent |
| `AllOrNothing` | `NothingLeftBehind`, `ReadyIsWhole` | a failed `begin` leaves nothing, a successful one everything |
| `TakeoverSpec` | | the refinement of `DriverTakeover` |
| *Clients* | | |
| `OneOwner`, `PoolKeepsItsBlock` | | one owner per block among buffers, pool and others |
| `OneObjectPerSlot` | | no object is constructed in another's slot |
| `BooksMatchObjects` | `PoolTypeOK`, `KnowsItsObjects`, `NoObjectOutlivesItsBlock` | marks and counter agree with the objects, to the end of the block |

## 4. Runs

| Run | Expected | Instance | What it shows |
|---|---|---|---|
| `MM_tasks` | pass | 2 tasks, 4 addresses of which 1 foreign, 2 records, one size, scratch arena, one tag | ownership, no leak, no double free, accounting, the ledger |
| `MM_one_task` | pass | 1 task, 3 addresses, 2 sizes around the threshold, 5 purposes, fairness | placement, reserve, reallocate; calls return |
| `MM_tag_race` | violation | as `MM_tasks`, 2 tags, 2 purposes, no arena | `releaseTag` frees a block with another tag |
| `SA_arena` | pass | 7-bit addresses, an arena of 34 bytes that ends 5 bytes before the last address, 3 sizes, 4 alignments, 3 nested marks | no byte twice, nothing out of bounds, nothing kept back |
| `MB_tasks` | pass | 2 tasks, 2 clients, 2 leases, 2 blocks, 1 elastic buffer | one owner per block, totals, whatever overlaps |
| `MB_one_task` | pass | 1 task, 2 clients with a floor and limits that change, a priority that becomes Critical, reports of usage, fairness | limits, floors, protection of Critical clients, handles; calls return |
| `AK_clock` | pass | 1 task, 1 client in 3 registrations, 2 leases of different size and region, clock of 7 | demotion neither early nor late, across the wrap; of the leases that would do the oldest first |
| `AC_cache` | pass | 4 keys, 3 entries, 3 blocks, sizes 1, 2 and 4, budget 0 or 3, counter up to 3 | the cache, with allocation failures and lost blocks anywhere |
| `PP_policy` | pass | 8 bytes of PSRAM, 2 assets, 2 leases, with and without broker, purge and reset on Critical, any use by others before a call, fairness | Critical is dealt with in full, with current figures, and is answered as long as it lasts |
| `DT_takeover` | pass | 2 dimensions, with and without a runtime, fairness | the takeover, for a driver that ends before it begins again |
| `AL_lifecycle` | pass | 6 addresses, 3 configurations, up to 2 DMA blocks | begin, end and every failure in them; DMA lending; the refinement |
| `CL_clients` | pass | 3 buffers, a pool of 3 slots, 3 addresses, calls nested 3 deep | moves, assignments, destruction, constructors that call the pool, an early end of the manager |

**Bounds.** Two tasks are enough for each window in the code: a window has one
task inside and is upset by one other. Two records or leases make "the first that
fits", "none left" and "another one" happen; one address fewer than requests
makes re-use of an address frequent, which the stale-pointer hazards need. Sizes
of 1 and 2 against a threshold, minimum or limit between them take each
comparison on both sides; `AssetCache` adds one size above the budget. Three
entries are the fewest with an order to get wrong after an eviction, and a
counter that ends at 3 wraps within a few calls. `MB_tasks` has two reports of
usage, one where less is used than is said to be reclaimable. The six addresses
of `AL_lifecycle` are one fewer than the largest configuration with a lease and
an asset can use, so that each allocation also fails for want of memory. The
clock's `W` is a little more than the longest timeout plus twice the time
between two passes of `service()`, the least for which the code's unsigned ages
can be right. In `SA_arena` the alignments ask for powers of two that the
addresses have, that lie behind the arena, and that do not exist. Where memory is
counted (`PP_policy`) the thresholds lie within the range that the assets and leases
span, so that each level is entered and left by evicting one of them.

Bounds in guards: `GAP` (a pass of `service()` at least once in `GAP` ms) in
`ActivityClock`, `MAX_DEPTH` marks in `ScratchArena`, `DEPTH` nested calls in
`ObjectPool`. No other guard bounds a model: the sets above, `Capacity`, `TOTAL`
and `COUNTER_MAX` do. Symmetry is used only in runs without liveness.

**Restrictions that a reader should know.**

* `MM_tasks` and `MM_one_task` set `ExclusiveLifecycle`: no other task is inside
  the manager during `begin()` and `end()`. The code does not enforce that, and
  without it blocks are lost (a record entered after `end()` has looked is wiped
  by the next `begin()`). Nor would the model show all that can happen then: `Begin`
  clears the table in one step and `Close` frees the scratch block, forgets it and
  gives up the mutex in one step, where the code takes several without a lock; and
  `Drop` tests `ready_` once more under the mutex. So nothing is claimed about the
  manager without the restriction.
* `ReserveProtected`, `HardLimitKept`, `DonorsRespected`, `HandleOwnsItsBlock`,
  `NobodyBeforeItsTurn` and both `CallsReturn` are checked for one task; section 5
  says which of them a second task breaks, and how.
* `DT_takeover` and `AL_lifecycle` have the sketch call `AutoMemory::begin()`
  only where the runtime is disabled, as the repository's README asks;
  `AL_lifecycle` has no runtime, and a sketch that leaves the singleton alone
  while the bridge is active.
* `FrameLifetime` is for a frame that nobody else's pressure service interrupts
  (`BackgroundResets` = FALSE), and users nest their marks.
* `CriticalInFull` and `CriticalRecovers` are for calls during which nobody else takes
  memory (`Interferes` = FALSE); between the calls others do as they please. The
  run has `purgeUnpinnedOnCritical` and `resetScratchOnCritical` at their defaults, TRUE;
  the properties say what each asks for, and the proofs are for all four cases.
* `PartsAgree`, `AllOrNothing` and `TakeoverSpec` are checked for a driver that drops its
  pointers when it begins again (`KeepsPointers` = FALSE) and a sketch that does
  not end the manager under `AutoMemory` (`EndsManager` = FALSE).
* In `ActivityClock` the surplus of a client and the region in which memory is wanted
  are any that make a difference to its leases; `MemoryBroker` computes them.
* `OneObjectPerSlot` and `BooksMatchObjects` are for objects that are not created out of constructors
  (`Reentrant` = FALSE).
* In `AssetCache` and `ManagedBuffer` the address of a block that the manager
  has lost is not given to another while the cache, or a buffer, remembers it:
  no test of the code can tell the two blocks apart.

**Fairness.** A task that is inside a call goes on (weak fairness of its steps):
FreeRTOS schedules every ready task of these priorities, and no step waits for
anything but a mutex. Nothing obliges an application to make a call. In
`DriverTakeover`, a task that waits for `runtime_mutex` is given it in the end
(strong fairness of `Pass` and `Enter`): FreeRTOS wakes waiting tasks in order of
priority and then of arrival. A lightweight start, which allocates nothing but
the broker's tables, is assumed not to fail for ever (`StartMinimal`). Looping
calls (`releaseTag`, `releaseAll`, `releaseClientAllocations`) go on as long as
others allocate, and are not promised to return then. `ActivityClock` needs no
fairness: that a client is Idle in time is stated as an invariant over a clock
which cannot pass a due `service()` by more than `GAP` ms (the runtime's loop takes
250 ms, the timeouts are seconds). In `PressurePolicy` the same loop calls
`service()` for ever; the manager's monitor and the broker's pass skip calls
within their intervals but not all calls, so a call that is not skipped is made
again and again (strong fairness of those steps).

## 5. Where the code and its documents differ

*Grouped cleanup by tag* (`MM_tag_race`): `releaseTag` carries a pointer from one
critical section to another. Another task may release it in between, and the
address be given out under another tag: that block is then freed. The trace of
the run is the shortest way there.

Other statements of the documents hold only under the restrictions above. Each
has a counterexample as soon as the restriction is lifted in the configuration of
the run that checks it (for `HandleOwnsItsBlock`, in that of `MB_tasks`):

* *Reserves* (`ReserveProtected`, two tasks): the test of the reserve and the
  allocation are not atomic.
* *Hard limit* (`HardLimitKept`, two tasks): tested before, not when, the lease is
  entered.
* *The handle is invalidated safely* (`HandleOwnsItsBlock`, two tasks): not if the
  reclaim comes before `ensure()` has stored the pointer.
* *Active clients are protected* (`NotDemotedEarly`, two tasks): `service()` compares
  a time read before the critical section with a later stamp; the age wraps.
* *Scratch is frame-lifetime memory* (`FrameLifetime`, `BackgroundResets` = TRUE): the
  pressure policy recycles it in whatever task services `AutoMemory`.
* *Reset on Critical entry* (`CriticalInFull`, `Interferes` = TRUE): the level that is
  recorded is not the one that was acted on.
* *It also tears it down* (`BridgeTearsDown`, `Rebegins` = TRUE): not after a second
  `providerBegin`.
* *Stale releases are rejected* (`PartsAgree`, `KeepsPointers` = TRUE): while the provider
  is down they are; after the next begin the old pointer is looked up in the new
  pool, and a block that was lent since is marked free.
* *Critical pressure that stays is answered* (`CriticalRecovers`, `Interferes` = TRUE):
  what the broker has just taken from the application may be leased again before
  the cache gives its part, and the cache filled again after the call.
* *Stale-pointer guards* (`PartsAgree`, `EndsManager` = TRUE): the address of the
  broker's arena can be another block's after the manager was ended and begun
  again.
* *Every pointer has exactly one owner* (`OneObjectPerSlot`, `Reentrant` = TRUE): a
  slot is marked only when its constructor has returned.

## 6. Proofs

Proved with TLAPS, for any number of tasks, addresses, records, clients, entries
and slots, and any configuration. "Constants" are the named assumptions of the
module, which TLC evaluates on every run. A hypothesis beyond them is the one
under which the run checks the property; section 5 says what happens without it.

| Theorem | Module | States | From |
|---|---|---|---|
| `OwnershipIsExclusive` | `MemoryManager_proofs` | `ManagerInvariant` | also `ExclusiveLifecycle` |
| `TotalsAreRight` | " | `Accounting` | also `ExclusiveLifecycle` |
| `BlocksAreWhereTheyShouldBe` | " | `PlacementPolicy` | also `ExclusiveLifecycle` |
| `NothingLeaks` | " | `NoLeak` | also `ExclusiveLifecycle` |
| `KeepsTheLedger` | " | `LedgerSpec`, the refinement | also `ExclusiveLifecycle` |
| `ReallocateKeepsOld` | " | `ReallocKeepsOld` | also one task |
| `ReservesAreKept` | " | `ReserveProtected` | also one task |
| `BlocksHaveOneOwner` | `MemoryBroker_proofs` | `EveryBlockHasOneOwner` | constants |
| `BrokerBooksAreRight` | " | `BrokerInvariant` | constants |
| `HandlesOwnTheirBlocks` | " | `HandleOwnsItsBlock` | also one task |
| `LimitsAreKept` | " | `HardLimitKept` | also one task |
| `DonorsAreRespected` | " | `DonorsRespected` | also one task |
| `OldestGoesFirst` | `ActivityClock_proofs` | `OldestElasticFirst`, a part of `NobodyBeforeItsTurn` | constants |
| `QuietBecomesIdle` | " | `IdleWhenQuiet` | also one task |
| `ProtectedUntilTheirTurn` | " | `NobodyBeforeItsTurn` | also one task |
| `BlocksAreEntered` | `AssetCache_proofs` | `EveryBlockHasOneEntry` | constants |
| `CacheBooksAreRight` | " | `CacheInvariant` | constants |
| `ResizeKeepsAsset` | " | `FailedResizeKeepsAsset` | constants |
| `PinnedAssetsStay` | " | `PinnedKept` | constants |
| `EvictionIsLRU` | " | `EvictsLeastRecent` | constants |
| `UsageStaysCurrent` | `PressurePolicy_proofs` | `UsageIsCurrent` | constants |
| `TheRestIsPreserved` | " | `PreservesTheRest` | constants |
| `CriticalIsDealtWithInFull` | " | `CriticalInFull` | also `~Interferes` |
| `ScratchLivesForItsFrame` | " | `FrameLifetime` | also `~BackgroundResets` |
| `OffsetStaysExact` | " | `OffsetIsExact` | also `~BackgroundResets` |
| `SafeWithTheDriver` | `ManagerClients_proofs` | `NoReclaimBehindTheDriver` | constants |
| `FramesAreTheDrivers` | " | `DriverGetsItsFrames` | constants |
| `SketchKeepsItsInstance` | " | `ManualInstanceKept` | constants |
| `TearsDownAfterItself` | " | `BridgeTearsDown` | also `~Rebegins` |
| `PartsAlwaysAgree` | `AutoLifecycle_proofs` | `PartsAgree` | also `~EndsManager`, `~KeepsPointers` |
| `BeginIsAllOrNothing` | " | `AllOrNothing` | the same |
| `ImplementsTakeover` | " | `TakeoverSpec`, the refinement | the same |
| `SlotsHoldOneObject` | `ManagerClients_proofs` | `OneObjectPerSlot` | also `~Reentrant` |
| `PoolBooksAreRight` | " | `BooksMatchObjects` | also `~Reentrant` |
| `BuffersOwnTheirBlocks` | " | `BuffersTyped`, `OneOwner` | constants |
| `PoolHasItsBlock` | " | `PoolKeepsItsBlock` | constants |

*Manager.* None of the three ownership invariants is inductive alone. A block in
hand has to be untracked for `Track` to keep the table free of duplicates; a
tracked block has to be live and not foreign for `Free` to be safe; the scratch
block has to be neither for `Close` to be safe. Their conjunction with `TypeOK` and
with what each position in a call says of the task's locals is inductive
(`Ownership`), and it is proved one action at a time. `NoLeak` needs more: that
`begin()` finds an empty table and no scratch block (it wipes both), which holds
because nobody is inside the manager when `end()` empties it. That is where
the proof uses `ExclusiveLifecycle`; the other theorems about several tasks assume it
because the model's `Begin` and `Close` are faithful only then. The totals (`Counted`)
are kept however the calls interleave;
since a record is never larger than the total, the saturating subtractions in
the code never saturate. Placement has an invariant of its own: an order in
flight is for a region its purpose allows, and can fall back only where every
region is allowed. For one task, what the admission test saw is still so when
the heap is asked (`Approved`), and the block that `reallocate` replaces is
still in the table.

*Sums.* The models sum over a finite set with a fold, whose value is defined by
a `CHOOSE` over a recursive function. What the proofs need (the sum is a number; an
element, whichever, can be split off; only the summed values matter; a changed
value changes the sum by the difference) is proved by a smallest
counterexample: of the finite sets on which the claim fails take one of least
cardinality, take its chosen element away, and the claim fails on a smaller
one. That needs no induction theorem with an operator parameter.

*Ledger.* The invariant of `NothingLeaks` puts each block in exactly one place
(`Placed`), so the refinement mapping, which is defined by cases and a `CHOOSE`, has
one value. A step leaves every block but one where it is (`Stays`), and for that
one its two owners are read off the action; five actions move a block, the others
stutter. Two tasks are as good as any number here, which is what TLC alone
cannot say.

*Scratch.* The marks in their users' hands are in order, each lies above the
blocks drawn before it, and every block lies below the offset. That nothing is
kept back needs a block for each mark: one drawn before the mark ends at it
(`MarksHaveBlocks`), so that a rewind finds a block that ends at the offset.

*Broker.* Who is asked for memory, and how much, is irrelevant to who owns a
block. The inductive invariant speaks of two places: the lease table, and the
calls that carry a block between two critical sections. Blocks are in one place,
once, and come from the manager. Every action then is one of five moves, each
proved to keep the invariant once.

The totals (`BrokerInv`) need the types of every call's locals, which say what
each position in a call may rely on, and that a lease is entered or removed
together with its bytes. The three properties of one task (`Alone`) rest on what
stays true between a call's critical sections when nobody else runs: the
block in a handle's `data_` is still leased to it, or the callback is about to clear it
(`HandlesKept`); the limit that a request
was tested against is the client's, and what is recorded is what was tested
(`CallsFit`, `RecordFits`); the donor that was chosen is still the one that the
requester may take from.

*Clock.* `ClockInv` says what a stamp is worth, whatever tasks interleave: as long
as the clock has not come round since an event, the difference of clock and
stamp modulo `W` is the true time since then, for clients, leases and for the
time that a call has read and not yet used. That is enough for the order of leases:
of two stamps the smaller is the older one if the later use was after the last
wrap. With one task two more facts are inductive. A call has read the clock
after every event (`InOrder`), so the age that `service()` computes is the true age
less the time since it read the clock, and never wraps below zero: nobody is
lowered early. And whoever is not Idle has not been quiet for longer than its
`idleAfterMs`, one `GAP` and the time since the last pass (`Due`): the pass that
follows finds it. A second task breaks `InOrder`, and with it both theorems. The
constants say that the longest timeout and two passes of `service()` are less than
`W`, and that no burst is of length 0.

*Cache.* Keys and blocks belong to one entry each, whatever makes `put` evict;
and a `put` under way may rely on the entry it found (eviction spares it) and the
slot it chose. `FailedResizeKeepsAsset` and `PinnedKept` follow step by step. The
budget needs what `put` knows at each point about the bytes that it is about to
add (`Booked`). The order of use is a relation in the history variable `older`;
`Aged` says that the stamps in the entries agree with it, except among entries that a
wrap of the counter has made equal.

*Pressure policy.* `PolicyInv` holds with other tasks in between: the bytes of
cache, leases and others never exceed the pool, a call is where it can be with the
locals it may have there, and from the synchronisation to the decision the
broker's figures are those of the cache (`UsageKnown`). `UsageIsCurrent` and, with one
lemma per action about what it leaves alone, `PreservesTheRest` follow. `CriticalInFull`
needs to know that a reclaim which must leave nothing eligible is never short of
target (`Whole`): what it has still to free covers what the donors not yet asked can
give, the figures it goes by are right, and a donor that was asked has nothing
eligible left. Around it stand three facts about levels: what has been freed is
still free (`FreedIsFree`), the level can only have eased since it was read (`Latest`),
and it is not recorded as Critical before the arena was reset (`Handled`). All of them
fail when others take memory during a call, which is the hypothesis `~Interferes`;
between calls others do as they please. The constants are finite sets of assets
and leases with sizes above 0; percentages may be any numbers, because
`warningReclaimPercent` is not clamped by the code.

*Takeover.* The inductive invariant says who can be where: with a runtime, a task
inside its critical section holds `runtime_mutex`, so the two are never inside
together, and without one only the loop task runs. From that the flags can only
change when the background task is not in a pass. `ManualInstanceKept` needs that
without a runtime `minimal_mode_owned` is never set, `BridgeTearsDown` that a
driver-begun instance is marked by both flags until it is torn down.

*Lifecycle.* The inductive invariant (`LifecycleInv`) follows the list of parts that
a `begin()` still has to bring up, or an `end()` to take down: the parts before
that point are up, those behind it are down, each block that lies in a part's
name is known to that part and to no other, and the blocks of a DMA pool are
lent or free. A failure anywhere turns the list around. From it the three
theorems follow; for the refinement a whole begin is one step of the bridge
when it succeeds or fails, and a stutter before. The two hypotheses are needed
where a pointer of a former life is compared with a block of this one.

*Pool.* Calls that wait for a constructor or destructor have a slot each, not yet
marked if it is being created and still marked if it is being destroyed; a clear
is the outermost call and leaves nothing behind it. So what lives is what is
marked, and at most one object under construction. On one manager with buffers
the pool's steps are those of the pool alone, so this carries over.

*Buffers.* Besides types and `OneOwner` one needs that a manager which has ended
owns nothing, so that a buffer's old pointer releases nothing, and beside a pool
that the pool's block is the manager's own for as long as the pool believes it.

*Only model-checked.* Liveness (`CallsReturn`, `LightweightRestored`,
`CriticalRecovers`) with its fairness and `ENABLED` is out of the prover's reach.
`ReleaseTagKeepsOthers` does not hold. Every other property of a run is a theorem.

## 7. Not modelled, and why

* `dump`, `stats`, fragmentation figures, peaks and failure counters: output
  only, nothing reads them back.
* The provider ABI: a table of the functions that are modelled.
* Blocking inside `portENTER_CRITICAL` (`allocationRegion` is called there): a rule
  of the platform about interrupts that steps cannot express.
* A second task inside `AssetCache`, which has no lock: a data race has no
  defined outcome to model beyond "anything", and no document allows it.
* `clear()` of an `ObjectPool` out of a constructor or destructor of its own
  objects.
* The clearing of pixels and the copying of block contents.
* Examples and the build.

## 8. Plan

Done, in this order: the manager and its ledger; the proofs about it; the broker
with elastic buffers; the takeover with its proofs; the cache; the scratch arena;
the clock; the pressure policy; the lifecycle with DMA pool and framebuffers;
object pool and managed buffer, alone and on one manager; proofs about broker,
cache, scratch arena, pool and buffer; the ledger refinement; the lifecycle's
invariants and its refinement of the takeover; sums, and with them the totals of
manager, broker and cache; limits, floors, handles and reserves for one task;
the safety of the pressure policy, and the clock.

Next:

1. The lifecycle with the background runtime in one model.
2. For each call a number that its every step lowers: the part of `CallsReturn` that is a
   safety property, and so within the prover's reach.
