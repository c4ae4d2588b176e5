----------------------- MODULE PressurePolicy_proofs -----------------------
(***************************************************************************)
(* Theorems about PressurePolicy, for any assets, leases, sizes, limits    *)
(* and percentages; and about ScratchArena, which the policy resets, for   *)
(* any arena, any requests and any depth of marks.                         *)
(*                                                                         *)
(* PolicyInv holds whatever other tasks do: no byte is in two hands, a     *)
(* call is where it can be, and the figures that the policy decides by are *)
(* those of the cache.  AloneInv holds as well when others only run        *)
(* between the calls: the level can only ease during a call, what has been *)
(* freed stays free, and a reclaim that must leave nothing eligible has a  *)
(* target that covers every donor it has still to ask.                     *)
(***************************************************************************)
EXTENDS PressurePolicy, ScratchArena, Sums_proofs

-----------------------------------------------------------------------------
(* Numbers and bytes *)

Item == Entry \cup Lease

(* The bytes of a set of assets and leases are a natural number.           *)
LEMMA BytesType ==
    ASSUME NEW S \in SUBSET Item
    PROVE  Bytes(S) \in Nat /\ IsFiniteSet(S)
<1>1. IsFiniteSet(Item)
    BY PolicyConstants, FS_Union DEF Item
<1>2. IsFiniteSet(S)
    BY <1>1, FS_Subset
<1>3. \A x \in S : SizeOf[x] \in Nat
    BY PolicyConstants DEF Item
<1> QED
    BY <1>2, <1>3, SumType DEF Bytes

(* They are those of a part and those of the rest.                         *)
LEMMA BytesSplit ==
    ASSUME NEW S \in SUBSET Item, NEW T \in SUBSET S
    PROVE  /\ Bytes(S) = Bytes(T) + Bytes(S \ T)
           /\ Bytes(T) \in Nat /\ Bytes(S \ T) \in Nat /\ Bytes(S) \in Nat
<1>1. \A x \in S : SizeOf[x] \in Int
    BY PolicyConstants DEF Item
<1>2. IsFiniteSet(S)
    BY BytesType
<1>3. SumFunctionOnSet(SizeOf, S)
        = SumFunctionOnSet(SizeOf, T) + SumFunctionOnSet(SizeOf, S \ T)
    BY <1>1, <1>2, SumSplit
<1>4. T \in SUBSET Item /\ S \ T \in SUBSET Item
    OBVIOUS
<1> QED
    BY <1>3, <1>4, BytesType DEF Bytes

(* Those of one element are its size.                                      *)
LEMMA BytesOfOne ==
    ASSUME NEW x \in Item
    PROVE  Bytes({x}) = SizeOf[x] /\ SizeOf[x] \in Nat \ {0}
<1>1. SizeOf[x] \in Nat \ {0}
    BY PolicyConstants DEF Item
<1> QED
    BY <1>1, SumOne DEF Bytes

(* What leaves a set takes its size with it.                               *)
LEMMA BytesWithout ==
    ASSUME NEW S \in SUBSET Item, NEW x \in S
    PROVE  /\ Bytes(S \ {x}) = Bytes(S) - SizeOf[x]
           /\ SizeOf[x] \in Nat \ {0} /\ Bytes(S) \in Nat /\ Bytes(S \ {x}) \in Nat
<1>1. {x} \in SUBSET S /\ x \in Item
    OBVIOUS
<1>2. Bytes(S) = Bytes({x}) + Bytes(S \ {x}) /\ Bytes(S) \in Nat /\ Bytes(S \ {x}) \in Nat
    BY <1>1, BytesSplit
<1>3. Bytes({x}) = SizeOf[x] /\ SizeOf[x] \in Nat \ {0}
    BY <1>1, BytesOfOne
<1> QED
    BY <1>2, <1>3

(* What joins a set brings its size.                                       *)
LEMMA BytesWith ==
    ASSUME NEW S \in SUBSET Item, NEW x \in Item \ S
    PROVE  /\ Bytes(S \cup {x}) = Bytes(S) + SizeOf[x]
           /\ SizeOf[x] \in Nat \ {0} /\ Bytes(S) \in Nat
<1>1. S \cup {x} \in SUBSET Item /\ x \in S \cup {x} /\ (S \cup {x}) \ {x} = S
    OBVIOUS
<1>2. /\ Bytes((S \cup {x}) \ {x}) = Bytes(S \cup {x}) - SizeOf[x]
      /\ SizeOf[x] \in Nat \ {0} /\ Bytes(S \cup {x}) \in Nat
    BY <1>1, BytesWithout
<1>3. Bytes((S \cup {x}) \ {x}) = Bytes(S)
    BY <1>1, Zenon
<1> QED
    BY <1>1, <1>2, <1>3, BytesType

(* Only the empty set has none.                                            *)
LEMMA BytesZero ==
    ASSUME NEW S \in SUBSET Item, Bytes(S) = 0
    PROVE  S = {}
<1>1. ASSUME NEW x \in S PROVE FALSE
  <2>1. /\ Bytes(S \ {x}) = Bytes(S) - SizeOf[x]
        /\ SizeOf[x] \in Nat \ {0} /\ Bytes(S \ {x}) \in Nat
      BY BytesWithout
  <2> QED
      BY <2>1
<1> QED
    BY <1>1

-----------------------------------------------------------------------------
(* The invariant of every call, whatever other tasks do                    *)

Label == {"idle", "monitor", "sync", "broker", "percent", "reclaim", "elastic",
          "read", "act", "scratch", "record", "purge"}
JobSet == [call : {"none", "begin", "service", "purge"}, current : Level, changed : BOOLEAN,
           reason : Level, target : Nat, freed : Nat,
           tried : SUBSET {"assets", "application"}, ask : Int, after : Label]

(* Memory: what there is, and what it is taken for.                        *)
MemoryOk ==
    /\ cached \in [Entry -> {"absent", "unpinned", "pinned"}]
    /\ leased \subseteq Lease
    /\ other \in Nat /\ Free >= 0
    /\ internal \in Level
FiguresOk ==
    /\ observed \in [bytes : 0 .. TOTAL, reclaimable : 0 .. TOTAL]
    /\ observed.reclaimable <= observed.bytes
LevelsOk ==
    /\ reported \in Level /\ last_pressure \in Level
    /\ broker \in BOOLEAN /\ budget \in Nat /\ reset \in BOOLEAN

(* Where a call may be, and where it goes on.                              *)
LocalsOk(l, j) ==
    /\ l \in Label /\ j \in JobSet
    /\ l = "sync" => j.after \in {"broker", "read", "purge", "record", "idle"}
    /\ l \in {"percent", "reclaim", "elastic"} => broker
    /\ l \in {"reclaim", "elastic"} => j.after \in {"read", "scratch"}
    /\ l = "idle" => j = NoJob
    /\ j.call = "purge" =>
        \/ l \in {"purge", "scratch"}
        \/ l = "sync" /\ j.after \in {"purge", "idle"}
        \/ l \in {"reclaim", "elastic"} /\ j.after = "scratch"
    /\ l = "purge" \/ (l = "sync" /\ j.after = "purge") => j.call = "purge"
(* Elastic leases are the broker's.                                        *)
LeasesOk == ~broker => leased = {}

(* Nobody uses the cache between the synchronisation and a decision.       *)
UsageKnown ==
    broker /\ pc \in {"broker", "read", "act", "purge", "record"} => observed = Usage

PolicyInv ==
    MemoryOk /\ FiguresOk /\ LevelsOk /\ LocalsOk(pc, job) /\ LeasesOk /\ UsageKnown

(* The bytes of the cache and of the leases are part of TOTAL.             *)
LEMMA Bounds ==
    ASSUME MemoryOk
    PROVE  /\ InCache \in SUBSET Item /\ Unpinned \in SUBSET InCache /\ leased \in SUBSET Item
           /\ Bytes(InCache) \in Nat /\ Bytes(Unpinned) \in Nat /\ Bytes(leased) \in Nat
           /\ Bytes(Unpinned) <= Bytes(InCache)
           /\ Free = TOTAL - other - Bytes(InCache) - Bytes(leased)
           /\ Free \in 0 .. TOTAL /\ other \in 0 .. TOTAL /\ Bytes(InCache) <= TOTAL
           /\ Bytes(leased) <= TOTAL
<1>1. InCache \in SUBSET Item /\ Unpinned \in SUBSET InCache /\ leased \in SUBSET Item
    BY DEF InCache, Unpinned, Item, MemoryOk
<1>2. /\ Bytes(InCache) = Bytes(Unpinned) + Bytes(InCache \ Unpinned)
      /\ Bytes(InCache) \in Nat /\ Bytes(Unpinned) \in Nat
      /\ Bytes(InCache \ Unpinned) \in Nat
    BY <1>1, BytesSplit
<1>3. Bytes(leased) \in Nat
    BY <1>1, BytesType
<1>4. Free = TOTAL - other - Bytes(InCache) - Bytes(leased)
    BY DEF Free
<1>5. other \in Nat /\ Free >= 0 /\ TOTAL \in Nat
    BY PolicyConstants DEF MemoryOk
<1> QED
    BY <1>1, <1>2, <1>3, <1>4, <1>5

(* A level is one of three.                                                *)
LEMMA PressureType == internal \in Level => pressure \in Level
    BY DEF pressure, Worse, Level

(* The floor leaves no more to take than there is.                         *)
LEMMA SurplusIs ==
    ASSUME MemoryOk
    PROVE  /\ Surplus = IF Bytes(leased) >= minimumBytes THEN Bytes(leased) - minimumBytes ELSE 0
           /\ Surplus \in Nat /\ minimumBytes \in Nat /\ Bytes(leased) \in Nat
<1>1. Bytes(leased) \in Nat /\ minimumBytes \in Nat
    BY Bounds, PolicyConstants
<1>2. Max({0, Bytes(leased) - minimumBytes})
        = IF 0 >= Bytes(leased) - minimumBytes THEN 0 ELSE Bytes(leased) - minimumBytes
    BY <1>1, MaxOf
<1> QED
    BY <1>1, <1>2 DEF Surplus

(* A donor is asked for no more than it has.                               *)
LEMMA AskType ==
    ASSUME NEW n \in Nat, job \in JobSet
    PROVE  /\ AskOf(n) \in Int /\ AskOf(n) <= n
           /\ job.target - job.freed >= n => AskOf(n) = n
           /\ job.freed < job.target => AskOf(n) >= 0
<1>1. job.target \in Nat /\ job.freed \in Nat /\ minimumReclaimBytes \in Nat
    BY PolicyConstants DEF JobSet
<1> DEFINE missing == Min({job.target - job.freed, n})
<1>2. missing = IF job.target - job.freed <= n THEN job.target - job.freed ELSE n
    BY <1>1, MinOf
<1>3. AskOf(n) = IF missing < minimumReclaimBytes /\ n >= minimumReclaimBytes
                 THEN minimumReclaimBytes ELSE missing
    BY DEF AskOf
<1> HIDE DEF missing
<1> QED
    BY <1>1, <1>2, <1>3

(* Nothing that is told of memory changes when memory does not.            *)
LEMMA SameMemory ==
    ASSUME UNCHANGED memory
    PROVE  /\ Usage' = Usage /\ InCache' = InCache /\ Unpinned' = Unpinned
           /\ Free' = Free /\ pressure' = pressure /\ Surplus' = Surplus
           /\ MemoryOk => MemoryOk'
<1>1. cached' = cached /\ leased' = leased /\ other' = other /\ internal' = internal
    BY DEF memory
<1>2. InCache' = InCache /\ Unpinned' = Unpinned
    BY <1>1 DEF InCache, Unpinned
<1>3. Bytes(InCache)' = Bytes(InCache) /\ Bytes(Unpinned)' = Bytes(Unpinned)
      /\ Bytes(leased)' = Bytes(leased)
    BY <1>1, <1>2 DEF Bytes
<1>4. Free' = Free
    BY <1>1, <1>3 DEF Free
<1> QED
    BY <1>1, <1>2, <1>3, <1>4 DEF Usage, pressure, Surplus, MemoryOk

(* What evicting unpinned assets does.                                     *)
LEMMA EvictStep ==
    ASSUME MemoryOk, NEW S \in SUBSET Unpinned, Evict(S), UNCHANGED <<leased, other, internal>>
    PROVE  /\ MemoryOk' /\ Bytes(S) \in Nat
           /\ \A e \in Entry : cached[e] = "pinned" => cached'[e] = "pinned"
           /\ Unpinned' = Unpinned \ S
           /\ Bytes(Unpinned') = Bytes(Unpinned) - Bytes(S)
           /\ Free' = Free + Bytes(S)
<1>1. /\ cached' = [e \in Entry |-> IF e \in S THEN "absent" ELSE cached[e]]
      /\ S \subseteq Entry /\ \A e \in S : cached[e] = "unpinned"
    BY DEF Evict, Unpinned
<1>2. cached' \in [Entry -> {"absent", "unpinned", "pinned"}]
    BY <1>1 DEF MemoryOk
<1>3. InCache' = InCache \ S /\ Unpinned' = Unpinned \ S
    BY <1>1, <1>2 DEF InCache, Unpinned
<1>4. S \in SUBSET InCache /\ InCache \in SUBSET Item /\ Unpinned \in SUBSET Item
    BY Bounds
<1>5. /\ Bytes(InCache) = Bytes(S) + Bytes(InCache \ S)
      /\ Bytes(S) \in Nat /\ Bytes(InCache \ S) \in Nat
    BY <1>4, BytesSplit
<1>6. Bytes(Unpinned) = Bytes(S) + Bytes(Unpinned \ S) /\ Bytes(Unpinned \ S) \in Nat
    BY <1>4, BytesSplit
<1>7. Free' = TOTAL - other - Bytes(InCache \ S) - Bytes(leased)
    BY <1>3 DEF Free
<1>8. Free' = Free + Bytes(S)
    BY <1>5, <1>7, Bounds, PolicyConstants
<1>9. MemoryOk'
    BY <1>2, <1>5, <1>8, Bounds DEF MemoryOk
<1>10. \A e \in Entry : cached[e] = "pinned" => cached'[e] = "pinned"
    BY <1>1
<1> QED
    BY <1>3, <1>5, <1>6, <1>8, <1>9, <1>10

(* Others allocate, release, lease and change internal RAM.                *)
LEMMA OthersKeep ==
    ASSUME PolicyInv,
           OthersAllocate \/ OthersRelease \/ InternalChanges \/ requestElastic \/ releaseLease
    PROVE  PolicyInv'
<1> USE DEF PolicyInv
<1>1. UNCHANGED <<config, cached, observed, reported, last_pressure, reset, pc, job>>
    BY DEF OthersAllocate, OthersRelease, InternalChanges, requestElastic, releaseLease,
           Untouched
<1>2. Bytes(InCache)' = Bytes(InCache) /\ Usage' = Usage
    BY <1>1 DEF Usage, InCache, Unpinned, Bytes
<1>3. MemoryOk' /\ LeasesOk'
  <2>1. CASE OthersAllocate
    <3>1. PICK n \in 1 .. Free : other' = other + n
        BY <2>1 DEF OthersAllocate
    <3>2. leased' = leased /\ internal' = internal /\ Bytes(leased)' = Bytes(leased)
        BY <2>1 DEF OthersAllocate, Bytes
    <3>3. Free' = Free - n /\ other' \in Nat
        BY <1>2, <3>1, <3>2, Bounds, PolicyConstants DEF Free
    <3>4. Free \in Nat
        BY Bounds
    <3> QED
        BY <1>1, <3>1, <3>2, <3>3, <3>4 DEF MemoryOk, LeasesOk, config
  <2>2. CASE OthersRelease
    <3>1. PICK n \in 1 .. other : other' = other - n
        BY <2>2 DEF OthersRelease
    <3>2. leased' = leased /\ internal' = internal /\ Bytes(leased)' = Bytes(leased)
        BY <2>2 DEF OthersRelease, Bytes
    <3>3. Free' = Free + n /\ other' \in Nat
        BY <1>2, <3>1, <3>2, Bounds, PolicyConstants DEF Free
    <3>4. Free \in Nat
        BY Bounds
    <3> QED
        BY <1>1, <3>1, <3>2, <3>3, <3>4 DEF MemoryOk, LeasesOk, config
  <2>3. CASE InternalChanges
    <3>1. leased' = leased /\ other' = other /\ internal' \in Level
        BY <2>3, PolicyConstants DEF InternalChanges
    <3>2. Free' = Free
        BY <1>2, <3>1 DEF Free, Bytes
    <3> QED
        BY <1>1, <3>1, <3>2 DEF MemoryOk, LeasesOk, config
  <2>4. CASE requestElastic
    <3>1. PICK l \in Lease \ leased : SizeOf[l] <= Free /\ leased' = leased \cup {l}
        BY <2>4 DEF requestElastic
    <3>2. broker /\ other' = other /\ internal' = internal
        BY <2>4 DEF requestElastic
    <3>3. l \in Item \ leased
        BY DEF Item
    <3>4. Bytes(leased \cup {l}) = Bytes(leased) + SizeOf[l] /\ SizeOf[l] \in Nat \ {0}
        BY <3>3, Bounds, BytesWith
    <3>5. Bytes(leased)' = Bytes(leased) + SizeOf[l]
        BY <3>1, <3>4 DEF Bytes
    <3>6. Free' = Free - SizeOf[l]
        BY <1>2, <3>2, <3>4, <3>5, Bounds, PolicyConstants DEF Free
    <3> QED
        BY <1>1, <3>1, <3>2, <3>4, <3>6, Bounds DEF MemoryOk, LeasesOk, config
  <2>5. CASE releaseLease
    <3>1. PICK l \in leased : leased' = leased \ {l}
        BY <2>5 DEF releaseLease
    <3>2. other' = other /\ internal' = internal
        BY <2>5 DEF releaseLease
    <3>4. Bytes(leased \ {l}) = Bytes(leased) - SizeOf[l] /\ SizeOf[l] \in Nat \ {0}
        BY Bounds, BytesWithout
    <3>5. Bytes(leased)' = Bytes(leased) - SizeOf[l]
        BY <3>1, <3>4 DEF Bytes
    <3>6. Free' = Free + SizeOf[l]
        BY <1>2, <3>2, <3>4, <3>5, Bounds, PolicyConstants DEF Free
    <3> QED
        BY <1>1, <3>1, <3>2, <3>4, <3>6, Bounds DEF MemoryOk, LeasesOk, config
  <2> QED
      BY <2>1, <2>2, <2>3, <2>4, <2>5
<1>4. FiguresOk' /\ LevelsOk' /\ UsageKnown'
    BY <1>1, <1>2 DEF FiguresOk, LevelsOk, UsageKnown, config
<1>5. LocalsOk(pc, job)'
    BY <1>1, Zenon DEF LocalsOk, config
<1> QED
    BY <1>3, <1>4, <1>5

(* Assets come and go.                                                     *)
LEMMA UseCacheKeeps ==
    ASSUME PolicyInv, useCache
    PROVE  PolicyInv' /\ job' = NoJob
<1> USE DEF PolicyInv
<1>1. UNCHANGED <<config, observed, reported, last_pressure, reset, pc, job>>
      /\ pc = "idle" /\ leased' = leased /\ other' = other /\ internal' = internal
    BY DEF useCache, Untouched, At
<1>2. PICK e \in Entry, s \in {"absent", "unpinned", "pinned"} :
        /\ cached[e] = "absent" => SizeOf[e] <= Free
        /\ s # cached[e] /\ cached' = [cached EXCEPT ![e] = s]
    BY DEF useCache
<1>3. e \in Item /\ cached' \in [Entry -> {"absent", "unpinned", "pinned"}]
    BY <1>2 DEF Item, MemoryOk
<1>4. Bytes(leased)' = Bytes(leased)
    BY <1>1 DEF Bytes
<1>5. Free' >= 0
  <2>1. CASE cached[e] = "absent"
    <3>1. e \notin InCache /\ InCache' = InCache \cup {e}
        BY <1>2, <2>1 DEF InCache, MemoryOk
    <3>2. Bytes(InCache \cup {e}) = Bytes(InCache) + SizeOf[e] /\ SizeOf[e] \in Nat \ {0}
        BY <1>3, <3>1, Bounds, BytesWith
    <3>3. Bytes(InCache)' = Bytes(InCache) + SizeOf[e]
        BY <3>1, <3>2 DEF Bytes
    <3> QED
        BY <1>1, <1>2, <1>4, <2>1, <3>2, <3>3, Bounds, PolicyConstants DEF Free
  <2>2. CASE cached[e] # "absent" /\ s = "absent"
    <3>1. e \in InCache /\ InCache' = InCache \ {e}
        BY <1>2, <2>2 DEF InCache, MemoryOk
    <3>2. Bytes(InCache \ {e}) = Bytes(InCache) - SizeOf[e] /\ SizeOf[e] \in Nat \ {0}
        BY <3>1, Bounds, BytesWithout
    <3>3. Bytes(InCache)' = Bytes(InCache) - SizeOf[e]
        BY <3>1, <3>2 DEF Bytes
    <3> QED
        BY <1>1, <1>4, <3>2, <3>3, Bounds, PolicyConstants DEF Free
  <2>3. CASE cached[e] # "absent" /\ s # "absent"
    <3>1. InCache' = InCache
        BY <1>2, <2>3 DEF InCache, MemoryOk
    <3>2. Bytes(InCache)' = Bytes(InCache)
        BY <3>1 DEF Bytes
    <3> QED
        BY <1>1, <1>4, <3>2, Bounds, PolicyConstants DEF Free
  <2> QED
      BY <2>1, <2>2, <2>3
<1>6. MemoryOk' /\ LeasesOk'
    BY <1>1, <1>3, <1>5 DEF MemoryOk, LeasesOk, config
<1>7. FiguresOk' /\ LevelsOk' /\ UsageKnown'
    BY <1>1 DEF FiguresOk, LevelsOk, UsageKnown, config
<1>8. LocalsOk(pc, job)' /\ job' = NoJob
    BY <1>1, Zenon DEF LocalsOk, config
<1> QED
    BY <1>6, <1>7, <1>8

(* A step of a call that touches no memory.                                *)
LEMMA CallMoves ==
    ASSUME PolicyInv, NEW l, NEW j, Goto(l, j), LocalsOk(l, j),
           UNCHANGED <<memory, observed>>,
           reported' \in Level, last_pressure' \in Level, reset' \in BOOLEAN,
           broker /\ l \in {"broker", "read", "act", "purge", "record"} => observed = Usage
    PROVE  PolicyInv'
<1> USE DEF PolicyInv
<1>1. pc' = l /\ job' = j /\ broker' = broker /\ budget' = budget
    BY DEF Goto, config
<1>2. observed' = observed /\ leased' = leased /\ MemoryOk' /\ Usage' = Usage
    BY SameMemory DEF memory
<1>3. FiguresOk' /\ LevelsOk' /\ LeasesOk' /\ UsageKnown'
    BY <1>1, <1>2 DEF FiguresOk, LevelsOk, LeasesOk, UsageKnown
<1>4. LocalsOk(pc, job)'
    BY <1>1, Zenon DEF LocalsOk
<1> QED
    BY <1>2, <1>3, <1>4

(* The locals of no call.                                                  *)
LEMMA NoJobType == NoJob \in JobSet /\ NoJob.call = "none"
    BY DEF NoJob, JobSet, Level, Label

(* What the broker could reclaim is a number.                              *)
LEMMA ReclaimableType ==
    ASSUME MemoryOk, FiguresOk
    PROVE  /\ Reclaimable = observed.reclaimable + Surplus
           /\ Reclaimable \in Nat /\ observed.reclaimable \in Nat /\ Surplus \in Nat
<1>1. availableReclaim("assets") = observed.reclaimable
      /\ availableReclaim("application") = Surplus
    BY DEF availableReclaim
<1>2. observed.reclaimable \in Nat
    BY PolicyConstants DEF FiguresOk
<1> QED
    BY <1>1, <1>2, SurplusIs DEF Reclaimable

(* So is a share of it.                                                    *)
LEMMA ShareType ==
    ASSUME NEW n \in Nat, NEW p \in Nat
    PROVE  (n * p) \div 100 \in Nat
<1>1. n * p \in Nat
    OBVIOUS
<1> DEFINE m == n * p
<1> HIDE DEF m
<1>2. m \in Nat => m \div 100 \in Nat
    OBVIOUS
<1> QED
    BY <1>1, <1>2 DEF m

(* A call begins.                                                          *)
LEMMA StartKeeps ==
    ASSUME PolicyInv, service \/ emergencyPurge
    PROVE  PolicyInv'
<1> USE DEF PolicyInv
<1>1. CASE service
  <2> DEFINE j == [NoJob EXCEPT !.call = "service"]
  <2>1. Goto("monitor", j) /\ UNCHANGED <<memory, observed, reported, last_pressure, reset>>
      BY <1>1 DEF service
  <2>2. j \in JobSet /\ j.call = "service"
      BY NoJobType DEF JobSet
  <2>3. LocalsOk("monitor", j)
      BY <2>2 DEF LocalsOk, Label
  <2> QED
      BY <2>1, <2>3, CallMoves DEF LevelsOk
<1>2. CASE emergencyPurge
  <2> DEFINE j == [NoJob EXCEPT !.call = "purge", !.after = "purge"]
  <2>1. Goto("sync", j) /\ UNCHANGED <<memory, observed, reported, last_pressure, reset>>
      BY <1>2 DEF emergencyPurge
  <2>2. j \in JobSet /\ j.call = "purge" /\ j.after = "purge"
      BY NoJobType DEF JobSet, Label
  <2>3. LocalsOk("sync", j)
      BY <2>2 DEF LocalsOk, Label
  <2> QED
      BY <2>1, <2>3, CallMoves DEF LevelsOk
<1> QED
    BY <1>1, <1>2

(* The monitor, the broker's service, and the readings of the level.       *)
LEMMA ReadingsKeep ==
    ASSUME PolicyInv, Monitor \/ BrokerService \/ BrokerPercent \/ Read \/ Record
    PROVE  PolicyInv'
<1> USE DEF PolicyInv
<1>1. pressure \in Level
    BY PressureType DEF MemoryOk
<1>2. job \in JobSet /\ job.call \in {"none", "begin", "service", "purge"}
    BY DEF LocalsOk, JobSet
<1>3. CASE Monitor
  <2> DEFINE j == [job EXCEPT !.after = "broker"]
  <2>1. /\ Goto("sync", j) /\ UNCHANGED <<memory, observed, last_pressure, reset>>
        /\ reported' \in {reported, pressure} /\ pc = "monitor"
      BY <1>3 DEF Monitor, At
  <2>2. j \in JobSet /\ j.call = job.call /\ j.after = "broker" /\ job.call # "purge"
      BY <1>2, <2>1 DEF JobSet, Label, LocalsOk
  <2>3. LocalsOk("sync", j)
      BY <2>2 DEF LocalsOk, Label
  <2> HIDE DEF j
  <2> QED
      BY <1>1, <2>1, <2>3, CallMoves DEF LevelsOk
<1>4. CASE BrokerService
  <2>1. UNCHANGED <<memory, observed, reported, last_pressure, reset>> /\ pc = "broker"
      BY <1>4 DEF BrokerService, At
  <2>2. job.call # "purge"
      BY <2>1 DEF LocalsOk
  <2> DEFINE j == [job EXCEPT !.after = "read"]
             k == [job EXCEPT !.target = Reclaimable]
  <2>3. CASE Goto("sync", j)
    <3>1. j \in JobSet /\ j.call = job.call /\ j.after = "read"
        BY <1>2 DEF JobSet, Label
    <3>2. LocalsOk("sync", j)
        BY <2>2, <3>1 DEF LocalsOk, Label
    <3> HIDE DEF j
    <3> QED
        BY <2>1, <2>3, <3>2, CallMoves DEF LevelsOk
  <2>4. CASE broker /\ Goto("percent", k)
    <3>1. k \in JobSet /\ k.call = job.call
        BY <1>2, ReclaimableType DEF JobSet
    <3>2. LocalsOk("percent", k)
        BY <2>2, <2>4, <3>1 DEF LocalsOk, Label
    <3> HIDE DEF k
    <3> QED
        BY <2>1, <2>4, <3>2, CallMoves DEF LevelsOk
  <2> QED
      BY <1>4, <2>3, <2>4 DEF BrokerService
<1>5. CASE BrokerPercent
  <2>1. UNCHANGED <<memory, observed, reported, last_pressure, reset>> /\ pc = "percent"
      BY <1>5 DEF BrokerPercent, At
  <2>2. job.call # "purge" /\ broker
      BY <2>1 DEF LocalsOk
  <2> DEFINE j == [job EXCEPT !.after = "read"]
             percent == IF pressure = "Critical" THEN criticalReclaimPercent
                        ELSE warningReclaimPercent
             share == (job.target * Min({percent, 100})) \div 100
             least == Min({job.target, minimumReclaimBytes})
             n == AtLeast(share, least)
  <2>3. CASE Goto("sync", j)
    <3>1. j \in JobSet /\ j.call = job.call /\ j.after = "read"
        BY <1>2 DEF JobSet, Label
    <3>2. LocalsOk("sync", j)
        BY <2>2, <3>1 DEF LocalsOk, Label
    <3> HIDE DEF j
    <3> QED
        BY <2>1, <2>3, <3>2, CallMoves DEF LevelsOk
  <2>4. CASE Reclaim(n, pressure, "read")
    <3>1. n \in Nat
      <4>1. job.target \in Nat /\ percent \in Nat /\ minimumReclaimBytes \in Nat
          BY <1>2, PolicyConstants DEF JobSet
      <4> HIDE DEF percent
      <4>2. Min({percent, 100}) \in Nat /\ least \in Nat
          BY <4>1, MinOf
      <4>3. share \in Nat
          BY <4>1, <4>2, ShareType
      <4> HIDE DEF share, least
      <4> QED
          BY <4>2, <4>3, MaxOf DEF AtLeast
    <3> HIDE DEF n
    <3> DEFINE k == [job EXCEPT !.target = n, !.reason = pressure, !.freed = 0,
                                !.tried = {}, !.after = "read"]
    <3>2. k \in JobSet /\ k.call = job.call /\ k.after = "read"
        BY <1>1, <1>2, <3>1 DEF JobSet, Label
    <3>3. Goto("reclaim", k)
        BY <2>4 DEF Reclaim
    <3>4. LocalsOk("reclaim", k)
        BY <2>2, <3>2 DEF LocalsOk, Label
    <3> HIDE DEF k
    <3> QED
        BY <2>1, <3>3, <3>4, CallMoves DEF LevelsOk
  <2> QED
      BY <1>5, <2>3, <2>4 DEF BrokerPercent
<1>6. CASE Read
  <2> DEFINE j == [job EXCEPT !.current = pressure,
                   !.changed = (job.call = "begin" \/ pressure # last_pressure)]
  <2>1. UNCHANGED <<memory, observed, reported, last_pressure, reset>>
        /\ pc = "read" /\ Goto("act", j)
      BY <1>6 DEF Read, At
  <2>2. j \in JobSet /\ j.call = job.call /\ job.call # "purge"
      BY <1>1, <1>2, <2>1 DEF JobSet, LocalsOk
  <2>3. LocalsOk("act", j) /\ (broker => observed = Usage)
      BY <2>1, <2>2 DEF LocalsOk, Label, UsageKnown
  <2> HIDE DEF j
  <2> QED
      BY <2>1, <2>3, CallMoves DEF LevelsOk
<1>7. CASE Record
  <2>1. /\ UNCHANGED <<memory, observed, reported>> /\ Goto("idle", NoJob)
        /\ last_pressure' = pressure /\ reset' = (reset /\ pressure = "Critical")
      BY <1>7 DEF Record
  <2>2. LocalsOk("idle", NoJob)
      BY NoJobType DEF LocalsOk, Label
  <2> QED
      BY <1>1, <2>1, <2>2, CallMoves DEF LevelsOk
<1> QED
    BY <1>3, <1>4, <1>5, <1>6, <1>7

(* The synchronisation, the end of a reclaim and the scratch arena.        *)
LEMMA PassagesKeep ==
    ASSUME PolicyInv, syncBrokerUsage \/ ReclaimDone \/ Scratch
    PROVE  PolicyInv'
<1> USE DEF PolicyInv
<1>1. job \in JobSet /\ pc \in Label
    BY DEF LocalsOk
<1>2. CASE syncBrokerUsage
  <2> DEFINE j == IF job.after = "idle" THEN NoJob ELSE job
  <2>1. /\ Goto(job.after, j) /\ UNCHANGED <<memory, reported, last_pressure, reset>>
        /\ pc = "sync" /\ observed' = IF broker THEN Usage ELSE observed
      BY <1>2 DEF syncBrokerUsage, At
  <2>2. job.after \in {"broker", "read", "purge", "record", "idle"}
      BY <2>1 DEF LocalsOk
  <2>3. LocalsOk(job.after, j)
      BY <1>1, <2>1, <2>2, NoJobType DEF LocalsOk, Label
  <2>4. pc' = job.after /\ job' = j /\ broker' = broker /\ budget' = budget
      BY <2>1 DEF Goto, config
  <2>5. MemoryOk' /\ Usage' = Usage /\ leased' = leased
      BY <2>1, SameMemory DEF memory
  <2>6. FiguresOk'
    <3>1. Usage \in [bytes : 0 .. TOTAL, reclaimable : 0 .. TOTAL]
          /\ Usage.reclaimable <= Usage.bytes
        BY Bounds, PolicyConstants DEF Usage
    <3> QED
        BY <2>1, <3>1 DEF FiguresOk
  <2>7. LevelsOk' /\ LeasesOk' /\ UsageKnown'
      BY <2>1, <2>4, <2>5 DEF LevelsOk, LeasesOk, UsageKnown
  <2>8. LocalsOk(pc, job)'
      BY <2>3, <2>4, Zenon DEF LocalsOk
  <2> QED
      BY <2>5, <2>6, <2>7, <2>8
<1>3. CASE ReclaimDone
  <2> DEFINE l == IF job.after \in {"read", "idle"} THEN "sync" ELSE job.after
  <2>1. /\ UNCHANGED <<memory, observed, reported, last_pressure, reset>>
        /\ pc = "reclaim" /\ Goto(l, job)
      BY <1>3 DEF ReclaimDone, At
  <2>2. LocalsOk(l, job) /\ l \in {"sync", "scratch"}
      BY <2>1 DEF LocalsOk, Label
  <2> HIDE DEF l
  <2> QED
      BY <2>1, <2>2, CallMoves DEF LevelsOk
<1>4. CASE Scratch
  <2> DEFINE j == [job EXCEPT !.after = IF job.call = "purge" THEN "idle" ELSE "record"]
  <2>1. /\ UNCHANGED <<memory, observed, reported, last_pressure>> /\ Goto("sync", j)
        /\ reset' = (reset \/ job.call = "purge" \/ (resetScratchOnCritical /\ CriticalEntry))
      BY <1>4 DEF Scratch
  <2>2. j \in JobSet /\ j.call = job.call
        /\ j.after = IF job.call = "purge" THEN "idle" ELSE "record"
      BY <1>1 DEF JobSet, Label
  <2>3. LocalsOk("sync", j)
      BY <2>2 DEF LocalsOk, Label
  <2> HIDE DEF j
  <2>4. reset' \in BOOLEAN
      BY <2>1 DEF LevelsOk
  <2> QED
      BY <2>1, <2>3, <2>4, CallMoves DEF LevelsOk
<1> QED
    BY <1>2, <1>3, <1>4

(* A reclaim begins.                                                       *)
LEMMA ReclaimBegins ==
    ASSUME PolicyInv, NEW n \in Nat, NEW r \in Level, Reclaim(n, r, "scratch"), broker,
           UNCHANGED <<memory, observed, reported, last_pressure, reset>>
    PROVE  PolicyInv'
<1> USE DEF PolicyInv
<1> DEFINE k == [job EXCEPT !.target = n, !.reason = r, !.freed = 0,
                            !.tried = {}, !.after = "scratch"]
<1>1. job \in JobSet
    BY DEF LocalsOk
<1>2. k \in JobSet /\ k.after = "scratch" /\ Goto("reclaim", k)
    BY <1>1 DEF JobSet, Label, Reclaim
<1>3. LocalsOk("reclaim", k)
    BY <1>2 DEF LocalsOk, Label
<1> HIDE DEF k
<1> QED
    BY <1>2, <1>3, CallMoves DEF LevelsOk

(* A step of a call that evicts assets.                                    *)
LEMMA EvictionMoves ==
    ASSUME PolicyInv, NEW l, NEW j, Goto(l, j), LocalsOk(l, j),
           l \notin {"broker", "read", "act", "purge", "record"},
           NEW S \in SUBSET Unpinned, Evict(S), FiguresOk',
           UNCHANGED <<leased, other, internal, reported, last_pressure, reset>>
    PROVE  PolicyInv'
<1> USE DEF PolicyInv
<1>1. MemoryOk'
    BY EvictStep
<1>2. pc' = l /\ job' = j /\ broker' = broker /\ budget' = budget
    BY DEF Goto, config
<1>3. LevelsOk' /\ LeasesOk' /\ UsageKnown'
    BY <1>2 DEF LevelsOk, LeasesOk, UsageKnown
<1>4. LocalsOk(pc, job)'
    BY <1>2, Zenon DEF LocalsOk
<1> QED
    BY <1>1, <1>3, <1>4

(* What applyPressurePolicy and emergencyPurge do.                         *)
LEMMA ActionsKeep ==
    ASSUME PolicyInv, ActBroker \/ ActAlone \/ Purge
    PROVE  PolicyInv'
<1> USE DEF PolicyInv
<1>1. job \in JobSet /\ pc \in Label /\ job.current \in Level /\ Reclaimable \in Nat
    BY ReclaimableType DEF LocalsOk, JobSet
<1>2. ASSUME pc \in {"act", "purge"} PROVE LocalsOk("scratch", job)
    BY <1>1, <1>2 DEF LocalsOk, Label
<1>3. CASE ActBroker
  <2>1. UNCHANGED <<memory, observed, reported, last_pressure, reset>>
        /\ broker /\ pc = "act"
      BY <1>3 DEF ActBroker, At
  <2> DEFINE n == IF job.current = "Critical" THEN Reclaimable
                  ELSE (Reclaimable * warningReclaimPercent) \div 100
  <2>2. CASE Goto("scratch", job)
      BY <1>2, <2>1, <2>2, CallMoves DEF LevelsOk
  <2>3. CASE Reclaim(n, job.current, "scratch")
    <3>1. n \in Nat
        BY <1>1, ShareType, PolicyConstants
    <3> HIDE DEF n
    <3> QED
        BY <1>1, <2>1, <2>3, <3>1, ReclaimBegins
  <2> QED
      BY <1>3, <2>2, <2>3 DEF ActBroker
<1>4. CASE ActAlone
  <2>1. /\ UNCHANGED <<leased, other, internal, observed, reported, last_pressure, reset>>
        /\ pc = "act" /\ Goto("scratch", job)
      BY <1>4 DEF ActAlone, At
  <2>2. PICK S \in SUBSET Unpinned : Evict(S)
      BY <1>4 DEF ActAlone
  <2>3. FiguresOk'
      BY <2>1 DEF FiguresOk
  <2> QED
      BY <1>2, <2>1, <2>2, <2>3, EvictionMoves
<1>5. CASE Purge
  <2>1. /\ UNCHANGED <<leased, other, internal, observed, reported, last_pressure, reset>>
        /\ pc = "purge"
      BY <1>5 DEF Purge, At
  <2>2. CASE broker
    <3>1. Reclaim(Reclaimable, "Critical", "scratch") /\ UNCHANGED memory
        BY <1>5, <2>1, <2>2 DEF Purge, memory
    <3>2. "Critical" \in Level
        BY DEF Level
    <3> QED
        BY <1>1, <2>1, <2>2, <3>1, <3>2, ReclaimBegins
  <2>3. CASE ~broker
    <3>1. Evict(Unpinned) /\ Goto("scratch", job) /\ FiguresOk'
        BY <1>5, <2>1, <2>3 DEF Purge, FiguresOk
    <3> QED
        BY <1>2, <2>1, <3>1, EvictionMoves
  <2> QED
      BY <2>2, <2>3
<1> QED
    BY <1>3, <1>4, <1>5

(* What the broker asks the cache for, and what comes of it.               *)
LEMMA AssetsGive ==
    ASSUME PolicyInv, reclaimAssets
    PROVE  \E S \in SUBSET Unpinned :
             LET ask == AskOf(observed.reclaimable)
                 credited == IF Bytes(S) <= ask THEN Bytes(S) ELSE ask
             IN /\ pc = "reclaim" /\ Evict(S) /\ Bytes(S) \in Nat /\ ask \in Int
                /\ "assets" \notin job.tried /\ observed.reclaimable # 0
                /\ job.reason = "Critical" /\ ask >= Bytes(Unpinned) => S = Unpinned
                /\ job.freed < job.target /\ ask <= observed.reclaimable
                /\ FiguresOk'
                /\ Goto("reclaim", [job EXCEPT !.freed = @ + credited,
                                               !.tried = @ \cup {"assets"}])
                /\ UNCHANGED <<leased, other, internal, reported, last_pressure, reset>>
<1> USE DEF PolicyInv
<1>1. availableReclaim("assets") = observed.reclaimable
    BY DEF availableReclaim
<1> DEFINE ask == AskOf(observed.reclaimable)
<1>2. job \in JobSet /\ observed.reclaimable \in Nat
    BY ReclaimableType DEF LocalsOk
<1>3. ask \in Int /\ ask <= observed.reclaimable
    BY <1>2, AskType
<1> HIDE DEF ask
<1>4. PICK S \in SUBSET Unpinned :
        /\ job.reason = "Critical" /\ ask >= Bytes(Unpinned) => S = Unpinned
        /\ Evict(S)
        /\ observed' = [bytes |-> Max({0, observed.bytes - Min({Bytes(S), ask})}),
                        reclaimable |-> Max({0, observed.reclaimable - Min({Bytes(S), ask})})]
        /\ Goto("reclaim", [job EXCEPT !.freed = @ + Min({Bytes(S), ask}),
                                       !.tried = @ \cup {"assets"}])
    BY <1>1 DEF reclaimAssets, ask
<1>5. /\ pc = "reclaim" /\ job.freed < job.target
      /\ UNCHANGED <<leased, other, internal, reported, last_pressure, reset>>
      /\ "assets" \in {d \in {"assets", "application"} \ job.tried : availableReclaim(d) # 0}
    BY DEF reclaimAssets, At, Donor
<1>6. "assets" \notin job.tried /\ observed.reclaimable # 0
    BY <1>1, <1>5
<1>7. Bytes(S) \in Nat
    BY <1>4, <1>5, EvictStep
<1> DEFINE credited == IF Bytes(S) <= ask THEN Bytes(S) ELSE ask
<1>8. Min({Bytes(S), ask}) = credited
    BY <1>3, <1>7, MinOf
<1>9. FiguresOk'
  <2>1. observed.bytes \in 0 .. TOTAL /\ observed.reclaimable \in 0 .. TOTAL
        /\ observed.reclaimable <= observed.bytes /\ TOTAL \in Nat
      BY PolicyConstants DEF FiguresOk
  <2>2. ask >= 0
      BY <1>2, <1>5, AskType DEF ask
  <2>3. credited \in Nat
      BY <1>3, <1>7, <2>2
  <2> HIDE DEF credited
  <2>4. /\ Max({0, observed.bytes - credited})
              = IF 0 >= observed.bytes - credited THEN 0 ELSE observed.bytes - credited
        /\ Max({0, observed.reclaimable - credited})
              = IF 0 >= observed.reclaimable - credited THEN 0
                ELSE observed.reclaimable - credited
      BY <2>1, <2>3, MaxOf
  <2>5. observed' = [bytes |-> Max({0, observed.bytes - credited}),
                     reclaimable |-> Max({0, observed.reclaimable - credited})]
      BY <1>4, <1>8, Zenon
  <2>6. /\ observed'.bytes \in 0 .. TOTAL /\ observed'.reclaimable \in 0 .. TOTAL
        /\ observed'.reclaimable <= observed'.bytes
      BY <2>1, <2>3, <2>4, <2>5
  <2> QED
      BY <2>5, <2>6 DEF FiguresOk
<1>10. Goto("reclaim", [job EXCEPT !.freed = @ + credited, !.tried = @ \cup {"assets"}])
    BY <1>4, <1>8, Zenon
<1> QED
    BY <1>3, <1>4, <1>5, <1>6, <1>7, <1>9, <1>10 DEF ask

(* A lease that is taken, and what is left.                                *)
LEMMA LeaseTaken ==
    ASSUME PolicyInv, TakeElastic
    PROVE  \E l \in leased :
             /\ pc = "elastic" /\ job.ask > 0 /\ leased' = leased \ {l}
             /\ SizeOf[l] \in Nat \ {0} /\ Bytes(leased') >= minimumBytes
             /\ Surplus' = Surplus - SizeOf[l] /\ Free' = Free + SizeOf[l]
             /\ Goto("elastic", [job EXCEPT !.ask = @ - SizeOf[l], !.freed = @ + SizeOf[l]])
             /\ MemoryOk' /\ Usage' = Usage /\ Unpinned' = Unpinned
             /\ UNCHANGED <<cached, other, internal, observed, reported, last_pressure, reset>>
<1> USE DEF PolicyInv
<1>1. PICK l \in leased :
        /\ SizeOf[l] <= Surplus /\ leased' = leased \ {l}
        /\ Goto("elastic", [job EXCEPT !.ask = @ - SizeOf[l], !.freed = @ + SizeOf[l]])
    BY DEF TakeElastic
<1>2. /\ pc = "elastic" /\ job.ask > 0
      /\ UNCHANGED <<cached, other, internal, observed, reported, last_pressure, reset>>
    BY DEF TakeElastic, At
<1>3. Bytes(leased \ {l}) = Bytes(leased) - SizeOf[l] /\ SizeOf[l] \in Nat \ {0}
      /\ Bytes(leased \ {l}) \in Nat
    BY Bounds, BytesWithout
<1>4. Bytes(leased)' = Bytes(leased) - SizeOf[l] /\ Bytes(leased') = Bytes(leased) - SizeOf[l]
    BY <1>1, <1>3 DEF Bytes
<1>5. Bytes(InCache)' = Bytes(InCache) /\ Usage' = Usage /\ Unpinned' = Unpinned
    BY <1>2 DEF Usage, InCache, Unpinned, Bytes
<1>6. Free' = Free + SizeOf[l]
    BY <1>2, <1>3, <1>4, <1>5, Bounds, PolicyConstants DEF Free
<1>7. MemoryOk'
    BY <1>1, <1>2, <1>3, <1>6, Bounds DEF MemoryOk
<1>8. Bytes(leased') >= minimumBytes
    BY <1>1, <1>3, <1>4, SurplusIs
<1>9. Surplus' = Surplus - SizeOf[l]
  <2>1. Surplus' = Max({0, Bytes(leased') - minimumBytes})
      BY DEF Surplus, Bytes
  <2>2. Bytes(leased') \in Nat /\ minimumBytes \in Nat
      BY <1>1, <1>3, SurplusIs
  <2>3. Surplus' = Bytes(leased') - minimumBytes
      BY <1>8, <2>1, <2>2, MaxOf
  <2> QED
      BY <1>1, <1>3, <1>4, <2>3, SurplusIs
<1> QED
    BY <1>1, <1>2, <1>3, <1>5, <1>6, <1>7, <1>8, <1>9

(* What the cache gives is credited, and the cache is done with.           *)
LEMMA CreditType ==
    ASSUME job \in JobSet, NEW n \in Nat
    PROVE  [job EXCEPT !.freed = @ + n, !.tried = @ \cup {"assets"}] \in JobSet
<1> DEFINE f == job.freed + n
           t == job.tried \cup {"assets"}
<1>1. f \in Nat /\ t \in SUBSET {"assets", "application"}
    BY DEF JobSet
<1>2. [job EXCEPT !.freed = @ + n, !.tried = @ \cup {"assets"}]
        = [job EXCEPT !.freed = f, !.tried = t]
    BY DEF JobSet
<1> HIDE DEF f, t
<1>3. [job EXCEPT !.freed = f, !.tried = t] \in JobSet
    BY <1>1 DEF JobSet
<1> QED
    BY <1>2, <1>3, Zenon

(* So is what a lease gives.                                               *)
LEMMA TakeType ==
    ASSUME job \in JobSet, NEW n \in Nat
    PROVE  [job EXCEPT !.ask = @ - n, !.freed = @ + n] \in JobSet
<1> DEFINE f == job.freed + n
           a == job.ask - n
<1>1. f \in Nat /\ a \in Int
    BY DEF JobSet
<1>2. [job EXCEPT !.ask = @ - n, !.freed = @ + n] = [job EXCEPT !.ask = a, !.freed = f]
    BY DEF JobSet
<1> HIDE DEF f, a
<1>3. [job EXCEPT !.ask = a, !.freed = f] \in JobSet
    BY <1>1 DEF JobSet
<1> QED
    BY <1>2, <1>3, Zenon

(* The steps of a reclaim.                                                 *)
LEMMA DonorsKeep ==
    ASSUME PolicyInv, reclaimAssets \/ AskElastic \/ TakeElastic \/ ElasticDone
    PROVE  PolicyInv'
<1> USE DEF PolicyInv
<1>1. job \in JobSet /\ pc \in Label
    BY DEF LocalsOk
<1>2. CASE reclaimAssets
  <2> DEFINE ask == AskOf(observed.reclaimable)
             credited(S) == IF Bytes(S) <= ask THEN Bytes(S) ELSE ask
  <2>1. PICK S \in SUBSET Unpinned :
          /\ pc = "reclaim" /\ Evict(S) /\ Bytes(S) \in Nat /\ ask \in Int
          /\ FiguresOk' /\ job.freed < job.target
          /\ Goto("reclaim", [job EXCEPT !.freed = @ + credited(S),
                                         !.tried = @ \cup {"assets"}])
          /\ UNCHANGED <<leased, other, internal, reported, last_pressure, reset>>
      BY <1>2, AssetsGive
  <2> DEFINE j == [job EXCEPT !.freed = @ + credited(S), !.tried = @ \cup {"assets"}]
  <2>2. credited(S) \in Nat
    <3>1. ask >= 0
        BY <1>1, <2>1, AskType, ReclaimableType
    <3> HIDE DEF ask
    <3> QED
        BY <2>1, <3>1
  <2> HIDE DEF credited
  <2>3. j \in JobSet /\ j.call = job.call /\ j.after = job.after
    <3>1. j \in JobSet
        BY <1>1, <2>2, CreditType
    <3> QED
        BY <1>1, <3>1 DEF JobSet
  <2>4. LocalsOk("reclaim", j)
      BY <2>1, <2>3 DEF LocalsOk, Label
  <2> HIDE DEF j
  <2>5. Goto("reclaim", j)
      BY <2>1, Zenon DEF j
  <2> QED
      BY <2>1, <2>4, <2>5, EvictionMoves
<1>3. CASE AskElastic
  <2> DEFINE j == [job EXCEPT !.ask = AskOf(Surplus), !.tried = @ \cup {"application"}]
  <2>1. /\ UNCHANGED <<memory, observed, reported, last_pressure, reset>>
        /\ pc = "reclaim" /\ Goto("elastic", j)
      BY <1>3 DEF AskElastic, At
  <2>2. AskOf(Surplus) \in Int
      BY <1>1, AskType, SurplusIs
  <2>3. j \in JobSet /\ j.call = job.call /\ j.after = job.after
      BY <1>1, <2>2 DEF JobSet
  <2>4. LocalsOk("elastic", j)
      BY <2>1, <2>3 DEF LocalsOk, Label
  <2> HIDE DEF j
  <2> QED
      BY <2>1, <2>4, CallMoves DEF LevelsOk
<1>4. CASE TakeElastic
  <2>1. PICK l \in leased :
          /\ pc = "elastic" /\ leased' = leased \ {l} /\ SizeOf[l] \in Nat \ {0}
          /\ Goto("elastic", [job EXCEPT !.ask = @ - SizeOf[l], !.freed = @ + SizeOf[l]])
          /\ MemoryOk' /\ Usage' = Usage
          /\ UNCHANGED <<observed, reported, last_pressure, reset>>
      BY <1>4, LeaseTaken
  <2> DEFINE j == [job EXCEPT !.ask = @ - SizeOf[l], !.freed = @ + SizeOf[l]]
  <2>2. j \in JobSet /\ j.call = job.call /\ j.after = job.after
    <3>1. j \in JobSet
        BY <1>1, <2>1, TakeType
    <3> QED
        BY <1>1, <3>1 DEF JobSet
  <2>3. LocalsOk("elastic", j)
      BY <2>1, <2>2 DEF LocalsOk, Label
  <2>4. pc' = "elastic" /\ job' = j /\ broker' = broker /\ budget' = budget
      BY <2>1 DEF Goto, config
  <2> HIDE DEF j
  <2>5. FiguresOk' /\ LevelsOk' /\ LeasesOk' /\ UsageKnown'
      BY <2>1, <2>4 DEF FiguresOk, LevelsOk, LeasesOk, UsageKnown
  <2>6. LocalsOk(pc, job)'
      BY <2>3, <2>4, Zenon DEF LocalsOk
  <2> QED
      BY <2>1, <2>5, <2>6
<1>5. CASE ElasticDone
  <2> DEFINE j == [job EXCEPT !.ask = 0]
  <2>1. /\ UNCHANGED <<memory, observed, reported, last_pressure, reset>>
        /\ pc = "elastic" /\ Goto("reclaim", j)
      BY <1>5 DEF ElasticDone, At
  <2>2. j \in JobSet /\ j.call = job.call /\ j.after = job.after
      BY <1>1 DEF JobSet
  <2>3. LocalsOk("reclaim", j)
      BY <2>1, <2>2 DEF LocalsOk, Label
  <2> HIDE DEF j
  <2> QED
      BY <2>1, <2>3, CallMoves DEF LevelsOk
<1> QED
    BY <1>2, <1>3, <1>4, <1>5

(* The invariant holds when begin() has set up all parts ...               *)
LEMMA PolicyInit == Init => PolicyInv
<1> SUFFICES ASSUME Init PROVE PolicyInv
    OBVIOUS
<1> USE PolicyConstants DEF Init
<1>1. InCache = {} /\ Unpinned = {} /\ Bytes({}) = 0
    BY SumEmpty DEF InCache, Unpinned, Bytes
<1>2. Free = TOTAL - other
    BY <1>1 DEF Free
<1>3. MemoryOk
    BY <1>2 DEF MemoryOk
<1>4. FiguresOk
    BY DEF FiguresOk
<1>5. LevelsOk
  <2>1. pressure \in Level
      BY <1>3, PressureType DEF MemoryOk
  <2>2. budget \in Nat /\ broker \in BOOLEAN
      OBVIOUS
  <2> QED
      BY <2>1, <2>2 DEF LevelsOk, Level
<1>6. LocalsOk(pc, job)
  <2>1. job \in JobSet /\ job.call = "begin" /\ job.after = "read"
      BY NoJobType DEF JobSet, Label
  <2> QED
      BY <2>1 DEF LocalsOk, Label
<1>7. LeasesOk /\ UsageKnown
    BY DEF LeasesOk, UsageKnown
<1> QED
    BY <1>3, <1>4, <1>5, <1>6, <1>7 DEF PolicyInv

(* ... and after every step, whether other tasks run meanwhile or not.     *)
LEMMA PolicyNext == PolicyInv /\ [Next]_vars => PolicyInv'
<1>1. ASSUME PolicyInv, Next PROVE PolicyInv'
  <2>1. CASE \/ OthersAllocate \/ OthersRelease \/ InternalChanges
             \/ requestElastic \/ releaseLease
      BY <1>1, <2>1, OthersKeep
  <2>2. CASE useCache
      BY <1>1, <2>2, UseCacheKeeps
  <2>3. CASE service \/ emergencyPurge
      BY <1>1, <2>3, StartKeeps
  <2>4. CASE Monitor \/ BrokerService \/ BrokerPercent \/ Read \/ Record
      BY <1>1, <2>4, ReadingsKeep
  <2>5. CASE syncBrokerUsage \/ ReclaimDone \/ Scratch
      BY <1>1, <2>5, PassagesKeep
  <2>6. CASE ActBroker \/ ActAlone \/ Purge
      BY <1>1, <2>6, ActionsKeep
  <2>7. CASE reclaimAssets \/ AskElastic \/ TakeElastic \/ ElasticDone
      BY <1>1, <2>7, DonorsKeep
  <2> QED
      BY <1>1, <2>1, <2>2, <2>3, <2>4, <2>5, <2>6, <2>7, Zenon DEF Next, Step
<1>2. ASSUME PolicyInv, UNCHANGED vars PROVE PolicyInv'
  <2>1. UNCHANGED <<memory, observed, reported, last_pressure, reset, broker, budget, pc, job>>
      BY <1>2 DEF vars, memory
  <2>2. MemoryOk' /\ Usage' = Usage /\ leased' = leased
      BY <1>2, <2>1, SameMemory DEF PolicyInv, memory
  <2>3. FiguresOk' /\ LevelsOk' /\ LeasesOk' /\ UsageKnown'
      BY <1>2, <2>1, <2>2 DEF PolicyInv, FiguresOk, LevelsOk, LeasesOk, UsageKnown
  <2>4. LocalsOk(pc, job)'
      BY <1>2, <2>1, Zenon DEF PolicyInv, LocalsOk
  <2> QED
      BY <2>2, <2>3, <2>4 DEF PolicyInv
<1> QED
    BY <1>1, <1>2

(* The invariant of every call holds in every state.                       *)
LEMMA PolicyHolds == Spec => []PolicyInv
    BY PolicyInit, PolicyNext, PTL DEF Spec

(* AutoMemory.cpp: "A reclaim callback can change cache usage              *)
(* immediately."  applyPressurePolicy and emergencyPurge compute their     *)
(* targets from figures that are those of the cache, whatever other tasks  *)
(* do in the meantime.                                                     *)
THEOREM UsageStaysCurrent == Spec => []UsageIsCurrent
<1>1. PolicyInv => UsageIsCurrent
    BY DEF PolicyInv, UsageKnown, UsageIsCurrent
<1> QED
    BY <1>1, PolicyHolds, PTL

(* README: reclaiming "still preserves" pinned assets, what others hold,   *)
(* and the floor of the application, whatever other tasks do meanwhile.    *)
THEOREM TheRestIsPreserved == Spec => PreservesTheRest
<1> DEFINE Kept == /\ \A e \in Entry : cached[e] = "pinned" => cached'[e] = "pinned"
                   /\ other' = other
                   /\ leased' # leased => Bytes(leased') >= minimumBytes
<1>1. ASSUME PolicyInv, Step PROVE Kept
  <2>1. CASE UNCHANGED memory
      BY <2>1 DEF memory
  <2>2. CASE reclaimAssets
    <3>1. MemoryOk
        BY <1>1 DEF PolicyInv
    <3>2. PICK S \in SUBSET Unpinned : Evict(S) /\ UNCHANGED <<leased, other, internal>>
        BY <1>1, <2>2, AssetsGive
    <3> QED
        BY <3>1, <3>2, EvictStep
  <2>3. CASE ActAlone
    <3>1. MemoryOk
        BY <1>1 DEF PolicyInv
    <3>2. PICK S \in SUBSET Unpinned : Evict(S) /\ UNCHANGED <<leased, other, internal>>
        BY <2>3 DEF ActAlone
    <3> QED
        BY <3>1, <3>2, EvictStep
  <2>4. CASE Purge
    <3>1. MemoryOk
        BY <1>1 DEF PolicyInv
    <3>2. UNCHANGED <<leased, other, internal>>
        BY <2>4 DEF Purge
    <3>3. cached' = cached \/ Evict(Unpinned)
        BY <2>4 DEF Purge
    <3> QED
        BY <3>1, <3>2, <3>3, EvictStep
  <2>5. CASE TakeElastic
    <3>1. cached' = cached /\ other' = other /\ Bytes(leased') >= minimumBytes
        BY <1>1, <2>5, LeaseTaken
    <3> QED
        BY <3>1
  <2>6. CASE Monitor \/ syncBrokerUsage \/ BrokerService \/ BrokerPercent \/ ReclaimDone
      BY <2>1, <2>6 DEF Monitor, syncBrokerUsage, BrokerService, BrokerPercent, ReclaimDone
  <2>7. CASE AskElastic \/ ElasticDone \/ Read \/ ActBroker \/ Scratch \/ Record
      BY <2>1, <2>7 DEF AskElastic, ElasticDone, Read, ActBroker, Scratch, Record
  <2> QED
      BY <1>1, <2>2, <2>3, <2>4, <2>5, <2>6, <2>7, Zenon DEF Step
<1>2. PolicyInv /\ [Next]_vars => [Step => Kept]_vars
    BY <1>1
<1> QED
    BY <1>2, PolicyHolds, PTL DEF Spec, PreservesTheRest

-----------------------------------------------------------------------------
(* The invariant while nobody else runs during a call                      *)

(* All that a reclaim has freed so far is still free.                      *)
FreedIsFree == job.freed <= Free

(* A call that must leave nothing eligible.                                *)
LeftIn(d) == IF d \in job.tried THEN 0 ELSE availableReclaim(d)
Pending == LeftIn("assets") + (IF pc = "elastic" THEN job.ask ELSE LeftIn("application"))
NoLeaseAbove == \A l \in leased : SizeOf[l] > Surplus
Reclaiming == pc \in {"reclaim", "elastic"} /\ job.after = "scratch"
(* Its target covers every donor that is left to ask, with figures that    *)
(* are right, and a donor that was asked has given all it may.             *)
Whole ==
    Reclaiming /\ TakesAll =>
        /\ job.reason = "Critical"
        /\ job.target - job.freed >= Pending
        /\ IF "assets" \in job.tried THEN Unpinned = {}
           ELSE observed.reclaimable = Bytes(Unpinned)
        /\ pc = "elastic" => job.ask = Surplus /\ "application" \in job.tried
        /\ pc = "reclaim" /\ "application" \in job.tried => NoLeaseAbove

(* The level can only have eased since it was read, and one that is        *)
(* Critical without having changed was dealt with before.                  *)
Applying == pc \in {"act", "scratch"} \/ Reclaiming
Latest ==
    Applying /\ job.call # "purge" =>
        /\ pressure = "Critical" => job.current = "Critical"
        /\ job.current = "Critical" /\ ~job.changed => last_pressure = "Critical"
Recording == pc = "record" \/ (pc = "sync" /\ job.after = "record")
Handled == resetScratchOnCritical /\ Recording /\ pressure = "Critical" => reset

AloneInv ==
    /\ FreedIsFree /\ Whole /\ Latest /\ Handled
    /\ CriticalEntryHandled /\ CriticalTakesAll

(* Free memory is a number.                                                *)
LEMMA FreeType == MemoryOk' => Free' \in Nat
<1> SUFFICES ASSUME MemoryOk' PROVE Free' \in Nat
    OBVIOUS
<1>1. Bytes(InCache') \in Nat /\ Bytes(leased') \in Nat
  <2>1. InCache' \in SUBSET Item /\ leased' \in SUBSET Item
      BY DEF InCache, Item, MemoryOk
  <2> QED
      BY <2>1, BytesType
<1>2. Free' = TOTAL - other' - Bytes(InCache') - Bytes(leased')
    BY DEF Free, Bytes
<1> QED
    BY <1>1, <1>2, PolicyConstants DEF MemoryOk

(* More free memory cannot make the level Critical.                        *)
LEMMA Relieved ==
    ASSUME MemoryOk, MemoryOk', internal' = internal, Free' >= Free, pressure' = "Critical"
    PROVE  pressure = "Critical"
<1>1. Free \in Int /\ Free' \in Int /\ criticalPSRAMFreeBytes \in Nat
    BY Bounds, FreeType, PolicyConstants
<1> DEFINE f == Free
           g == Free'
<1>2. internal = "Critical" \/ g <= criticalPSRAMFreeBytes
    BY DEF pressure, Worse
<1>3. internal = "Critical" \/ f <= criticalPSRAMFreeBytes => pressure = "Critical"
    BY DEF pressure, Worse
<1> HIDE DEF f, g
<1>4. f \in Int /\ g \in Int /\ g >= f
    BY <1>1 DEF f, g
<1> QED
    BY <1>1, <1>2, <1>3, <1>4

(* Where no level is being dealt with.                                     *)
LEMMA Elsewhere ==
    ASSUME CriticalEntryHandled, UNCHANGED <<last_pressure, reset>>,
           ~Applying', ~Recording', FreedIsFree'
    PROVE  AloneInv'
<1>1. CriticalEntryHandled'
    BY DEF CriticalEntryHandled
<1>2. Whole' /\ Latest' /\ Handled' /\ CriticalTakesAll'
    BY DEF Whole, Latest, Handled, CriticalTakesAll, Applying
<1> QED
    BY <1>1, <1>2 DEF AloneInv

(* What has been freed, after a step that frees nothing.                   *)
LEMMA FreedStays ==
    ASSUME PolicyInv, FreedIsFree, UNCHANGED memory, job'.freed \in {0, job.freed}
    PROVE  FreedIsFree'
<1>1. Free' = Free /\ Free \in Nat
    BY SameMemory, Bounds DEF PolicyInv
<1> QED
    BY <1>1 DEF FreedIsFree

(* Other tasks, and the use of the cache, between the calls.               *)
LEMMA OthersAlone ==
    ASSUME PolicyInv, PolicyInv', AloneInv, ~Interferes,
           \/ OthersAllocate \/ OthersRelease \/ InternalChanges
           \/ requestElastic \/ releaseLease \/ useCache
    PROVE  AloneInv'
<1>1. pc = "idle" /\ UNCHANGED <<last_pressure, reset, pc, job>>
    BY DEF OthersAllocate, OthersRelease, InternalChanges, requestElastic, releaseLease,
           useCache, OthersMayRun, At, Untouched
<1>2. job' = NoJob
    BY <1>1 DEF PolicyInv, LocalsOk
<1>3. FreedIsFree'
    BY <1>2 DEF PolicyInv, MemoryOk, FreedIsFree, NoJob
<1>4. ~Applying' /\ ~Recording'
    BY <1>1 DEF Applying, Recording, Reclaiming
<1> QED
    BY <1>1, <1>3, <1>4, Elsewhere DEF AloneInv

(* A call begins, and the broker's service has its own reclaim.            *)
LEMMA BeginningsAlone ==
    ASSUME PolicyInv, PolicyInv', AloneInv,
           service \/ emergencyPurge \/ Monitor \/ BrokerService \/ BrokerPercent
    PROVE  AloneInv'
<1>1. UNCHANGED <<memory, last_pressure, reset>>
    BY DEF service, emergencyPurge, Monitor, BrokerService, BrokerPercent
<1>2. job \in JobSet /\ NoJob \in JobSet
    BY NoJobType DEF PolicyInv, LocalsOk
<1>3. /\ job'.freed \in {0, job.freed}
      /\ \/ pc' \in {"monitor", "percent"}
         \/ pc' \in {"sync", "reclaim"} /\ job'.after \in {"purge", "broker", "read"}
  <2>1. CASE service
      BY <2>1 DEF service, Goto, NoJob
  <2>2. CASE emergencyPurge
      BY <2>2 DEF emergencyPurge, Goto, NoJob
  <2>3. CASE Monitor
      BY <1>2, <2>3 DEF Monitor, Goto, JobSet
  <2>4. CASE BrokerService
      BY <1>2, <2>4 DEF BrokerService, Goto, JobSet
  <2>5. CASE BrokerPercent
      BY <1>2, <2>5 DEF BrokerPercent, Reclaim, Goto, JobSet
  <2> QED
      BY <2>1, <2>2, <2>3, <2>4, <2>5
<1>4. FreedIsFree'
    BY <1>1, <1>3, FreedStays DEF AloneInv
<1>5. ~Applying' /\ ~Recording'
    BY <1>3 DEF Applying, Recording, Reclaiming
<1> QED
    BY <1>1, <1>4, <1>5, Elsewhere DEF AloneInv

(* Readings of the level, before the policy and after it.                  *)
LEMMA ReadingsAlone ==
    ASSUME PolicyInv, PolicyInv', AloneInv, syncBrokerUsage \/ Read \/ Scratch \/ Record
    PROVE  AloneInv'
<1>1. job \in JobSet
    BY DEF PolicyInv, LocalsOk
<1>2. UNCHANGED memory /\ pressure' = pressure
    BY SameMemory DEF syncBrokerUsage, Read, Scratch, Record
<1>3. FreedIsFree'
  <2>1. ASSUME syncBrokerUsage PROVE job'.freed \in {0, job.freed}
      BY <1>1, <2>1 DEF syncBrokerUsage, Goto, NoJob
  <2>2. ASSUME Read PROVE job'.freed \in {0, job.freed}
      BY <1>1, <2>2 DEF Read, Goto, JobSet
  <2>3. ASSUME Scratch PROVE job'.freed \in {0, job.freed}
      BY <1>1, <2>3 DEF Scratch, Goto, JobSet
  <2>4. ASSUME Record PROVE job'.freed \in {0, job.freed}
      BY <2>4 DEF Record, Goto, NoJob
  <2> QED
      BY <1>2, <2>1, <2>2, <2>3, <2>4, FreedStays DEF AloneInv
<1>4. CASE syncBrokerUsage
  <2>1. /\ UNCHANGED <<last_pressure, reset>> /\ pc = "sync" /\ pc' = job.after
        /\ job.after \in {"broker", "read", "purge", "record", "idle"}
      BY <1>4 DEF syncBrokerUsage, At, Goto, PolicyInv, LocalsOk
  <2>2. Recording' => Recording
      BY <2>1 DEF Recording
  <2>3. ~Applying'
      BY <2>1 DEF Applying, Reclaiming
  <2>4. Handled' /\ CriticalEntryHandled'
      BY <1>2, <2>1, <2>2 DEF AloneInv, Handled, CriticalEntryHandled
  <2>5. Whole' /\ Latest' /\ CriticalTakesAll'
      BY <2>3 DEF Whole, Latest, CriticalTakesAll, Applying
  <2> QED
      BY <1>3, <2>4, <2>5 DEF AloneInv
<1>5. CASE Read
  <2>1. /\ UNCHANGED <<last_pressure, reset>> /\ pc' = "act"
        /\ job'.current = pressure
        /\ job'.changed = (job.call = "begin" \/ pressure # last_pressure)
      BY <1>1, <1>5 DEF Read, Goto, JobSet
  <2>2. Latest'
      BY <1>2, <2>1 DEF Latest
  <2>3. Whole' /\ Handled' /\ CriticalTakesAll'
      BY <2>1 DEF Whole, Handled, CriticalTakesAll, Reclaiming, Recording
  <2>4. CriticalEntryHandled'
      BY <2>1 DEF AloneInv, CriticalEntryHandled
  <2> QED
      BY <1>3, <2>2, <2>3, <2>4 DEF AloneInv
<1>6. CASE Scratch
  <2>1. /\ last_pressure' = last_pressure /\ pc = "scratch" /\ pc' = "sync"
        /\ reset' = (reset \/ job.call = "purge" \/ (resetScratchOnCritical /\ CriticalEntry))
        /\ job'.after = IF job.call = "purge" THEN "idle" ELSE "record"
      BY <1>1, <1>6 DEF Scratch, At, Goto, JobSet
  <2>2. Handled'
    <3>1. SUFFICES ASSUME Recording', pressure = "Critical", resetScratchOnCritical
                   PROVE  reset'
        BY <1>2 DEF Handled
    <3>2. job.call # "purge"
        BY <2>1, <3>1 DEF Recording
    <3>3. job.current = "Critical" /\ (~job.changed => last_pressure = "Critical")
        BY <2>1, <3>1, <3>2 DEF AloneInv, Latest, Applying
    <3>4. CASE job.changed
        BY <2>1, <3>1, <3>3, <3>4 DEF CriticalEntry
    <3>5. CASE ~job.changed
        BY <2>1, <3>1, <3>3, <3>5 DEF AloneInv, CriticalEntryHandled
    <3> QED
        BY <3>4, <3>5
  <2>3. Whole' /\ Latest' /\ CriticalTakesAll'
      BY <2>1 DEF Whole, Latest, CriticalTakesAll, Reclaiming, Applying
  <2>4. CriticalEntryHandled'
      BY <2>1 DEF AloneInv, CriticalEntryHandled
  <2> QED
      BY <1>3, <2>2, <2>3, <2>4 DEF AloneInv
<1>7. CASE Record
  <2>1. /\ last_pressure' = pressure /\ reset' = (reset /\ pressure = "Critical")
        /\ pc = "record" /\ pc' = "idle"
      BY <1>7 DEF Record, At, Goto
  <2>2. CriticalEntryHandled'
      BY <2>1 DEF AloneInv, Handled, Recording, CriticalEntryHandled
  <2>3. Whole' /\ Latest' /\ Handled' /\ CriticalTakesAll'
      BY <2>1 DEF Whole, Latest, Handled, CriticalTakesAll, Reclaiming, Applying, Recording
  <2> QED
      BY <1>3, <2>2, <2>3 DEF AloneInv
<1> QED
    BY <1>4, <1>5, <1>6, <1>7

(* A lease takes some bytes.                                               *)
LEMMA LeaseSizes == MemoryOk => \A l \in leased : SizeOf[l] \in Nat \ {0}
    BY BytesOfOne DEF MemoryOk, Item

(* The same call goes on, and the level has at most eased.                 *)
LEMMA SameLevel ==
    ASSUME PolicyInv, PolicyInv', AloneInv, Applying' => Applying,
           job'.call = job.call, job'.current = job.current, job'.changed = job.changed,
           internal' = internal, Free' >= Free, ~Recording',
           UNCHANGED <<last_pressure, reset, broker>>
    PROVE  Latest' /\ Handled' /\ CriticalEntryHandled' /\ (TakesAll' <=> TakesAll)
<1>1. pressure' = "Critical" => pressure = "Critical"
    BY Relieved DEF PolicyInv
<1>2. Latest'
    BY <1>1 DEF AloneInv, Latest
<1>3. Handled' /\ CriticalEntryHandled'
    BY DEF AloneInv, Handled, CriticalEntryHandled
<1>4. TakesAll' <=> TakesAll
    BY DEF TakesAll, CriticalEntry, Purges
<1> QED
    BY <1>2, <1>3, <1>4

(* A reclaim begins that must leave nothing eligible.                      *)
LEMMA ReclaimBeginsAlone ==
    ASSUME PolicyInv, PolicyInv', AloneInv, NEW n \in Nat, NEW r, Reclaim(n, r, "scratch"),
           broker, pc \in {"act", "purge"}, TakesAll => n = Reclaimable /\ r = "Critical",
           UNCHANGED <<memory, observed, last_pressure, reset>>
    PROVE  AloneInv'
<1>1. job \in JobSet /\ MemoryOk /\ FiguresOk
    BY DEF PolicyInv, LocalsOk
<1>2. /\ pc' = "reclaim" /\ job'.target = n /\ job'.reason = r /\ job'.freed = 0
      /\ job'.tried = {} /\ job'.after = "scratch" /\ job'.call = job.call
      /\ job'.current = job.current /\ job'.changed = job.changed /\ broker' = broker
    BY <1>1 DEF Reclaim, Goto, JobSet, config
<1>3. /\ Free' = Free /\ Surplus' = Surplus /\ Unpinned' = Unpinned /\ Usage' = Usage
      /\ internal' = internal /\ pressure' = pressure
    BY SameMemory DEF memory
<1>4. FreedIsFree'
    BY <1>2, FreedStays DEF AloneInv
<1>5. Latest' /\ Handled' /\ CriticalEntryHandled' /\ (TakesAll' <=> TakesAll)
  <2>1. CASE pc = "act"
    <3>1. Applying /\ ~Recording'
        BY <1>2, <2>1 DEF Applying, Recording
    <3>2. Free' >= Free
        BY <1>1, <1>3, Bounds
    <3> QED
        BY <1>2, <1>3, <3>1, <3>2, SameLevel
  <2>2. CASE pc = "purge"
    <3>1. job.call = "purge"
        BY <2>2 DEF PolicyInv, LocalsOk
    <3> QED
        BY <1>2, <3>1
        DEF AloneInv, Latest, Handled, Recording, CriticalEntryHandled, TakesAll, CriticalEntry
  <2> QED
      BY <2>1, <2>2
<1>6. Whole'
  <2>1. SUFFICES ASSUME TakesAll
                 PROVE  /\ job'.reason = "Critical" /\ job'.target - job'.freed >= Pending'
                        /\ observed'.reclaimable = Bytes(Unpinned')
      BY <1>2, <1>5 DEF Whole, Bytes
  <2>2. observed.reclaimable = Bytes(Unpinned)
      BY DEF PolicyInv, UsageKnown, Usage
  <2>3. Pending' = observed.reclaimable + Surplus
      BY <1>2, <1>3 DEF Pending, LeftIn, availableReclaim
  <2>4. n = observed.reclaimable + Surplus /\ r = "Critical"
      BY <1>1, <2>1, ReclaimableType
  <2> QED
      BY <1>2, <1>3, <2>2, <2>3, <2>4
<1>7. CriticalTakesAll'
    BY <1>2 DEF CriticalTakesAll
<1> QED
    BY <1>4, <1>5, <1>6, <1>7 DEF AloneInv

(* What the policy and emergencyPurge do.                                  *)
LEMMA ActionsAlone ==
    ASSUME PolicyInv, PolicyInv', AloneInv, ActBroker \/ ActAlone \/ Purge
    PROVE  AloneInv'
<1>1. job \in JobSet /\ MemoryOk /\ FiguresOk /\ Reclaimable \in Nat /\ Free \in Nat
    BY ReclaimableType, Bounds DEF PolicyInv, LocalsOk
<1>2. UNCHANGED <<internal, observed, last_pressure, reset>>
    BY DEF ActBroker, ActAlone, Purge, memory
<1>3. ASSUME Goto("scratch", job), Free' >= Free, pc \in {"act", "purge"},
             TakesAll => NothingEligible'
      PROVE  AloneInv'
  <2>1. pc' = "scratch" /\ job' = job /\ broker' = broker
      BY <1>3 DEF Goto, config
  <2>2. FreedIsFree'
    <3>1. Free' \in Nat
        BY FreeType DEF PolicyInv
    <3> QED
        BY <1>1, <1>3, <2>1, <3>1 DEF AloneInv, FreedIsFree, JobSet
  <2>3. Latest' /\ CriticalEntryHandled' /\ (TakesAll' <=> TakesAll)
    <3>1. CASE pc = "act"
      <4>1. Applying /\ ~Recording'
          BY <2>1, <3>1 DEF Applying, Recording
      <4> QED
          BY <1>2, <1>3, <2>1, <4>1, SameLevel
    <3>2. CASE pc = "purge"
      <4>1. job.call = "purge"
          BY <3>2 DEF PolicyInv, LocalsOk
      <4> QED
          BY <1>2, <2>1, <4>1 DEF AloneInv, Latest, CriticalEntryHandled, TakesAll, CriticalEntry
    <3> QED
        BY <1>3, <3>1, <3>2
  <2>4. CriticalTakesAll'
      BY <1>3, <2>3 DEF CriticalTakesAll, TakesAll
  <2>5. Whole' /\ Handled'
      BY <2>1 DEF Whole, Handled, Reclaiming, Recording
  <2> QED
      BY <2>2, <2>3, <2>4, <2>5 DEF AloneInv
<1>4. CASE ActBroker
  <2>1. broker /\ pc = "act" /\ UNCHANGED memory /\ job.call # "purge"
      BY <1>4 DEF ActBroker, At, PolicyInv, LocalsOk
  <2> DEFINE n == IF job.current = "Critical" THEN Reclaimable
                  ELSE (Reclaimable * warningReclaimPercent) \div 100
  <2>2. CASE /\ Goto("scratch", job)
             /\ ~job.changed \/ job.current = "Normal" \/ Reclaimable = 0
    <3>1. ASSUME TakesAll PROVE NothingEligible'
      <4>1. Reclaimable = 0
          BY <2>1, <2>2, <3>1 DEF TakesAll, CriticalEntry
      <4>2. observed.reclaimable = 0 /\ Surplus = 0
          BY <1>1, <4>1, ReclaimableType
      <4>3. Bytes(Unpinned) = 0
          BY <2>1, <4>2 DEF PolicyInv, UsageKnown, Usage
      <4>4. Unpinned = {}
          BY <1>1, <4>3, BytesZero, Bounds
      <4>5. Unpinned' = Unpinned /\ Surplus' = Surplus /\ leased' = leased
          BY <2>1, SameMemory DEF memory
      <4>6. \A l \in leased : SizeOf[l] > 0
          BY <1>1, LeaseSizes
      <4> QED
          BY <4>2, <4>4, <4>5, <4>6 DEF NothingEligible
    <3>2. Free' >= Free
        BY <1>1, <2>1, SameMemory
    <3> QED
        BY <1>3, <2>1, <2>2, <3>1, <3>2
  <2>3. CASE Reclaim(n, job.current, "scratch")
    <3>1. n \in Nat
        BY <1>1, ShareType, PolicyConstants
    <3>2. TakesAll => n = Reclaimable /\ job.current = "Critical"
        BY <2>1 DEF TakesAll, CriticalEntry
    <3> HIDE DEF n
    <3> QED
        BY <1>2, <2>1, <2>3, <3>1, <3>2, ReclaimBeginsAlone
  <2> QED
      BY <1>4, <2>2, <2>3 DEF ActBroker
<1>5. CASE ActAlone
  <2>1. /\ ~broker /\ pc = "act" /\ Goto("scratch", job) /\ job.call # "purge"
        /\ UNCHANGED <<leased, other, internal>>
      BY <1>5 DEF ActAlone, At, PolicyInv, LocalsOk
  <2>2. PICK S \in SUBSET Unpinned :
             Evict(S) /\ (job.current = "Critical" /\ purgeUnpinnedOnCritical => S = Unpinned)
      BY <1>5 DEF ActAlone
  <2>3. Free' = Free + Bytes(S) /\ Bytes(S) \in Nat /\ Unpinned' = Unpinned \ S
      BY <1>1, <2>1, <2>2, EvictStep
  <2>4. Free' >= Free
      BY <1>1, <2>3
  <2>5. ASSUME TakesAll PROVE NothingEligible'
    <3>1. Unpinned' = {}
        BY <2>1, <2>2, <2>3, <2>5 DEF TakesAll, CriticalEntry, Purges
    <3>2. leased' = {}
        BY <2>1 DEF PolicyInv, LeasesOk
    <3> QED
        BY <3>1, <3>2 DEF NothingEligible
  <2> QED
      BY <1>3, <2>1, <2>4, <2>5
<1>6. CASE Purge
  <2>1. /\ pc = "purge" /\ UNCHANGED <<leased, other, internal>>
      BY <1>6 DEF Purge, At
  <2>2. CASE broker
    <3>1. Reclaim(Reclaimable, "Critical", "scratch") /\ UNCHANGED memory
        BY <1>6, <2>1, <2>2 DEF Purge, memory
    <3> QED
        BY <1>1, <1>2, <2>1, <2>2, <3>1, ReclaimBeginsAlone
  <2>3. CASE ~broker
    <3>1. Evict(Unpinned) /\ Goto("scratch", job)
        BY <1>6, <2>3 DEF Purge
    <3>2. /\ Free' = Free + Bytes(Unpinned) /\ Bytes(Unpinned) \in Nat
          /\ Unpinned' = Unpinned \ Unpinned
        BY <1>1, <2>1, <3>1, EvictStep
    <3>3. leased' = {}
        BY <2>1, <2>3 DEF PolicyInv, LeasesOk
    <3>4. NothingEligible' /\ Free' >= Free
        BY <1>1, <3>2, <3>3 DEF NothingEligible
    <3> QED
        BY <1>3, <2>1, <3>1, <3>4
  <2> QED
      BY <2>2, <2>3
<1> QED
    BY <1>4, <1>5, <1>6

(* The end of a reclaim.                                                   *)
LEMMA ReclaimDoneAlone ==
    ASSUME PolicyInv, PolicyInv', AloneInv, ReclaimDone
    PROVE  AloneInv'
<1>1. job \in JobSet /\ MemoryOk /\ FiguresOk /\ observed.reclaimable \in Nat
      /\ Surplus \in Nat /\ Free \in Nat /\ job.target \in Nat /\ job.freed \in Nat
    BY ReclaimableType, Bounds DEF PolicyInv, LocalsOk, JobSet
<1>2. /\ UNCHANGED <<memory, last_pressure, reset, broker>> /\ pc = "reclaim" /\ job' = job
      /\ job.after \in {"read", "scratch"}
      /\ pc' = IF job.after = "read" THEN "sync" ELSE "scratch"
      /\ job.freed >= job.target \/ Donor = {}
    BY DEF ReclaimDone, At, Goto, PolicyInv, LocalsOk, config
<1>3. FreedIsFree'
    BY <1>2, FreedStays DEF AloneInv
<1>4. CASE job.after = "read"
  <2>1. ~Applying' /\ ~Recording'
      BY <1>2, <1>4 DEF Applying, Recording, Reclaiming
  <2> QED
      BY <1>2, <1>3, <2>1, Elsewhere DEF AloneInv
<1>5. CASE job.after = "scratch"
  <2>1. /\ Free' = Free /\ Surplus' = Surplus /\ Unpinned' = Unpinned
        /\ internal' = internal /\ leased' = leased
      BY <1>2, SameMemory DEF memory
  <2>2. Applying /\ ~Recording' /\ Reclaiming
      BY <1>2, <1>5 DEF Applying, Recording, Reclaiming
  <2>3. Latest' /\ Handled' /\ CriticalEntryHandled' /\ (TakesAll' <=> TakesAll)
      BY <1>1, <1>2, <2>1, <2>2, SameLevel
  <2>4. Whole'
      BY <1>2, <1>5 DEF Whole, Reclaiming
  <2>5. ASSUME TakesAll PROVE NothingEligible
    <3>1. /\ job.target - job.freed >= LeftIn("assets") + LeftIn("application")
          /\ IF "assets" \in job.tried THEN Unpinned = {}
             ELSE observed.reclaimable = Bytes(Unpinned)
          /\ "application" \in job.tried => NoLeaseAbove
        BY <1>2, <2>2, <2>5 DEF AloneInv, Whole, Pending
    <3>2. /\ LeftIn("assets") = IF "assets" \in job.tried THEN 0 ELSE observed.reclaimable
          /\ LeftIn("application") = IF "application" \in job.tried THEN 0 ELSE Surplus
        BY DEF LeftIn, availableReclaim
    <3>3. LeftIn("assets") = 0 /\ LeftIn("application") = 0
      <4>1. CASE job.freed >= job.target
          BY <1>1, <3>1, <3>2, <4>1
      <4>2. CASE Donor = {}
          BY <3>2, <4>2 DEF Donor, availableReclaim
      <4> QED
          BY <1>2, <4>1, <4>2
    <3>4. Unpinned = {}
      <4>1. CASE "assets" \in job.tried
          BY <3>1, <4>1
      <4>2. CASE "assets" \notin job.tried
        <5>1. Bytes(Unpinned) = 0
            BY <3>1, <3>2, <3>3, <4>2
        <5> QED
            BY <1>1, <5>1, BytesZero, Bounds
      <4> QED
          BY <4>1, <4>2
    <3>5. NoLeaseAbove
      <4>1. CASE "application" \in job.tried
          BY <3>1, <4>1
      <4>2. CASE "application" \notin job.tried
          BY <1>1, <3>2, <3>3, <4>2, LeaseSizes DEF NoLeaseAbove
      <4> QED
          BY <4>1, <4>2
    <3> QED
        BY <3>4, <3>5 DEF NothingEligible, NoLeaseAbove
  <2>6. CriticalTakesAll'
      BY <2>1, <2>3, <2>5 DEF CriticalTakesAll, NothingEligible, TakesAll
  <2> QED
      BY <1>3, <2>3, <2>4, <2>6 DEF AloneInv
<1> QED
    BY <1>2, <1>4, <1>5

(* The cache is asked.                                                     *)
LEMMA AssetsAlone ==
    ASSUME PolicyInv, PolicyInv', AloneInv, reclaimAssets
    PROVE  AloneInv'
<1> DEFINE ask == AskOf(observed.reclaimable)
           credited(T) == IF Bytes(T) <= ask THEN Bytes(T) ELSE ask
<1>1. job \in JobSet /\ MemoryOk /\ FiguresOk /\ observed.reclaimable \in Nat
      /\ Surplus \in Nat /\ Free \in Nat /\ job.target \in Nat /\ job.freed \in Nat
    BY ReclaimableType, Bounds DEF PolicyInv, LocalsOk, JobSet
<1>2. PICK S \in SUBSET Unpinned :
        /\ pc = "reclaim" /\ Evict(S) /\ Bytes(S) \in Nat /\ ask \in Int
        /\ "assets" \notin job.tried /\ observed.reclaimable # 0
        /\ job.reason = "Critical" /\ ask >= Bytes(Unpinned) => S = Unpinned
        /\ Goto("reclaim", [job EXCEPT !.freed = @ + credited(S),
                                       !.tried = @ \cup {"assets"}])
        /\ UNCHANGED <<leased, other, internal, last_pressure, reset>>
    BY AssetsGive
<1>3. /\ pc' = "reclaim" /\ job'.target = job.target /\ job'.reason = job.reason
      /\ job'.freed = job.freed + credited(S) /\ job'.tried = job.tried \cup {"assets"}
      /\ job'.after = job.after /\ job'.call = job.call
      /\ job'.current = job.current /\ job'.changed = job.changed /\ broker' = broker
    BY <1>1, <1>2 DEF Goto, JobSet, config
<1>4. Free' = Free + Bytes(S) /\ Unpinned' = Unpinned \ S
    BY <1>1, <1>2, EvictStep
<1>5. credited(S) <= Bytes(S) /\ credited(S) \in Int
    BY <1>2
<1> HIDE DEF credited
<1>6. FreedIsFree'
    BY <1>1, <1>2, <1>3, <1>4, <1>5 DEF AloneInv, FreedIsFree
<1>7. Latest' /\ Handled' /\ CriticalEntryHandled' /\ (TakesAll' <=> TakesAll)
  <2>1. ~Recording' /\ (Applying' => Applying)
      BY <1>2, <1>3 DEF Recording, Applying, Reclaiming
  <2>2. Free' >= Free
      BY <1>1, <1>2, <1>4
  <2> QED
      BY <1>2, <1>3, <2>1, <2>2, SameLevel
<1>8. Surplus' = Surplus /\ leased' = leased
    BY <1>2 DEF Surplus, Bytes
<1>9. Whole'
  <2>1. SUFFICES ASSUME Reclaiming', TakesAll'
                 PROVE  /\ job'.reason = "Critical" /\ Unpinned' = {}
                        /\ job'.target - job'.freed >= Pending'
                        /\ "application" \in job'.tried => NoLeaseAbove'
      BY <1>3 DEF Whole
  <2>2. Reclaiming /\ TakesAll
      BY <1>2, <1>3, <1>7, <2>1 DEF Reclaiming
  <2>3. /\ job.reason = "Critical"
        /\ job.target - job.freed >= observed.reclaimable + LeftIn("application")
        /\ observed.reclaimable = Bytes(Unpinned)
        /\ "application" \in job.tried => NoLeaseAbove
      BY <1>2, <2>2 DEF AloneInv, Whole, Pending, LeftIn, availableReclaim
  <2>4. LeftIn("application") = IF "application" \in job.tried THEN 0 ELSE Surplus
      BY DEF LeftIn, availableReclaim
  <2>5. ask = observed.reclaimable
    <3>1. job.target - job.freed >= observed.reclaimable
        BY <1>1, <2>3, <2>4
    <3> QED
        BY <1>1, <3>1, AskType
  <2> HIDE DEF ask
  <2>6. S = Unpinned
      BY <1>1, <1>2, <2>3, <2>5
  <2>7. credited(S) = observed.reclaimable
      BY <1>1, <2>3, <2>5, <2>6 DEF credited
  <2>8. Pending' = LeftIn("application")
      BY <1>1, <1>3, <1>8, <2>4 DEF Pending, LeftIn, availableReclaim
  <2>9. job'.target - job'.freed >= Pending'
      BY <1>1, <1>3, <2>3, <2>4, <2>7, <2>8
  <2>10. "application" \in job'.tried => NoLeaseAbove'
      BY <1>3, <1>8, <2>3 DEF NoLeaseAbove
  <2> QED
      BY <1>3, <1>4, <2>3, <2>6, <2>9, <2>10
<1>10. CriticalTakesAll'
    BY <1>3 DEF CriticalTakesAll
<1> QED
    BY <1>6, <1>7, <1>9, <1>10 DEF AloneInv

(* The application is asked, gives lease after lease, and is done.         *)
LEMMA ElasticAlone ==
    ASSUME PolicyInv, PolicyInv', AloneInv, AskElastic \/ TakeElastic \/ ElasticDone
    PROVE  AloneInv'
<1>1. job \in JobSet /\ MemoryOk /\ FiguresOk /\ observed.reclaimable \in Nat
      /\ Surplus \in Nat /\ Free \in Nat /\ job.target \in Nat /\ job.freed \in Nat
      /\ job.ask \in Int
    BY ReclaimableType, Bounds DEF PolicyInv, LocalsOk, JobSet
<1>2. LeftIn("assets") = IF "assets" \in job.tried THEN 0 ELSE observed.reclaimable
    BY DEF LeftIn, availableReclaim
<1>3. ASSUME pc \in {"reclaim", "elastic"}, pc' \in {"reclaim", "elastic"}, Free' >= Free,
             job'.after = job.after, job'.call = job.call, job'.current = job.current,
             job'.changed = job.changed, job'.reason = job.reason, FreedIsFree',
             UNCHANGED <<internal, observed, last_pressure, reset, broker>>,
             Unpinned' = Unpinned,
             "assets" \in job'.tried <=> "assets" \in job.tried,
             Reclaiming /\ TakesAll =>
               /\ job'.target - job'.freed >= Pending'
               /\ pc' = "elastic" => job'.ask = Surplus' /\ "application" \in job'.tried
               /\ pc' = "reclaim" /\ "application" \in job'.tried => NoLeaseAbove'
      PROVE  AloneInv'
  <2>1. ~Recording' /\ (Applying' => Applying) /\ (Reclaiming' <=> Reclaiming)
      BY <1>3 DEF Recording, Applying, Reclaiming
  <2>2. Latest' /\ Handled' /\ CriticalEntryHandled' /\ (TakesAll' <=> TakesAll)
      BY <1>3, <2>1, SameLevel
  <2>3. Bytes(Unpinned)' = Bytes(Unpinned)
      BY <1>3 DEF Bytes
  <2>4. Whole'
      BY <1>3, <2>1, <2>2, <2>3 DEF AloneInv, Whole
  <2>5. CriticalTakesAll'
      BY <1>3 DEF CriticalTakesAll
  <2> QED
      BY <1>3, <2>2, <2>4, <2>5 DEF AloneInv
<1>4. CASE AskElastic
  <2>1. /\ UNCHANGED <<memory, observed, last_pressure, reset>>
        /\ pc = "reclaim" /\ "application" \notin job.tried
        /\ Goto("elastic", [job EXCEPT !.ask = AskOf(Surplus), !.tried = @ \cup {"application"}])
      BY <1>4 DEF AskElastic, At, Donor
  <2>2. /\ pc' = "elastic" /\ job'.target = job.target /\ job'.reason = job.reason
        /\ job'.freed = job.freed /\ job'.tried = job.tried \cup {"application"}
        /\ job'.after = job.after /\ job'.call = job.call /\ job'.ask = AskOf(Surplus)
        /\ job'.current = job.current /\ job'.changed = job.changed /\ broker' = broker
      BY <1>1, <2>1 DEF Goto, JobSet, config
  <2>3. /\ Free' = Free /\ Surplus' = Surplus /\ Unpinned' = Unpinned
        /\ internal' = internal /\ leased' = leased
      BY <2>1, SameMemory DEF memory
  <2>4. ASSUME Reclaiming, TakesAll
        PROVE  job'.target - job'.freed >= Pending' /\ job'.ask = Surplus
    <3>1. job.target - job.freed >= LeftIn("assets") + Surplus
        BY <2>1, <2>4 DEF AloneInv, Whole, Pending, LeftIn, availableReclaim
    <3>2. job.target - job.freed >= Surplus
        BY <1>1, <1>2, <3>1
    <3>3. AskOf(Surplus) = Surplus
        BY <1>1, <3>2, AskType
    <3>4. Pending' = LeftIn("assets") + AskOf(Surplus)
        BY <1>2, <2>1, <2>2 DEF Pending, LeftIn, availableReclaim
    <3> QED
        BY <2>2, <3>1, <3>3, <3>4
  <2>5. FreedIsFree' /\ Free' >= Free
      BY <1>1, <2>2, <2>3 DEF AloneInv, FreedIsFree
  <2> QED
      BY <1>3, <2>1, <2>2, <2>3, <2>4, <2>5
<1>5. CASE TakeElastic
  <2>1. PICK l \in leased :
          /\ pc = "elastic" /\ leased' = leased \ {l} /\ SizeOf[l] \in Nat \ {0}
          /\ Surplus' = Surplus - SizeOf[l] /\ Free' = Free + SizeOf[l]
          /\ Goto("elastic", [job EXCEPT !.ask = @ - SizeOf[l], !.freed = @ + SizeOf[l]])
          /\ Unpinned' = Unpinned
          /\ UNCHANGED <<internal, observed, last_pressure, reset>>
      BY <1>5, LeaseTaken
  <2>2. /\ pc' = "elastic" /\ job'.target = job.target /\ job'.reason = job.reason
        /\ job'.freed = job.freed + SizeOf[l] /\ job'.tried = job.tried
        /\ job'.after = job.after /\ job'.call = job.call /\ job'.ask = job.ask - SizeOf[l]
        /\ job'.current = job.current /\ job'.changed = job.changed /\ broker' = broker
      BY <1>1, <2>1 DEF Goto, JobSet, config
  <2>3. ASSUME Reclaiming, TakesAll
        PROVE  /\ job'.target - job'.freed >= Pending' /\ job'.ask = Surplus'
               /\ "application" \in job'.tried
    <3>1. job.target - job.freed >= LeftIn("assets") + job.ask /\ job.ask = Surplus
          /\ "application" \in job.tried
        BY <2>1, <2>3 DEF AloneInv, Whole, Pending
    <3>2. Pending' = LeftIn("assets") + job'.ask
        BY <1>2, <2>1, <2>2 DEF Pending, LeftIn, availableReclaim
    <3> QED
        BY <1>1, <1>2, <2>1, <2>2, <3>1, <3>2
  <2>4. FreedIsFree' /\ Free' >= Free
      BY <1>1, <2>1, <2>2 DEF AloneInv, FreedIsFree
  <2> QED
      BY <1>3, <2>1, <2>2, <2>3, <2>4
<1>6. CASE ElasticDone
  <2>1. /\ UNCHANGED <<memory, observed, last_pressure, reset>> /\ pc = "elastic"
        /\ job.ask <= 0 \/ \A l \in leased : SizeOf[l] > Surplus
        /\ Goto("reclaim", [job EXCEPT !.ask = 0])
      BY <1>6 DEF ElasticDone, At
  <2>2. /\ pc' = "reclaim" /\ job'.target = job.target /\ job'.reason = job.reason
        /\ job'.freed = job.freed /\ job'.tried = job.tried
        /\ job'.after = job.after /\ job'.call = job.call
        /\ job'.current = job.current /\ job'.changed = job.changed /\ broker' = broker
      BY <1>1, <2>1 DEF Goto, JobSet, config
  <2>3. /\ Free' = Free /\ Surplus' = Surplus /\ Unpinned' = Unpinned
        /\ internal' = internal /\ leased' = leased
      BY <2>1, SameMemory DEF memory
  <2>4. ASSUME Reclaiming, TakesAll
        PROVE  job'.target - job'.freed >= Pending' /\ NoLeaseAbove'
    <3>1. job.target - job.freed >= LeftIn("assets") + job.ask /\ job.ask = Surplus
          /\ "application" \in job.tried
        BY <2>1, <2>4 DEF AloneInv, Whole, Pending
    <3>2. Pending' = LeftIn("assets") + 0
        BY <1>2, <2>1, <2>2, <3>1 DEF Pending, LeftIn, availableReclaim
    <3>3. NoLeaseAbove
        BY <1>1, <2>1, <3>1, LeaseSizes DEF NoLeaseAbove
    <3>4. NoLeaseAbove'
        BY <2>3, <3>3 DEF NoLeaseAbove
    <3> QED
        BY <1>1, <1>2, <2>2, <3>1, <3>2, <3>4
  <2>5. FreedIsFree' /\ Free' >= Free
      BY <1>1, <2>2, <2>3 DEF AloneInv, FreedIsFree
  <2> QED
      BY <1>3, <2>1, <2>2, <2>3, <2>4, <2>5
<1> QED
    BY <1>4, <1>5, <1>6

(* It holds when begin() starts to apply the policy ...                    *)
LEMMA AloneInit == Init => AloneInv
<1> SUFFICES ASSUME Init PROVE AloneInv
    OBVIOUS
<1>1. pc = "sync" /\ job.after = "read" /\ job.freed = 0 /\ last_pressure = "Normal"
    BY DEF Init, NoJob
<1>2. FreedIsFree
    BY <1>1, PolicyInit DEF PolicyInv, MemoryOk, FreedIsFree
<1>3. Whole /\ Latest /\ Handled /\ CriticalEntryHandled /\ CriticalTakesAll
    BY <1>1 DEF Whole, Latest, Handled, CriticalEntryHandled, CriticalTakesAll, Applying,
                Reclaiming, Recording
<1> QED
    BY <1>2, <1>3 DEF AloneInv

(* ... and after every step, if others only run between the calls.         *)
LEMMA AloneNext ==
    ASSUME ~Interferes
    PROVE  PolicyInv /\ PolicyInv' /\ AloneInv /\ [Next]_vars => AloneInv'
<1>1. ASSUME PolicyInv, PolicyInv', AloneInv, Next PROVE AloneInv'
  <2>1. CASE \/ OthersAllocate \/ OthersRelease \/ InternalChanges
             \/ requestElastic \/ releaseLease \/ useCache
      BY <1>1, <2>1, OthersAlone
  <2>2. CASE service \/ emergencyPurge \/ Monitor \/ BrokerService \/ BrokerPercent
      BY <1>1, <2>2, BeginningsAlone
  <2>3. CASE syncBrokerUsage \/ Read \/ Scratch \/ Record
      BY <1>1, <2>3, ReadingsAlone
  <2>4. CASE ActBroker \/ ActAlone \/ Purge
      BY <1>1, <2>4, ActionsAlone
  <2>5. CASE ReclaimDone
      BY <1>1, <2>5, ReclaimDoneAlone
  <2>6. CASE reclaimAssets
      BY <1>1, <2>6, AssetsAlone
  <2>7. CASE AskElastic \/ TakeElastic \/ ElasticDone
      BY <1>1, <2>7, ElasticAlone
  <2> QED
      BY <1>1, <2>1, <2>2, <2>3, <2>4, <2>5, <2>6, <2>7, Zenon DEF Next, Step
<1>2. ASSUME AloneInv, UNCHANGED vars PROVE AloneInv'
  <2>1. UNCHANGED <<memory, observed, last_pressure, reset, pc, job, leased, broker>>
      BY <1>2 DEF vars, memory, config
  <2>2. /\ Free' = Free /\ Surplus' = Surplus /\ Unpinned' = Unpinned
        /\ pressure' = pressure /\ Bytes(Unpinned)' = Bytes(Unpinned)
      BY <2>1, SameMemory DEF Bytes
  <2>3. FreedIsFree' /\ Latest' /\ Handled' /\ CriticalEntryHandled'
      BY <1>2, <2>1, <2>2
      DEF AloneInv, FreedIsFree, Latest, Handled, CriticalEntryHandled, Applying, Reclaiming,
          Recording
  <2>4. (TakesAll' <=> TakesAll) /\ (Reclaiming' <=> Reclaiming) /\ Pending' = Pending
        /\ (NoLeaseAbove' <=> NoLeaseAbove)
      BY <2>1, <2>2
      DEF TakesAll, CriticalEntry, Purges, Reclaiming, Pending, LeftIn, availableReclaim,
          NoLeaseAbove
  <2>5. Whole'
      BY <1>2, <2>1, <2>2, <2>4 DEF AloneInv, Whole
  <2>6. CriticalTakesAll'
      BY <1>2, <2>1, <2>2, <2>4
      DEF AloneInv, CriticalTakesAll, NothingEligible
  <2> QED
      BY <2>3, <2>5, <2>6 DEF AloneInv
<1> QED
    BY <1>1, <1>2

(* README: "Scratch contents are reset on Critical entry", and on Critical *)
(* "the broker can reclaim all eligible optional memory".  While nobody    *)
(* else takes memory during a call, the arena is reset and nothing that    *)
(* may go is left before Critical counts as dealt with, each if the        *)
(* configuration asks for it; and after emergencyPurge, whatever it asks   *)
(* for, nothing is left either.                                            *)
THEOREM CriticalIsDealtWithInFull ==
    ASSUME ~Interferes
    PROVE  Spec => []CriticalInFull
<1>1. PolicyInv /\ AloneInv => CriticalInFull
  <2> SUFFICES ASSUME PolicyInv, AloneInv PROVE TypeOK
      BY DEF AloneInv, CriticalInFull
  <2>2. job \in JobSet
      BY DEF PolicyInv, LocalsOk
  <2>3. job.freed \in 0 .. TOTAL
    <3>1. Free \in 0 .. TOTAL /\ job.freed \in Nat /\ TOTAL \in Nat
        BY <2>2, Bounds, PolicyConstants DEF PolicyInv, JobSet
    <3> QED
        BY <3>1 DEF AloneInv, FreedIsFree
  <2>4. Free \in 0 .. TOTAL /\ other \in 0 .. TOTAL
      BY Bounds DEF PolicyInv
  <2>5. {reported, last_pressure, internal, job.current} \subseteq Level
      BY <2>2 DEF PolicyInv, LevelsOk, MemoryOk, JobSet
  <2>6. job.target \in Nat /\ job.ask \in Int /\ job.tried \subseteq {"assets", "application"}
      BY <2>2 DEF JobSet
  <2> QED
      BY <2>3, <2>4, <2>5, <2>6 DEF TypeOK, PolicyInv, MemoryOk, FiguresOk
<1>2. Spec => []AloneInv
    BY AloneInit, AloneNext, PolicyHolds, PTL DEF Spec
<1> QED
    BY <1>1, <1>2, PolicyHolds, PTL

-----------------------------------------------------------------------------
(* The scratch arena, as long as nobody resets it behind its users' backs *)

(* What the marks say of the blocks: mark i lies above every block drawn   *)
(* before it, and marks and offset grow with the depth.                    *)
MarksInOrder ==
    \A i \in 1 .. depth :
        /\ mark[i] <= offset
        /\ \A j \in 1 .. depth : i <= j => mark[i] <= mark[j]
MarksAboveBlocks ==
    \A b \in held :
        /\ b.level <= depth
        /\ \A i \in 1 .. depth : b.level < i => Above(b) <= BASE + mark[i]
BelowOffset == \A b \in held : b.start >= BASE /\ Above(b) <= BASE + offset
ArenaInvariant ==
    ArenaTypeOK /\ MarksInOrder /\ MarksAboveBlocks /\ BelowOffset /\ FrameLifetime

(* A block drawn where scratch draws it lies behind all others.            *)
LEMMA ScratchKeepsInvariant ==
    ASSUME ArenaInvariant, scratch
    PROVE  ArenaInvariant'
<1> USE ArenaConstants DEF ArenaInvariant, ArenaTypeOK, Held
<1>1. PICK n \in Sizes \ {0}, a \in Alignments, p \in Power,
           start \in BASE .. BASE + CAPACITY :
        /\ FirstAligned(BASE + offset, p, start)
        /\ n <= CAPACITY - (start - BASE)
        /\ offset' = start - BASE + n
        /\ held' = held \cup {[start |-> start, size |-> n, alignment |-> a, level |-> depth]}
        /\ UNCHANGED <<depth, mark>>
  BY DEF scratch
<1> DEFINE new == [start |-> start, size |-> n, alignment |-> a, level |-> depth]
<1>2. /\ n \in Nat \ {0} /\ start \in Nat /\ p \in Nat \ {0}
      /\ start >= BASE + offset
      /\ offset' = start - BASE + n
      /\ offset' >= offset /\ offset' <= CAPACITY /\ offset' \in Nat
  BY <1>1 DEF FirstAligned
<1>3. new \in Held /\ Above(new) = BASE + offset' /\ held' = held \cup {new}
  BY <1>1, <1>2 DEF Above
<1>4. ArenaTypeOK'
  BY <1>1, <1>2, <1>3
<1>5. MarksInOrder'
  BY <1>1, <1>2 DEF MarksInOrder
<1>6. MarksAboveBlocks'
  BY <1>1, <1>2, <1>3 DEF MarksAboveBlocks, Above
<1>7. BelowOffset'
  <2> SUFFICES ASSUME NEW b \in held'
               PROVE  b.start >= BASE /\ Above(b) <= BASE + offset'
    BY DEF BelowOffset, Above
  <2>1. CASE b = new
    BY <2>1, <1>2, <1>3
  <2>2. CASE b \in held
    <3>1. b.start >= BASE /\ Above(b) <= BASE + offset
      BY <2>2 DEF BelowOffset
    <3>2. Above(b) \in Nat
      BY <2>2 DEF Above
    <3> QED BY <3>1, <3>2, <1>2
  <2> QED BY <2>1, <2>2, <1>3
<1>8. FrameLifetime'
  <2> SUFFICES ASSUME NEW b \in held', NEW c \in held', b # c
               PROVE  Above(b) <= c.start \/ Above(c) <= b.start
    BY DEF FrameLifetime, Above
  <2>1. CASE b \in held /\ c \in held
    BY <2>1 DEF FrameLifetime
  <2>2. ASSUME NEW d \in held PROVE Above(d) <= start
    <3>1. Above(d) <= BASE + offset
      BY <2>2 DEF BelowOffset
    <3>2. Above(d) \in Nat
      BY <2>2 DEF Above
    <3> QED BY <3>1, <3>2, <1>2
  <2> QED BY <2>1, <2>2, <1>3
<1> QED BY <1>4, <1>5, <1>6, <1>7, <1>8

(* What remains after a rewind was drawn before the mark, so lies below it.*)
LEMMA RewindKeepsInvariant ==
    ASSUME ArenaInvariant, rewindScratch
    PROVE  ArenaInvariant'
<1> USE ArenaConstants DEF ArenaInvariant, ArenaTypeOK, Held
<1>1. depth \in 1 .. MAX_DEPTH /\ mark[depth] <= offset /\ mark[depth] \in 0 .. CAPACITY
  BY DEF rewindScratch, MarksInOrder
<1>2. /\ offset' = mark[depth] /\ depth' = depth - 1 /\ mark' = mark
      /\ held' = {b \in held : b.level < depth}
  BY <1>1 DEF rewindScratch
<1>3. ArenaTypeOK'
  <2>1. \A b \in held' : b.level \in 0 .. depth - 1
    BY <1>1, <1>2
  <2> QED BY <1>1, <1>2, <2>1
<1>4. MarksInOrder'
  BY <1>1, <1>2 DEF MarksInOrder
<1>5. MarksAboveBlocks'
  BY <1>1, <1>2 DEF MarksAboveBlocks, Above
<1>6. BelowOffset'
  BY <1>1, <1>2 DEF BelowOffset, MarksAboveBlocks, Above
<1>7. FrameLifetime'
  BY <1>2 DEF FrameLifetime, Above
<1> QED BY <1>3, <1>4, <1>5, <1>6, <1>7

(* A mark is the offset, which no block and no earlier mark exceeds.       *)
LEMMA MarkKeepsInvariant ==
    ASSUME ArenaInvariant, scratchMark
    PROVE  ArenaInvariant'
<1> USE ArenaConstants DEF ArenaInvariant, ArenaTypeOK, Held
<1>1. /\ depth' = depth + 1 /\ depth + 1 \in 1 .. MAX_DEPTH
      /\ mark' = [mark EXCEPT ![depth + 1] = offset]
      /\ offset' = offset /\ held' = held
  BY DEF scratchMark
<1>2. mark'[depth + 1] = offset /\ \A i \in 1 .. depth : mark'[i] = mark[i]
  BY <1>1
<1>3. ArenaTypeOK'
  BY <1>1
<1>4. MarksInOrder'
  BY <1>1, <1>2 DEF MarksInOrder
<1>5. MarksAboveBlocks'
  <2> SUFFICES ASSUME NEW b \in held
               PROVE  /\ b.level <= depth'
                      /\ \A i \in 1 .. depth' : b.level < i => Above(b) <= BASE + mark'[i]
    BY <1>1 DEF MarksAboveBlocks, Above
  <2>1. b.level <= depth /\ Above(b) <= BASE + offset
    BY DEF MarksAboveBlocks, BelowOffset
  <2>2. ASSUME NEW i \in 1 .. depth', b.level < i
        PROVE  Above(b) <= BASE + mark'[i]
    <3>1. CASE i = depth + 1
      BY <3>1, <2>1, <1>2
    <3>2. CASE i \in 1 .. depth
      BY <3>2, <2>2, <1>2 DEF MarksAboveBlocks
    <3> QED BY <3>1, <3>2, <1>1
  <2> QED BY <2>1, <2>2, <1>1
<1>6. BelowOffset' /\ FrameLifetime'
  BY <1>1 DEF BelowOffset, FrameLifetime, Above
<1> QED BY <1>3, <1>4, <1>5, <1>6

(* At a frame boundary there is nothing to keep.                           *)
LEMMA FrameKeepsInvariant ==
    ASSUME ArenaInvariant, beginFrame
    PROVE  ArenaInvariant'
BY ArenaConstants
   DEF ArenaInvariant, ArenaTypeOK, MarksInOrder, MarksAboveBlocks, BelowOffset, FrameLifetime,
       beginFrame

(* Nor after a reset by the arena's own user.                              *)
LEMMA ResetKeepsInvariant ==
    ASSUME ArenaInvariant, ~BackgroundResets, resetScratch
    PROVE  ArenaInvariant'
BY ArenaConstants
   DEF ArenaInvariant, ArenaTypeOK, MarksInOrder, MarksAboveBlocks, BelowOffset, FrameLifetime,
       resetScratch

(* The strengthened invariant holds in every reachable state.              *)
THEOREM ArenaSafe ==
    ASSUME ~BackgroundResets
    PROVE  ArenaSpec => []ArenaInvariant
<1>1. ArenaInit => ArenaInvariant
  BY ArenaConstants
     DEF ArenaInit, ArenaInvariant, ArenaTypeOK, MarksInOrder, MarksAboveBlocks, BelowOffset,
         FrameLifetime
<1>2. ArenaInvariant /\ [ArenaNext]_arenaVars => ArenaInvariant'
  <2> SUFFICES ASSUME ArenaInvariant, [ArenaNext]_arenaVars PROVE ArenaInvariant'
    OBVIOUS
  <2>1. CASE scratch BY <2>1, ScratchKeepsInvariant
  <2>2. CASE scratchMark BY <2>2, MarkKeepsInvariant
  <2>3. CASE rewindScratch BY <2>3, RewindKeepsInvariant
  <2>4. CASE beginFrame BY <2>4, FrameKeepsInvariant
  <2>5. CASE resetScratch BY <2>5, ResetKeepsInvariant
  <2>6. CASE UNCHANGED arenaVars
    BY <2>6 DEF arenaVars, ArenaInvariant, ArenaTypeOK, MarksInOrder, MarksAboveBlocks,
                BelowOffset, FrameLifetime, Above
  <2> QED BY <2>1, <2>2, <2>3, <2>4, <2>5, <2>6 DEF ArenaNext
<1> QED BY <1>1, <1>2, PTL DEF ArenaSpec

(* AutoRuntime.cpp: "Scratch is frame-lifetime memory."  While nobody else *)
(* resets the arena, no two blocks in use share a byte, whatever is drawn  *)
(* and however deep operations nest.                                       *)
THEOREM ScratchLivesForItsFrame ==
    ASSUME ~BackgroundResets
    PROVE  ArenaSpec => []FrameLifetime
<1>1. ArenaInvariant => FrameLifetime
  BY DEF ArenaInvariant
<1> QED BY <1>1, ArenaSafe, PTL

-----------------------------------------------------------------------------
(* Some block ends at the offset, and some block drawn before mark i ends  *)
(* at it: a rewind leaves that block and the offset together.              *)
OffsetHasBlock == NothingKeptBack
MarksHaveBlocks ==
    \A i \in 1 .. depth :
        mark[i] = 0 \/ \E b \in held : b.level < i /\ Above(b) = BASE + mark[i]
Aligned == \A b \in held : b.alignment \in Power => b.start % b.alignment = 0
ExactInvariant == ArenaInvariant /\ OffsetHasBlock /\ MarksHaveBlocks /\ Aligned

(* A user who asks for a power of two is given that power.                 *)
LEMMA PowersAreTheirOwn ==
    ASSUME NEW a \in Power, NEW p \in Power, Normalized(a, p)
    PROVE  p = a
BY ArenaConstants DEF Normalized

(* The new block ends at the new offset, and marks keep their blocks.      *)
LEMMA ScratchIsExact ==
    ASSUME ExactInvariant, scratch
    PROVE  (OffsetHasBlock /\ MarksHaveBlocks /\ Aligned)'
<1> USE ArenaConstants DEF ExactInvariant
<1>1. PICK n \in Sizes \ {0}, a \in Alignments, p \in Power,
           start \in BASE .. BASE + CAPACITY :
        /\ Normalized(a, p)
        /\ FirstAligned(BASE + offset, p, start)
        /\ offset' = start - BASE + n
        /\ held' = held \cup {[start |-> start, size |-> n, alignment |-> a, level |-> depth]}
        /\ UNCHANGED <<depth, mark>>
  BY DEF scratch
<1> DEFINE new == [start |-> start, size |-> n, alignment |-> a, level |-> depth]
<1>2. new \in held' /\ Above(new) = BASE + offset'
  BY <1>1 DEF Above
<1>3. OffsetHasBlock'
  BY <1>2 DEF OffsetHasBlock, NothingKeptBack, Above
<1>4. MarksHaveBlocks'
  <2> SUFFICES ASSUME NEW i \in 1 .. depth, mark[i] # 0
               PROVE  \E b \in held' : b.level < i /\ Above(b) = BASE + mark[i]
    BY <1>1 DEF MarksHaveBlocks, Above
  <2> QED BY <1>1 DEF MarksHaveBlocks
<1>5. Aligned'
  <2> SUFFICES ASSUME NEW b \in held', b.alignment \in Power
               PROVE  b.start % b.alignment = 0
    BY DEF Aligned
  <2>1. CASE b = new
    <3>1. a \in Power /\ start % p = 0
      BY <2>1, <1>1 DEF FirstAligned
    <3>2. p = a
      BY <3>1, <1>1, PowersAreTheirOwn
    <3> QED BY <2>1, <3>1, <3>2
  <2>2. CASE b \in held
    BY <2>2 DEF Aligned
  <2> QED BY <2>1, <2>2, <1>1
<1> QED BY <1>3, <1>4, <1>5

(* After a rewind the block that ended at the mark ends at the offset.     *)
LEMMA RewindIsExact ==
    ASSUME ExactInvariant, rewindScratch
    PROVE  (OffsetHasBlock /\ MarksHaveBlocks /\ Aligned)'
<1> USE ArenaConstants DEF ExactInvariant, ArenaInvariant, ArenaTypeOK
<1>1. depth \in 1 .. MAX_DEPTH /\ mark[depth] <= offset /\ mark[depth] \in 0 .. CAPACITY
  BY DEF rewindScratch, MarksInOrder
<1>2. /\ offset' = mark[depth] /\ depth' = depth - 1 /\ mark' = mark
      /\ held' = {b \in held : b.level < depth}
  BY <1>1 DEF rewindScratch
<1>3. OffsetHasBlock'
  BY <1>1, <1>2 DEF OffsetHasBlock, NothingKeptBack, MarksHaveBlocks, Above
<1>4. MarksHaveBlocks'
  <2> SUFFICES ASSUME NEW i \in 1 .. depth - 1, mark[i] # 0
               PROVE  \E b \in held' : b.level < i /\ Above(b) = BASE + mark[i]
    BY <1>2 DEF MarksHaveBlocks, Above
  <2>1. PICK b \in held : b.level < i /\ Above(b) = BASE + mark[i]
    BY <1>1 DEF MarksHaveBlocks
  <2>2. b.level < depth
    BY <2>1, <1>1 DEF Held
  <2> QED BY <2>1, <2>2, <1>2
<1>5. Aligned'
  BY <1>2 DEF Aligned
<1> QED BY <1>3, <1>4, <1>5

(* A mark is taken at the offset, where some block ends already.           *)
LEMMA MarkIsExact ==
    ASSUME ExactInvariant, scratchMark
    PROVE  (OffsetHasBlock /\ MarksHaveBlocks /\ Aligned)'
<1> USE ArenaConstants DEF ExactInvariant, ArenaInvariant, ArenaTypeOK, Held
<1>1. /\ depth' = depth + 1 /\ depth + 1 \in 1 .. MAX_DEPTH
      /\ mark' = [mark EXCEPT ![depth + 1] = offset]
      /\ offset' = offset /\ held' = held
  BY DEF scratchMark
<1>2. mark'[depth + 1] = offset /\ \A i \in 1 .. depth : mark'[i] = mark[i]
  BY <1>1
<1>3. OffsetHasBlock' /\ Aligned'
  BY <1>1 DEF OffsetHasBlock, NothingKeptBack, Aligned, Above
<1>4. MarksHaveBlocks'
  <2> SUFFICES ASSUME NEW i \in 1 .. depth + 1, mark'[i] # 0
               PROVE  \E b \in held : b.level < i /\ Above(b) = BASE + mark'[i]
    BY <1>1 DEF MarksHaveBlocks, Above
  <2>1. CASE i = depth + 1
    <3>1. PICK b \in held : Above(b) = BASE + offset
      BY <2>1, <1>2 DEF OffsetHasBlock, NothingKeptBack
    <3>2. b.level < depth + 1
      BY <3>1 DEF MarksAboveBlocks
    <3> QED BY <2>1, <3>1, <3>2, <1>2
  <2>2. CASE i \in 1 .. depth
    BY <2>2, <1>2 DEF MarksHaveBlocks
  <2> QED BY <2>1, <2>2, <1>1
<1> QED BY <1>3, <1>4

(* README: validation covers "scratch bounds", and rewinding returns       *)
(* capacity "immediately".  Every block lies in the arena, below the       *)
(* offset, where its user asked for, and the offset is the end of a block  *)
(* in use: whatever is drawn and however deep operations nest, as long as  *)
(* nobody else resets the arena.                                           *)
THEOREM OffsetStaysExact ==
    ASSUME ~BackgroundResets
    PROVE  ArenaSpec => []OffsetIsExact
<1>1. ArenaInit => ExactInvariant
  BY ArenaConstants
     DEF ArenaInit, ExactInvariant, ArenaInvariant, ArenaTypeOK, MarksInOrder, MarksAboveBlocks,
         BelowOffset,
         FrameLifetime, OffsetHasBlock, NothingKeptBack, MarksHaveBlocks, Aligned
<1>2. ExactInvariant /\ ArenaInvariant' /\ [ArenaNext]_arenaVars => ExactInvariant'
  <2> SUFFICES ASSUME ExactInvariant, [ArenaNext]_arenaVars
               PROVE  (OffsetHasBlock /\ MarksHaveBlocks /\ Aligned)'
    BY DEF ExactInvariant
  <2>1. CASE scratch BY <2>1, ScratchIsExact
  <2>2. CASE scratchMark BY <2>2, MarkIsExact
  <2>3. CASE rewindScratch BY <2>3, RewindIsExact
  <2>4. CASE beginFrame
    BY <2>4 DEF beginFrame, OffsetHasBlock, NothingKeptBack, MarksHaveBlocks, Aligned
  <2>5. CASE resetScratch
    BY <2>5 DEF resetScratch, OffsetHasBlock, NothingKeptBack, MarksHaveBlocks, Aligned
  <2>6. CASE UNCHANGED arenaVars
    BY <2>6 DEF arenaVars, ExactInvariant, OffsetHasBlock, NothingKeptBack, MarksHaveBlocks,
                Aligned,
                Above
  <2> QED BY <2>1, <2>2, <2>3, <2>4, <2>5, <2>6 DEF ArenaNext
<1>3. ExactInvariant => OffsetIsExact
  BY DEF ExactInvariant, ArenaInvariant, BelowOffset, OffsetHasBlock, Aligned, OffsetIsExact,
         ScratchBounds
<1> QED BY <1>1, <1>2, <1>3, ArenaSafe, PTL DEF ArenaSpec
=============================================================================
