--------------------------- MODULE PressurePolicy ---------------------------
(***************************************************************************)
(* What AutoMemory does about memory pressure                              *)
(* (src/src/NV3047_AutoMemory.cpp: service, applyPressurePolicy,           *)
(* syncBrokerUsage, reclaimAssets, emergencyPurge and the end of begin),   *)
(* composed of the parts it drives: the manager's pressure level and its   *)
(* monitor, the broker's service and reclaimFor, and the asset cache.      *)
(*                                                                         *)
(* One task calls begin, service and emergencyPurge and uses the cache,    *)
(* which has no lock; other tasks allocate, release and lease whenever     *)
(* Interferes allows.  The broker is reduced to its two donors, the asset  *)
(* client with its callback and an application with elastic leases; their  *)
(* order is MemoryBroker's business, and any order may come.  The LRU      *)
(* order of the cache is AssetCache's, and any order may come.             *)
(***************************************************************************)
EXTENDS Integers, FiniteSets, FiniteSetsExt

CONSTANTS
    Entry,              \* assets
    Lease,              \* elastic leases of the application
    SizeOf,             \* bytes of each asset and each lease
    TOTAL,              \* bytes of PSRAM
    criticalPSRAMFreeBytes,
    warningPSRAMFreeBytes,
    InternalLevels,     \* levels that internal RAM alone may be at
    Brokers,            \* values of enableBroker
    Budgets,            \* asset cache budgets without a broker, 0 for none
    purgeUnpinnedOnCritical,
    resetScratchOnCritical,
    minimumBytes,       \* floor of the application client
    minimumReclaimBytes,
    warningReclaimPercent,
    criticalReclaimPercent,
    warningCachePercent,
    Interferes          \* whether other tasks run during service()

Level == {"Normal", "Warning", "Critical"}

ASSUME PolicyConstants ==
    /\ IsFiniteSet(Entry) /\ IsFiniteSet(Lease) /\ Entry \cap Lease = {}
    /\ SizeOf \in [Entry \cup Lease -> Nat \ {0}]
    /\ {criticalPSRAMFreeBytes, warningPSRAMFreeBytes, minimumBytes,
        minimumReclaimBytes} \subseteq Nat
    /\ {warningReclaimPercent, criticalReclaimPercent, warningCachePercent} \subseteq Nat
    /\ TOTAL \in Nat /\ Budgets \subseteq Nat
    /\ InternalLevels \subseteq Level
    /\ {purgeUnpinnedOnCritical, resetScratchOnCritical} \subseteq BOOLEAN
    /\ Brokers \subseteq BOOLEAN /\ Interferes \in BOOLEAN

VARIABLES
    broker,             \* broker_.isReady()
    budget,             \* budget_bytes_ of the cache
    cached,             \* the assets in the cache and whether each is pinned
    leased,             \* the application's elastic leases
    other,              \* bytes of PSRAM in other hands
    internal,           \* level of internal RAM
    observed,           \* what the broker knows of the cache
    reported,           \* last_pressure_ of the manager, as told to the callback
    last_pressure,      \* last_pressure_ of AutoMemory
    reset,              \* the scratch arena was reset since last_pressure was
                        \* last not Critical (history)
    pc,
    job                 \* locals of the call

vars == <<broker, budget, cached, leased, other, internal, observed, reported,
          last_pressure, reset, pc, job>>
config == <<broker, budget>>
memory == <<cached, leased, other, internal>>

Bytes(S) == SumFunctionOnSet(SizeOf, S)
InCache == {e \in Entry : cached[e] # "absent"}
Unpinned == {e \in Entry : cached[e] = "unpinned"}
Free == TOTAL - other - Bytes(InCache) - Bytes(leased)

Worse(l, m) == IF "Critical" \in {l, m} THEN "Critical"
               ELSE IF "Warning" \in {l, m} THEN "Warning" ELSE "Normal"
(* evaluatePressure: either kind of memory can cause it. *)
pressure ==
    Worse(internal, IF Free <= criticalPSRAMFreeBytes THEN "Critical"
                    ELSE IF Free <= warningPSRAMFreeBytes THEN "Warning" ELSE "Normal")

Usage == [bytes |-> Bytes(InCache), reclaimable |-> Bytes(Unpinned)]
NoJob == [call |-> "none", current |-> "Normal", changed |-> FALSE, reason |-> "Warning",
          target |-> 0, freed |-> 0, tried |-> {}, ask |-> 0, after |-> "idle"]

(* AutoMemory::begin from the point where all parts are up: a cache that   *)
(* is empty, and memory that others may have used up already.              *)
Init ==
    /\ broker \in Brokers
    /\ budget \in IF broker THEN {0} ELSE Budgets
    /\ cached = [e \in Entry |-> "absent"]
    /\ leased = {}
    /\ other \in 0 .. TOTAL
    /\ internal \in InternalLevels
    /\ observed = [bytes |-> 0, reclaimable |-> 0]
    /\ reported = pressure
    /\ last_pressure = "Normal"
    /\ reset = FALSE
    /\ pc = "sync"
    /\ job = [NoJob EXCEPT !.call = "begin", !.after = "read"]

Goto(l, j) == pc' = l /\ job' = j /\ UNCHANGED config
At(l) == pc = l

-----------------------------------------------------------------------------
(* Other users of memory *)

OthersMayRun == Interferes \/ At("idle")
Untouched == UNCHANGED <<config, observed, reported, last_pressure, reset, pc, job>>

OthersAllocate ==
    /\ OthersMayRun
    /\ \E n \in 1 .. Free : other' = other + n
    /\ Untouched /\ UNCHANGED <<cached, leased, internal>>
OthersRelease ==
    /\ OthersMayRun
    /\ \E n \in 1 .. other : other' = other - n
    /\ Untouched /\ UNCHANGED <<cached, leased, internal>>
InternalChanges ==
    /\ OthersMayRun
    /\ internal' \in InternalLevels \ {internal}
    /\ Untouched /\ UNCHANGED <<cached, leased, other>>
requestElastic ==
    /\ OthersMayRun /\ broker
    /\ \E l \in Lease \ leased : SizeOf[l] <= Free /\ leased' = leased \cup {l}
    /\ Untouched /\ UNCHANGED <<cached, other, internal>>
releaseLease ==
    /\ OthersMayRun
    /\ \E l \in leased : leased' = leased \ {l}
    /\ Untouched /\ UNCHANGED <<cached, other, internal>>
(* put, pin, unpin and remove, by the task that calls service *)
useCache ==
    /\ At("idle")
    /\ \E e \in Entry, s \in {"absent", "unpinned", "pinned"} :
        /\ s # cached[e]
        /\ cached[e] = "absent" =>
            /\ SizeOf[e] <= Free
            /\ budget # 0 => Bytes(InCache) + SizeOf[e] <= budget
        /\ cached' = [cached EXCEPT ![e] = s]
    /\ Untouched /\ UNCHANGED <<leased, other, internal>>

-----------------------------------------------------------------------------
(* AutoMemory::service *)

service ==
    /\ At("idle")
    /\ Goto("monitor", [NoJob EXCEPT !.call = "service"])
    /\ UNCHANGED <<memory, observed, reported, last_pressure, reset>>

(* MemoryManager::service, unless it ran less than monitorIntervalMs ago. *)
Monitor ==
    /\ At("monitor")
    /\ reported' \in {reported, pressure}
    /\ Goto("sync", [job EXCEPT !.after = "broker"])
    /\ UNCHANGED <<memory, observed, last_pressure, reset>>

(* syncBrokerUsage; the variant leaves out the one after broker_.service().*)
syncBrokerUsage_Once ==
    /\ At("sync")
    /\ observed' = IF broker /\ job.after # "read" THEN Usage ELSE observed
    /\ Goto(job.after, IF job.after = "idle" THEN NoJob ELSE job)
    /\ UNCHANGED <<memory, reported, last_pressure, reset>>
syncBrokerUsage ==
    /\ At("sync")
    /\ observed' = IF broker THEN Usage ELSE observed
    /\ Goto(job.after, IF job.after = "idle" THEN NoJob ELSE job)
    /\ UNCHANGED <<memory, reported, last_pressure, reset>>

-----------------------------------------------------------------------------
(* The broker *)

(* availableReclaim of the two donors. *)
Surplus == Max({0, Bytes(leased) - minimumBytes})
availableReclaim(d) == IF d = "assets" THEN observed.reclaimable ELSE Surplus
Reclaimable == availableReclaim("assets") + availableReclaim("application")
AtLeast(n, least) == Max({n, least})

(* reclaimFor(n), after which the call goes on at l. *)
Reclaim(n, reason, l) ==
    Goto("reclaim", [job EXCEPT !.target = n, !.reason = reason, !.freed = 0,
                                !.tried = {}, !.after = l])

(* MemoryBroker::service: nothing within serviceIntervalMs or when there   *)
(* is nothing to reclaim; else the level is read once more.  The variant   *)
(* acts on Warning alone.                                                  *)
BrokerService ==
    /\ At("broker")
    /\ \/ Goto("sync", [job EXCEPT !.after = "read"])
       \/ broker /\ Reclaimable # 0 /\ Goto("percent", [job EXCEPT !.target = Reclaimable])
    /\ UNCHANGED <<memory, observed, reported, last_pressure, reset>>
BrokerPercent_WarningOnly ==
    /\ At("percent")
    /\ IF pressure # "Warning" THEN Goto("sync", [job EXCEPT !.after = "read"])
       ELSE Reclaim(AtLeast((job.target * warningReclaimPercent) \div 100,
                            Min({job.target, minimumReclaimBytes})), pressure, "read")
    /\ UNCHANGED <<memory, observed, reported, last_pressure, reset>>
BrokerPercent ==
    /\ At("percent")
    /\ LET percent == IF pressure = "Critical" THEN criticalReclaimPercent
                      ELSE warningReclaimPercent
           share == (job.target * Min({percent, 100})) \div 100
           least == Min({job.target, minimumReclaimBytes})
       IN IF pressure = "Normal" THEN Goto("sync", [job EXCEPT !.after = "read"])
          ELSE Reclaim(AtLeast(share, least), pressure, "read")
    /\ UNCHANGED <<memory, observed, reported, last_pressure, reset>>

(* The next donor is asked for what is missing, but never for a trifle.    *)
AskOf(available) ==
    LET missing == Min({job.target - job.freed, available})
    IN IF missing < minimumReclaimBytes /\ available >= minimumReclaimBytes
       THEN minimumReclaimBytes ELSE missing
Donor == {d \in {"assets", "application"} \ job.tried : availableReclaim(d) # 0}
ReclaimDone ==
    /\ At("reclaim")
    /\ job.freed >= job.target \/ Donor = {}
    /\ IF job.after \in {"read", "idle"} THEN Goto("sync", job) ELSE Goto(job.after, job)
    /\ UNCHANGED <<memory, observed, reported, last_pressure, reset>>

(* evictLRU(n), in whatever order of use: it stops at n bytes or when only *)
(* pinned assets are left.                                                 *)
EvictedFor(n, S) ==
    /\ S \subseteq Unpinned
    /\ Bytes(S) >= n \/ S = Unpinned
    /\ S = {} \/ \E e \in S : Bytes(S \ {e}) < n
Evict(S) == cached' = [e \in Entry |-> IF e \in S THEN "absent" ELSE cached[e]]

(* reclaimAssets: the cache gives whole assets, so often more than it was  *)
(* asked for; the broker credits what it asked for.                        *)
reclaimAssets ==
    /\ At("reclaim") /\ job.freed < job.target
    /\ "assets" \in Donor
    /\ LET ask == AskOf(availableReclaim("assets"))
       IN \E S \in SUBSET Unpinned :
            /\ IF job.reason = "Critical" /\ ask >= Bytes(Unpinned) THEN S = Unpinned
               ELSE EvictedFor(ask, S)
            /\ Evict(S)
            /\ LET credited == Min({Bytes(S), ask})
               IN /\ observed' = [bytes |-> Max({0, observed.bytes - credited}),
                                  reclaimable |-> Max({0, observed.reclaimable - credited})]
                  /\ Goto("reclaim", [job EXCEPT !.freed = @ + credited,
                                                 !.tried = @ \cup {"assets"}])
    /\ UNCHANGED <<leased, other, internal, reported, last_pressure, reset>>

(* reclaimElastic, one lease after the other, none above the floor. *)
AskElastic ==
    /\ At("reclaim") /\ job.freed < job.target
    /\ "application" \in Donor
    /\ Goto("elastic", [job EXCEPT !.ask = AskOf(Surplus), !.tried = @ \cup {"application"}])
    /\ UNCHANGED <<memory, observed, reported, last_pressure, reset>>
TakeElastic ==
    /\ At("elastic") /\ job.ask > 0
    /\ \E l \in leased :
        /\ SizeOf[l] <= Surplus
        /\ leased' = leased \ {l}
        /\ Goto("elastic", [job EXCEPT !.ask = @ - SizeOf[l], !.freed = @ + SizeOf[l]])
    /\ UNCHANGED <<cached, other, internal, observed, reported, last_pressure, reset>>
ElasticDone ==
    /\ At("elastic")
    /\ job.ask <= 0 \/ \A l \in leased : SizeOf[l] > Surplus
    /\ Goto("reclaim", [job EXCEPT !.ask = 0])
    /\ UNCHANGED <<memory, observed, reported, last_pressure, reset>>

-----------------------------------------------------------------------------
(* applyPressurePolicy *)

(* begin() applies the policy as if the level had just changed. *)
Read ==
    /\ At("read")
    /\ Goto("act", [job EXCEPT !.current = pressure,
                               !.changed = (job.call = "begin" \/ pressure # last_pressure)])
    /\ UNCHANGED <<memory, observed, reported, last_pressure, reset>>

(* The variant takes as little on Critical as on Warning. *)
ActBroker_Percent ==
    /\ At("act") /\ broker
    /\ IF ~job.changed \/ job.current = "Normal" \/ Reclaimable = 0 THEN Goto("scratch", job)
       ELSE Reclaim((Reclaimable * warningReclaimPercent) \div 100, job.current, "scratch")
    /\ UNCHANGED <<memory, observed, reported, last_pressure, reset>>
ActBroker ==
    /\ At("act") /\ broker
    /\ IF ~job.changed \/ job.current = "Normal" \/ Reclaimable = 0 THEN Goto("scratch", job)
       ELSE Reclaim(IF job.current = "Critical" THEN Reclaimable
                    ELSE (Reclaimable * warningReclaimPercent) \div 100,
                    job.current, "scratch")
    /\ UNCHANGED <<memory, observed, reported, last_pressure, reset>>

(* Without a broker: trimToBytes on Warning, purgeUnpinned on Critical if  *)
(* the configuration says so (with one, reclaimAssets does not ask it).    *)
(* The variant takes everything on Critical.                               *)
Percent(n) == (n * Min({warningCachePercent, 100})) \div 100
TrimTo ==
    IF job.current # "Warning" THEN Bytes(InCache)
    ELSE IF budget # 0 THEN Percent(budget)
    ELSE IF job.changed THEN Percent(Bytes(InCache)) ELSE Bytes(InCache)
ActAlone_Pinned ==
    /\ At("act") /\ ~broker
    /\ IF job.current = "Critical"
       THEN Evict(IF purgeUnpinnedOnCritical THEN InCache ELSE {})
       ELSE \E S \in SUBSET Unpinned :
                EvictedFor(Bytes(InCache) - TrimTo, S) /\ Evict(S)
    /\ Goto("scratch", job)
    /\ UNCHANGED <<leased, other, internal, observed, reported, last_pressure, reset>>
ActAlone ==
    /\ At("act") /\ ~broker
    /\ IF job.current = "Critical"
       THEN Evict(IF purgeUnpinnedOnCritical THEN Unpinned ELSE {})
       ELSE \E S \in SUBSET Unpinned :
                EvictedFor(Bytes(InCache) - TrimTo, S) /\ Evict(S)
    /\ Goto("scratch", job)
    /\ UNCHANGED <<leased, other, internal, observed, reported, last_pressure, reset>>

(* The arena is reset by emergencyPurge, and on entry to Critical if the   *)
(* configuration says so.                                                  *)
CriticalEntry == job.current = "Critical" /\ job.changed
Scratch ==
    /\ At("scratch")
    /\ reset' = (reset \/ job.call = "purge" \/ (resetScratchOnCritical /\ CriticalEntry))
    /\ Goto("sync", [job EXCEPT !.after = IF job.call = "purge" THEN "idle" ELSE "record"])
    /\ UNCHANGED <<memory, observed, reported, last_pressure>>

(* "Recovery actions can change the pressure state immediately", so it is  *)
(* read again.                                                             *)
Record ==
    /\ At("record")
    /\ last_pressure' = pressure
    /\ reset' = (reset /\ pressure = "Critical")
    /\ Goto("idle", NoJob)
    /\ UNCHANGED <<memory, observed, reported>>

-----------------------------------------------------------------------------
(* emergencyPurge *)

emergencyPurge ==
    /\ At("idle")
    /\ Goto("sync", [NoJob EXCEPT !.call = "purge", !.after = "purge"])
    /\ UNCHANGED <<memory, observed, reported, last_pressure, reset>>
Purge ==
    /\ At("purge")
    /\ IF broker THEN Reclaim(Reclaimable, "Critical", "scratch") /\ UNCHANGED cached
       ELSE Evict(Unpinned) /\ Goto("scratch", job)
    /\ UNCHANGED <<leased, other, internal, observed, reported, last_pressure, reset>>

Step ==
    \/ Monitor \/ syncBrokerUsage \/ BrokerService \/ BrokerPercent
    \/ ReclaimDone \/ reclaimAssets \/ AskElastic \/ TakeElastic \/ ElasticDone
    \/ Read \/ ActBroker \/ ActAlone \/ Scratch \/ Record \/ Purge
Next ==
    \/ OthersAllocate \/ OthersRelease \/ InternalChanges
    \/ requestElastic \/ releaseLease \/ useCache
    \/ service \/ emergencyPurge \/ Step
Spec == Init /\ [][Next]_vars

(* The runtime, or the driver, services again and again, and the intervals *)
(* of monitor and broker pass.                                             *)
FairSpec ==
    /\ Spec
    /\ WF_vars(Step)
    /\ SF_vars(service)
    /\ SF_vars(Monitor /\ reported' = pressure)
    /\ SF_vars(BrokerService /\ pc' = "percent")

-----------------------------------------------------------------------------
(* Properties *)

(* Every variable has its type, and no byte is in two hands. *)
TypeOK ==
    /\ cached \in [Entry -> {"absent", "unpinned", "pinned"}]
    /\ leased \subseteq Lease
    /\ other \in 0 .. TOTAL /\ Free \in 0 .. TOTAL
    /\ observed \in [bytes : 0 .. TOTAL, reclaimable : 0 .. TOTAL]
    /\ observed.reclaimable <= observed.bytes
    /\ {reported, last_pressure, internal, job.current} \subseteq Level
    /\ job.target \in Nat /\ job.freed \in 0 .. TOTAL /\ job.ask \in Int
    /\ job.tried \subseteq {"assets", "application"}

(* README: "Scratch contents are reset on Critical entry".  When service() *)
(* or begin() leaves Critical as the level it has dealt with, the arena    *)
(* was reset since the level before was anything else.                     *)
CriticalEntryHandled == resetScratchOnCritical /\ last_pressure = "Critical" => reset

(* README: on Critical, "the broker can reclaim all eligible optional      *)
(* memory needed to recover".  After an entry to Critical, and after       *)
(* emergencyPurge, no unpinned asset is left and no lease that the floor   *)
(* would let go.  Without a broker only purgeUnpinnedOnCritical sees to    *)
(* that.                                                                   *)
NothingEligible == Unpinned = {} /\ \A l \in leased : SizeOf[l] > Surplus
Purges == broker \/ purgeUnpinnedOnCritical
TakesAll == job.call = "purge" \/ (CriticalEntry /\ Purges)
CriticalTakesAll == pc = "scratch" /\ TakesAll => NothingEligible

(* Critical is dealt with in full before it counts as dealt with.          *)
CriticalInFull == TypeOK /\ CriticalEntryHandled /\ CriticalTakesAll

(* README: it "still preserves" pinned assets, non-elastic live            *)
(* allocations and "configured client minimum-retained floors".            *)
PreservesTheRest ==
    [][Step => /\ \A e \in Entry : cached[e] = "pinned" => cached'[e] = "pinned"
               /\ other' = other
               /\ leased' # leased => Bytes(leased') >= minimumBytes]_vars

(* AutoMemory.cpp: "A reclaim callback can change cache usage              *)
(* immediately."  Whenever the policy computes a target from the broker's  *)
(* figures, or leaves, they are those of the cache.                        *)
UsageIsCurrent == broker /\ pc \in {"act", "purge", "record"} => observed = Usage

(* README: "a system that starts already in Warning/Critical pressure      *)
(* receives recovery immediately", and later too: if other tasks take and  *)
(* lease memory only between the calls (Interferes = FALSE) and the level  *)
(* stays Critical, then again and again nothing eligible is left.  (Were   *)
(* they to lease within a call, what the broker has just taken from the    *)
(* application could be leased again before the cache has given its part,  *)
(* and the cache filled again after the call: the two donors would never   *)
(* be empty together.)                                                     *)
CriticalRecovers == <>[](pressure = "Critical" /\ Purges) => []<>NothingEligible
=============================================================================
