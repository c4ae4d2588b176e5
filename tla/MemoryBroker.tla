---------------------------- MODULE MemoryBroker ----------------------------
(***************************************************************************)
(* NV3047Memory::MemoryBroker (src/src/NV3047_MemoryBroker.cpp) between    *)
(* begin() and end(), with the ElasticBuffer handles that its reclaim      *)
(* callback invalidates (src/src/NV3047_ElasticBuffer.h).                  *)
(*                                                                         *)
(* Client and lease tables are only touched inside portENTER_CRITICAL(mux),*)
(* so one critical section is one action.  Allocating, calling a client    *)
(* back and returning a block to the MemoryManager happen outside it, and  *)
(* other tasks run in between.  The manager is reduced to what the broker  *)
(* sees of it: a block that nobody has, or nullptr, at any request.        *)
(*                                                                         *)
(* Time is abstracted: refreshActivities may find any age, so it may leave *)
(* an activity alone or decay it as far as the code can; and of the elastic*)
(* leases that fit, any may be the least recently used one.                *)
(***************************************************************************)
EXTENDS Integers, FiniteSets, FiniteSetsExt

CONSTANTS
    Task,           \* tasks that call the broker
    MAX_CLIENTS,
    MAX_LEASES,
    Block,          \* blocks the manager can return
    RegionOf,       \* the region each block lies in
    NoBlock,        \* nullptr
    Handle,         \* ElasticBuffer objects
    ClientOf,       \* client_ of each handle
    NoHandle,       \* a lease that is not elastic
    Vacant,         \* a lease record with used = false
    Unused,         \* a client record with used = false
    Sizes,          \* request sizes
    Wanted,         \* regions that requests prefer
    Profiles,       \* BrokerClientConfig values clients register with
    Priorities,     \* values passed to setPriority
    Activities,     \* values passed to setActivity (noteActivity: Active)
    Reclaimers,     \* whether a callback is passed to setReclaimer
    Limits,         \* [minimum, soft, hard] passed to setLimits
    Reports,        \* [bytes, reclaimable, region] passed to setObservedUsage
    minimumReclaimBytes

Client == 1 .. MAX_CLIENTS
INVALID == 0
Slot == 1 .. MAX_LEASES
Region == {"Internal", "PSRAM", "DMA"}

Critical == 4       \* BrokerPriority, from Background = 0
Priority == 0 .. Critical
Idle == 0           \* BrokerActivity
Background == 1
Active == 2
Burst == 3
Activity == Idle .. Burst

Profile == [priority : Priority, minimum : Nat, soft : Nat, hard : Nat,
            reclaims : BOOLEAN, decays : BOOLEAN]
ASSUME BrokerConstants ==
    /\ MAX_CLIENTS \in Nat /\ MAX_LEASES \in Nat /\ minimumReclaimBytes \in Nat
    /\ RegionOf \in [Block -> Region]
    /\ NoBlock \notin Block
    /\ ClientOf \in [Handle -> Client]
    /\ NoHandle \notin Handle
    /\ Sizes \subseteq Nat \ {0}
    /\ Wanted \subseteq Region
    /\ Profiles \subseteq Profile
    /\ Priorities \subseteq Priority
    /\ Activities \subseteq Activity
    /\ Reclaimers \subseteq BOOLEAN
    /\ Limits \subseteq [minimum : Nat, soft : Nat, hard : Nat]
    /\ Reports \subseteq [bytes : Nat, reclaimable : Nat, region : Region]

VARIABLES
    clients,    \* clients_
    leases,     \* leases_
    live,       \* blocks the manager has given out to the broker
    data,       \* data_ of each ElasticBuffer
    pc,         \* where each task is
    job         \* arguments and locals of its call

vars == <<clients, leases, live, data, pc, job>>

ClientRecord ==
    [priority : Priority, activity : Activity, minimum : Nat, soft : Nat,
     hard : Nat, reclaims : BOOLEAN, decays : BOOLEAN, managed : Nat,
     observed : Nat, reclaimable : Nat, region : Region]
LeaseRecord == [block : Block, bytes : Nat, client : Client,
                owner : Handle \cup {NoHandle}]
ASSUME NullRecords == Vacant \notin LeaseRecord /\ Unused \notin ClientRecord

Op == {"none", "request", "ensure", "release", "drop", "sweep", "service"}
Job == [op : Op, client : Client \cup {INVALID}, bytes : Nat,
        region : Region \cup {"Auto"}, owner : Handle \cup {NoHandle},
        block : Block \cup {NoBlock}, pass : Nat, target : Int, freed : Nat,
        attempted : SUBSET Client, donor : Client \cup {INVALID}, ask : Nat,
        external : Nat, donorFreed : Nat, notify : Handle \cup {NoHandle}]
NoJob == [op |-> "none", client |-> INVALID, bytes |-> 0, region |-> "Auto",
          owner |-> NoHandle, block |-> NoBlock, pass |-> 0, target |-> 0,
          freed |-> 0, attempted |-> {}, donor |-> INVALID, ask |-> 0,
          external |-> 0, donorFreed |-> 0, notify |-> NoHandle]

-----------------------------------------------------------------------------
(* What the tables say *)

Registered(c) == c \in Client /\ clients[c] # Unused
totalBytes(c) == clients[c].managed + clients[c].observed
LeasesOf(c) == {s \in Slot : leases[s] # Vacant /\ leases[s].client = c}

regionCanSatisfy(donor, target) ==
    \/ target = "Auto"
    \/ donor = target
    \/ target = "Internal" /\ donor = "DMA"

(* The elastic leases of c that lie where memory is wanted. *)
ElasticLeases(c, r) ==
    {s \in LeasesOf(c) : /\ leases[s].owner # NoHandle
                         /\ regionCanSatisfy(RegionOf[leases[s].block], r)}
elasticReclaimable(c, r) ==
    SumFunction([s \in ElasticLeases(c, r) |-> leases[s].bytes])
ExternalAvailable(c, r) ==
    IF clients[c].reclaims /\ regionCanSatisfy(clients[c].region, r)
    THEN clients[c].reclaimable ELSE 0

(* A variant that forgets the minimum. *)
AboveMinimum_NoFloor(c) == totalBytes(c)
(* What can be had from c without taking it below its minimum. *)
AboveMinimum(c) == Max({0, totalBytes(c) - clients[c].minimum})
availableReclaim(c, r) ==
    Min({AboveMinimum(c), ExternalAvailable(c, r) + elasticReclaimable(c, r)})

importance(c) == clients[c].priority * 16 + clients[c].activity * 4
OverSoft(c) == clients[c].soft # 0 /\ totalBytes(c) > clients[c].soft

(* The hard limit allows c another n bytes.  The variant counts only the   *)
(* leases, not the observed bytes.                                         *)
Permitted_IgnoresObserved(c, n) ==
    clients[c].hard = 0 \/ clients[c].managed + n <= clients[c].hard
Permitted(c, n) ==
    \/ clients[c].hard = 0
    \/ totalBytes(c) + n <= clients[c].hard

-----------------------------------------------------------------------------
(* Donor choice *)

(* A variant that asks a donor again that has had its turn. *)
MayDonate_Again(c, j) ==
    /\ Registered(c) /\ c # j.client
    /\ clients[c].priority # Critical
    /\ availableReclaim(c, j.region) > 0
    /\ Registered(j.client) => importance(c) < importance(j.client)
MayDonate(c, j) ==
    /\ Registered(c)
    /\ c \notin j.attempted
    /\ c # j.client
    /\ clients[c].priority # Critical
    /\ availableReclaim(c, j.region) > 0
    /\ Registered(j.client) => importance(c) < importance(j.client)

(* Less important first, then over its soft limit, then with more to give, *)
(* then first in the table.                                                *)
PreferredTo(c, d, r) ==
    LET same == importance(c) = importance(d)
        soft == OverSoft(c) <=> OverSoft(d)
    IN \/ importance(c) < importance(d)
       \/ same /\ OverSoft(c) /\ ~OverSoft(d)
       \/ same /\ soft /\ availableReclaim(c, r) > availableReclaim(d, r)
       \/ same /\ soft /\ availableReclaim(c, r) = availableReclaim(d, r) /\ c < d

findBestDonor(c, j) ==
    /\ MayDonate(c, j)
    /\ \A d \in Client \ {c} : MayDonate(d, j) => PreferredTo(c, d, j.region)

(* How much one donor is asked for. *)
AskOf(c, j) ==
    LET available == availableReclaim(c, j.region)
        share == Min({j.target - j.freed, available})
    IN IF share < minimumReclaimBytes /\ available >= minimumReclaimBytes
       THEN minimumReclaimBytes ELSE share

(* refreshActivities: what an activity can have become. *)
Aged(r) ==
    {r.activity} \cup (IF r.activity = Burst THEN {Active} ELSE {})
                 \cup (IF r.decays THEN {Background, Idle} ELSE {})
refreshActivities ==
    \E f \in [Client -> Activity] :
        /\ \A c \in Client : IF Registered(c) THEN f[c] \in Aged(clients[c])
                             ELSE f[c] = Idle
        /\ clients' = [c \in Client |->
             IF Registered(c) THEN [clients[c] EXCEPT !.activity = f[c]] ELSE Unused]

-----------------------------------------------------------------------------
Init ==
    /\ clients = [c \in Client |-> Unused]
    /\ leases = [s \in Slot |-> Vacant]
    /\ live = {}
    /\ data = [h \in Handle |-> NoBlock]
    /\ pc = [t \in Task |-> "idle"]
    /\ job = [t \in Task |-> NoJob]

Goto(t, l) == pc' = [pc EXCEPT ![t] = l]
Become(t, l, j) == Goto(t, l) /\ job' = [job EXCEPT ![t] = j]
Return(t) == Become(t, "idle", NoJob)
tables == <<clients, leases>>
locals == <<pc, job>>
IsFirst(s, S) == s \in S /\ \A r \in S : s <= r

(* Client table operations: one critical section each, no locals.          *)
Quick(t) == pc[t] = "idle" /\ UNCHANGED <<leases, live, data, locals>>
Update(c, r) == clients' = [clients EXCEPT ![c] = r]

registerClient(t) ==
    /\ Quick(t)
    /\ \E c \in Client, p \in Profiles :
        /\ IsFirst(c, {d \in Client : clients[d] = Unused})
        /\ Update(c, [priority |-> p.priority, activity |-> Idle,
                      minimum |-> p.minimum, soft |-> p.soft, hard |-> p.hard,
                      reclaims |-> p.reclaims, decays |-> p.decays,
                      managed |-> 0, observed |-> 0, reclaimable |-> 0,
                      region |-> "PSRAM"])

unregisterClient(t) ==
    /\ Quick(t)
    /\ \E c \in Client :
        /\ Registered(c)
        /\ clients[c].managed = 0
        /\ clients[c].observed = 0
        /\ Update(c, Unused)

setPriority(t) ==
    /\ Quick(t)
    /\ \E c \in Client, p \in Priorities :
        Registered(c) /\ Update(c, [clients[c] EXCEPT !.priority = p])

setActivity(t) ==
    /\ Quick(t)
    /\ \E c \in Client, a \in Activities :
        Registered(c) /\ Update(c, [clients[c] EXCEPT !.activity = a])

setObservedUsage(t) ==
    /\ Quick(t)
    /\ \E c \in Client, u \in Reports :
        /\ Registered(c)
        /\ Update(c, [clients[c] EXCEPT
                !.observed = u.bytes,
                !.reclaimable = Min({u.reclaimable, u.bytes}),
                !.region = u.region])

setReclaimer(t) ==
    /\ Quick(t)
    /\ \E c \in Client, b \in Reclaimers :
        Registered(c) /\ Update(c, [clients[c] EXCEPT !.reclaims = b])

setLimits(t) ==
    /\ Quick(t)
    /\ \E c \in Client, l \in Limits :
        /\ Registered(c)
        /\ l.hard # 0 => l.minimum <= l.hard
        /\ Update(c, [clients[c] EXCEPT !.minimum = l.minimum,
                                        !.soft = l.soft, !.hard = l.hard])

-----------------------------------------------------------------------------
(* request and requestElastic *)

(* The test of the hard limit. *)
request(t) ==
    /\ pc[t] = "idle"
    /\ \E c \in Client, n \in Sizes, r \in Wanted :
        /\ Registered(c)
        /\ Permitted(c, n)
        /\ Become(t, "allocate", [NoJob EXCEPT !.op = "request", !.client = c,
                                    !.bytes = n, !.region = r])
    /\ UNCHANGED <<tables, live, data>>

(* An ElasticBuffer is used by one task at a time; the callback may clear  *)
(* its data_ from another.                                                 *)
InUse(h) == \E t \in Task : job[t].op \in {"ensure", "drop"} /\ job[t].owner = h
resident(h) == \E s \in LeasesOf(ClientOf[h]) : leases[s].block = data[h]

(* ensure() with no resident block: data_ is cleared, a request begins. *)
ensure(t) ==
    /\ pc[t] = "idle"
    /\ \E h \in Handle, n \in Sizes, r \in Wanted :
        /\ ~InUse(h)
        /\ ~resident(h)
        /\ Registered(ClientOf[h])
        /\ Permitted(ClientOf[h], n)
        /\ data' = [data EXCEPT ![h] = NoBlock]
        /\ Become(t, "allocate", [NoJob EXCEPT !.op = "ensure", !.owner = h,
                        !.client = ClientOf[h], !.bytes = n, !.region = r])
    /\ UNCHANGED <<tables, live>>

(* ensure() or data() on a resident block: touch makes its client active. *)
touch(t) ==
    /\ Quick(t)
    /\ \E h \in Handle :
        /\ ~InUse(h)
        /\ resident(h)
        /\ Registered(ClientOf[h])
        /\ Update(ClientOf[h], [clients[ClientOf[h]] EXCEPT !.activity = Active])

(* ensure() that may not ask, or data(), on a block that was reclaimed. *)
forget(t) ==
    /\ pc[t] = "idle"
    /\ \E h \in Handle :
        /\ ~InUse(h)
        /\ ~resident(h)
        /\ data' = [data EXCEPT ![h] = NoBlock]
    /\ UNCHANGED <<tables, live, locals>>

(* manager_->allocate returns a block, ... *)
Allocated(t) ==
    /\ pc[t] = "allocate"
    /\ \E b \in Block \ live :
        /\ live' = live \cup {b}
        /\ Become(t, "record", [job[t] EXCEPT !.block = b])
    /\ UNCHANGED <<tables, data>>

(* ... or fails: in a bounded number of passes memory is reclaimed, for    *)
(* the deficit of the largest block, a quarter of the request or the       *)
(* configured minimum, whichever is most.                                  *)
Deficits(n) == {Max({minimumReclaimBytes, d, n \div 4}) : d \in 0 .. n}
AllocationFails(t) ==
    /\ pc[t] = "allocate"
    /\ IF job[t].pass < MAX_CLIENTS
       THEN \E g \in Deficits(job[t].bytes) :
                IF g = 0 THEN Return(t)
                ELSE Become(t, "refresh", [job[t] EXCEPT !.target = g,
                                             !.freed = 0, !.attempted = {}])
       ELSE Return(t)
    /\ UNCHANGED <<tables, live, data>>

(* The lease is entered if the client is still there and a record free. *)
CanRecord(c) == Registered(c) /\ \E s \in Slot : leases[s] = Vacant
Record(t) ==
    LET j == job[t] IN
    /\ pc[t] = "record"
    /\ CanRecord(j.client)
    /\ \E s \in Slot :
        /\ IsFirst(s, {r \in Slot : leases[r] = Vacant})
        /\ leases' = [leases EXCEPT ![s] =
             [block |-> j.block, bytes |-> j.bytes, client |-> j.client,
              owner |-> j.owner]]
    /\ Update(j.client, [clients[j.client] EXCEPT !.managed = @ + j.bytes,
                                                  !.activity = Active])
    /\ IF j.op = "ensure" THEN Goto(t, "assign") /\ UNCHANGED job ELSE Return(t)
    /\ UNCHANGED <<live, data>>

(* A variant that forgets the block the manager has given. *)
RecordFails_Forgets(t) ==
    /\ pc[t] = "record"
    /\ ~CanRecord(job[t].client)
    /\ Return(t)
    /\ UNCHANGED <<tables, live, data>>
RecordFails(t) ==
    /\ pc[t] = "record"
    /\ ~CanRecord(job[t].client)
    /\ live' = live \ {job[t].block}
    /\ Return(t)
    /\ UNCHANGED <<tables, data>>

(* Back in ensure(): data_ = pointer. *)
Assign(t) ==
    /\ pc[t] = "assign"
    /\ data' = [data EXCEPT ![job[t].owner] = job[t].block]
    /\ Return(t)
    /\ UNCHANGED <<tables, live>>

-----------------------------------------------------------------------------
(* reclaimFor, for a request or for service() *)

(* service() ages the activities; under pressure it reclaims some share of *)
(* what can be reclaimed, from anybody.                                    *)
service(t) ==
    /\ pc[t] = "idle"
    /\ refreshActivities
    /\ LET all == SumFunction([c \in {d \in Client : Registered(d)} |->
                                  availableReclaim(c, "Auto")])
       IN \/ UNCHANGED locals
          \/ \E g \in 1 .. all :
               Become(t, "refresh", [NoJob EXCEPT !.op = "service", !.target = g])
    /\ UNCHANGED <<leases, live, data>>

Refresh(t) ==
    /\ pc[t] = "refresh"
    /\ refreshActivities
    /\ Goto(t, "donor")
    /\ UNCHANGED <<leases, live, data, job>>

(* reclaimFor returns: the request tries again, if anything was freed. *)
ReclaimReturns(t, j) ==
    IF j.op = "service" \/ j.freed = 0
    THEN Return(t)
    ELSE Become(t, "allocate", [j EXCEPT !.pass = @ + 1, !.attempted = {},
                    !.donor = INVALID, !.freed = 0, !.target = 0])

Donor(t) ==
    /\ pc[t] = "donor"
    /\ \/ \E c \in Client :
            /\ findBestDonor(c, job[t])
            /\ LET ask == AskOf(c, job[t])
                   ext == Min({ask, ExternalAvailable(c, job[t].region)})
               IN Become(t, IF ext > 0 THEN "callback" ELSE "elastic",
                         [job[t] EXCEPT !.donor = c, !.ask = ask, !.external = ext,
                                        !.attempted = @ \cup {c}])
       \/ /\ \A c \in Client : ~MayDonate(c, job[t])
          /\ ReclaimReturns(t, job[t])
    /\ UNCHANGED <<tables, live, data>>

(* The donor is done with. *)
NextDonor(t, j) ==
    LET k == [j EXCEPT !.freed = @ + j.donorFreed, !.donorFreed = 0, !.ask = 0,
                       !.external = 0, !.donor = INVALID]
    IN IF k.freed < k.target THEN Become(t, "donor", k) ELSE ReclaimReturns(t, k)
MoreFrom(t, j) ==
    IF j.donorFreed < j.ask THEN Become(t, "elastic", j) ELSE NextDonor(t, j)

(* The client's reclaim callback reports what it freed; it is credited up  *)
(* to what it was asked for.  The limit of that was computed when the donor*)
(* was chosen.                                                             *)
Callback(t) ==
    LET j == job[t] IN
    /\ pc[t] = "callback"
    /\ \E n \in 0 .. j.external :
        /\ IF Registered(j.donor)
           THEN Update(j.donor, [clients[j.donor] EXCEPT
                    !.observed = Max({0, @ - n}), !.reclaimable = Max({0, @ - n})])
           ELSE UNCHANGED clients
        /\ MoreFrom(t, [j EXCEPT !.donorFreed = n])
    /\ UNCHANGED <<leases, live, data>>

(* A variant that leaves the total as it was. *)
RemoveLease_KeepsTotal(s) ==
    leases' = [leases EXCEPT ![s] = Vacant] /\ UNCHANGED clients
(* The lease leaves the table and its client's total. *)
RemoveLease(s) ==
    LET l == leases[s] IN
    /\ leases' = [leases EXCEPT ![s] = Vacant]
    /\ IF Registered(l.client) /\ clients[l.client].managed >= l.bytes
       THEN Update(l.client, [clients[l.client] EXCEPT !.managed = @ - l.bytes])
       ELSE UNCHANGED clients

(* reclaimElastic: a lease that fits above the donor's minimum. *)
Reclaimable(c, r) ==
    {s \in ElasticLeases(c, r) :
        Registered(c) /\ leases[s].bytes <= AboveMinimum(c)}
Elastic(t) ==
    LET j == job[t] IN
    /\ pc[t] = "elastic"
    /\ \/ \E s \in Reclaimable(j.donor, j.region) :
            /\ RemoveLease(s)
            /\ Become(t, "notify",
                 [j EXCEPT !.block = leases[s].block, !.notify = leases[s].owner,
                           !.donorFreed = @ + leases[s].bytes])
       \/ /\ Reclaimable(j.donor, j.region) = {}
          /\ NextDonor(t, j)
          /\ UNCHANGED tables
    /\ UNCHANGED <<live, data>>

-----------------------------------------------------------------------------
(* Giving blocks back *)

(* A variant that leaves the owner's pointer. *)
Notify_KeepsData(t) ==
    /\ pc[t] = "notify"
    /\ Goto(t, "giveback")
    /\ UNCHANGED <<tables, live, data, job>>
(* handleReclaimed, the callback of every elastic lease. *)
Notify(t) ==
    LET h == job[t].notify IN
    /\ pc[t] = "notify"
    /\ data' = IF data[h] = job[t].block THEN [data EXCEPT ![h] = NoBlock] ELSE data
    /\ Goto(t, "giveback")
    /\ UNCHANGED <<tables, live, job>>

(* manager_->release(pointer), and what the caller does next. *)
GiveBack(t) ==
    LET j == [job[t] EXCEPT !.block = NoBlock, !.notify = NoHandle] IN
    /\ pc[t] = "giveback"
    /\ live' = live \ {job[t].block}
    /\ CASE j.op = "release" -> Return(t)
         [] j.op = "drop" -> Become(t, "clear", j)
         [] j.op = "sweep" -> Become(t, "sweep", j)
         [] OTHER -> MoreFrom(t, j)
    /\ UNCHANGED <<tables, data>>

LeaseAt(c, b) == {s \in LeasesOf(c) : leases[s].block = b}
TakeBack(t, s, j) ==
    /\ RemoveLease(s)
    /\ Become(t, IF leases[s].owner = NoHandle THEN "giveback" ELSE "notify",
              [j EXCEPT !.block = leases[s].block, !.notify = leases[s].owner])

(* release(client, pointer) by the application that requested the block *)
release(t) ==
    /\ pc[t] = "idle"
    /\ \E c \in Client, b \in Block : \E s \in LeaseAt(c, b) :
        /\ leases[s].owner = NoHandle
        /\ TakeBack(t, s, [NoJob EXCEPT !.op = "release", !.client = c])
    /\ UNCHANGED <<live, data>>

(* ElasticBuffer::release: the broker's release, then data_ is cleared. *)
DropHandle(t) ==
    /\ pc[t] = "idle"
    /\ \E h \in Handle :
        LET j == [NoJob EXCEPT !.op = "drop", !.owner = h, !.client = ClientOf[h]]
        IN /\ ~InUse(h)
           /\ data[h] # NoBlock
           /\ \/ \E s \in LeaseAt(ClientOf[h], data[h]) : TakeBack(t, s, j)
              \/ ~resident(h) /\ Become(t, "clear", j) /\ UNCHANGED tables
    /\ UNCHANGED <<live, data>>

Clear(t) ==
    /\ pc[t] = "clear"
    /\ data' = [data EXCEPT ![job[t].owner] = NoBlock]
    /\ Return(t)
    /\ UNCHANGED <<tables, live>>

(* releaseClientAllocations: find a lease in one critical section, release *)
(* its pointer in another, until there is none.                            *)
releaseClientAllocations(t) ==
    /\ pc[t] = "idle"
    /\ \E c \in Client : LeasesOf(c) # {} /\
        Become(t, "sweep", [NoJob EXCEPT !.op = "sweep", !.client = c])
    /\ UNCHANGED <<tables, live, data>>

Sweep(t) ==
    LET mine == LeasesOf(job[t].client) IN
    /\ pc[t] = "sweep"
    /\ IF mine = {} THEN Return(t)
       ELSE \E s \in mine : /\ IsFirst(s, mine)
                            /\ Become(t, "sweep-release",
                                      [job[t] EXCEPT !.block = leases[s].block])
    /\ UNCHANGED <<tables, live, data>>

SweepRelease(t) ==
    LET found == LeaseAt(job[t].client, job[t].block) IN
    /\ pc[t] = "sweep-release"
    /\ \/ \E s \in found : TakeBack(t, s, job[t])
       \/ found = {} /\ Return(t) /\ UNCHANGED tables
    /\ UNCHANGED <<live, data>>

-----------------------------------------------------------------------------
Step(t) == \/ Allocated(t) \/ AllocationFails(t) \/ Record(t) \/ RecordFails(t)
           \/ Assign(t) \/ Refresh(t) \/ Donor(t) \/ Callback(t) \/ Elastic(t)
           \/ Notify(t) \/ GiveBack(t) \/ Clear(t) \/ Sweep(t) \/ SweepRelease(t)
Start(t) == \/ registerClient(t) \/ unregisterClient(t) \/ setPriority(t)
            \/ setActivity(t) \/ setObservedUsage(t) \/ setLimits(t)
            \/ setReclaimer(t)
            \/ request(t) \/ ensure(t) \/ forget(t) \/ touch(t) \/ service(t) \/ release(t)
            \/ DropHandle(t) \/ releaseClientAllocations(t)

Next == \E t \in Task : Start(t) \/ Step(t)

Spec == Init /\ [][Next]_vars
FairSpec == Spec /\ \A t \in Task : WF_vars(Step(t))

-----------------------------------------------------------------------------
(* Properties *)

(* Every variable has its type. *)
TypeOK ==
    /\ clients \in [Client -> ClientRecord \cup {Unused}]
    /\ leases \in [Slot -> LeaseRecord \cup {Vacant}]
    /\ live \subseteq Block
    /\ data \in [Handle -> Block \cup {NoBlock}]
    /\ pc \in [Task -> {"idle", "allocate", "record", "assign", "refresh",
                        "donor", "callback", "elastic", "notify", "giveback",
                        "clear", "sweep", "sweep-release"}]
    /\ job \in [Task -> Job]

(* A block out of the table that a running call has to record or return. *)
Carries(t, b) == pc[t] \in {"record", "notify", "giveback"} /\ job[t].block = b

(* Every block the broker has from the manager is in exactly one place: in *)
(* one lease, or in the hands of one running call.  None is lost and none  *)
(* is returned twice, whatever calls overlap.                              *)
EveryBlockHasOneOwner ==
    /\ \A b \in Block :
        LET places == {s \in Slot : leases[s] # Vacant /\ leases[s].block = b}
            tasks == {t \in Task : Carries(t, b)}
        IN Cardinality(places) + Cardinality(tasks) = IF b \in live THEN 1 ELSE 0

(* validate(): each lease belongs to a registered client, and a client's   *)
(* managed bytes are the sum of its leases.                                *)
LeaseAccounting ==
    /\ \A s \in Slot : leases[s] # Vacant => Registered(leases[s].client)
    /\ \A c \in Client : Registered(c) =>
        /\ clients[c].managed =
             SumFunction([s \in LeasesOf(c) |-> leases[s].bytes])
        /\ clients[c].reclaimable <= clients[c].observed

(* The broker's own test of itself, validate(), with the types.            *)
BrokerInvariant == TypeOK /\ LeaseAccounting

(* README: a hard limit is a limit.  No step that gives a client a lease   *)
(* takes its managed and observed bytes above its hard limit.              *)
HardLimitKept ==
    [][\A c \in Client :
        /\ Registered(c)
        /\ Registered(c)'
        /\ clients'[c].managed > clients[c].managed
        /\ clients'[c].hard # 0
        => totalBytes(c)' <= clients'[c].hard]_vars

(* The steps that take memory from a donor.                                *)
Reclaiming(t) == pc[t] \in {"callback", "elastic"}

(* README: reclaiming preserves "configured client minimum-retained        *)
(* floors".  A client is never reclaimed below its minimum.                *)
FloorKept ==
    \A t \in Task, c \in Client :
        /\ Reclaiming(t) /\ ~UNCHANGED pc[t]
        /\ Registered(c)
        /\ totalBytes(c)' < totalBytes(c)
        => totalBytes(c)' >= clients[c].minimum

(* README: Critical clients (the driver's framebuffers) and a requester's  *)
(* own memory are not reclaimed, nor memory of a client at least as        *)
(* important as the requester.  Here: at the step that takes the memory,   *)
(* not when the donor was chosen.                                          *)
ProtectedClientsKept ==
    \A t \in Task, c \in Client :
        /\ Reclaiming(t) /\ ~UNCHANGED pc[t]
        /\ Registered(c)
        /\ totalBytes(c)' < totalBytes(c)
        => /\ clients[c].priority # Critical
           /\ c # job[t].client
           /\ Registered(job[t].client) =>
                importance(c) < importance(job[t].client)

(* What a reclaim may never do, whichever donors it chose and however much *)
(* their callbacks freed.                                                  *)
DonorsRespected == [][FloorKept /\ ProtectedClientsKept]_vars

(* README: "callers do not retain a dangling pointer"; "every pointer has  *)
(* exactly one owner".  The block in a buffer's data_ is leased to that    *)
(* buffer, unless the call that has just reclaimed it is about to tell the *)
(* buffer so; and it is not leased to another, whether or not it was       *)
(* reclaimed meanwhile.                                                    *)
Taken == {s \in Slot : leases[s] # Vacant}
OwnLease(h) == \E s \in Taken : leases[s].block = data[h] /\ leases[s].owner = h
ToldSoon(h) == \E t \in Task :
    pc[t] = "notify" /\ job[t].block = data[h] /\ job[t].notify = h
HandleOwnsItsBlock ==
    \A h \in Handle :
        /\ data[h] # NoBlock => OwnLease(h) \/ ToldSoon(h)
        /\ \A s \in LeaseAt(ClientOf[h], data[h]) : leases[s].owner = h

(* Every broker call returns: reclaim passes are bounded and a donor is    *)
(* asked once per pass, even if callbacks never free anything.             *)
(* releaseClientAllocations is left out: it goes on as long as others      *)
(* request for the client it is releasing.                                 *)
CallsReturn ==
    \A t \in Task :
        pc[t] # "idle" /\ job[t].op # "sweep" ~> pc[t] = "idle"
=============================================================================
