------------------------- MODULE MemoryBroker_proofs -------------------------
(***************************************************************************)
(* Theorems about MemoryBroker, for any number of tasks, clients, leases   *)
(* and blocks, and for whatever limits and sizes.                          *)
(*                                                                         *)
(* Inv is about leases and the blocks that calls carry between two critical*)
(* sections: no interleaving loses a block or returns one twice.  Whom the *)
(* broker takes memory from, and how much, is irrelevant to it.            *)
(*                                                                         *)
(* BrokerInv adds the locals of the calls and the totals of the clients:   *)
(* the tables stay as validate() wants them.                               *)
(*                                                                         *)
(* What a call tested in one critical section need not hold in its next    *)
(* one, unless its task is Alone: then CallsFit and HandlesKept carry it   *)
(* over, and limits, donors and handles are as the README promises.        *)
(***************************************************************************)
EXTENDS MemoryBroker, Sums_proofs

Carrying(l) == l \in {"record", "notify", "giveback"}
Carriers == {t \in Task : Carrying(pc[t])}

JobShape(j) ==
    j \in [op : Op, client : Client \cup {INVALID}, bytes : Nat, region : {j.region},
           owner : Handle \cup {NoHandle}, block : Block \cup {NoBlock},
           pass : {j.pass}, target : {j.target}, freed : {j.freed},
           attempted : {j.attempted}, donor : {j.donor}, ask : {j.ask},
           external : {j.external}, donorFreed : {j.donorFreed}, notify : {j.notify}]
Typed ==
    /\ leases \in [Slot -> LeaseRecord \cup {Vacant}]
    /\ live \subseteq Block
    /\ pc = [t \in Task |-> pc[t]]
    /\ job = [t \in Task |-> job[t]]
    /\ \A t \in Task : JobShape(job[t])
LeasedOnce ==
    \A r, s \in Taken : leases[r].block = leases[s].block => r = s
CarriedOnce ==
    \A t, u \in Carriers : job[t].block = job[u].block => t = u
NotBoth ==
    \A s \in Taken, t \in Carriers : leases[s].block # job[t].block
FromTheManager ==
    /\ \A s \in Taken : leases[s].block \in live
    /\ \A t \in Carriers : job[t].block \in live
NoneLost ==
    \A b \in live : \/ \E s \in Taken : leases[s].block = b
                    \/ \E t \in Carriers : job[t].block = b
Inv == /\ Typed /\ LeasedOnce /\ CarriedOnce /\ NotBoth /\ FromTheManager /\ NoneLost

-----------------------------------------------------------------------------
(* What a task may do to the blocks: nothing, take one from the manager,   *)
(* enter the one it carries, take one out of its lease, or return it.      *)

(* A step that moves no block keeps the invariant.                         *)
LEMMA Neutral ==
  ASSUME Inv, NEW t \in Task, NEW l, NEW j, Become(t, l, j), UNCHANGED <<leases, live>>,
         JobShape(j), Carrying(pc[t]) <=> Carrying(l),
         Carrying(l) => j.block = job[t].block
  PROVE  Inv'
<1>1. /\ pc'[t] = l /\ job'[t] = j /\ Taken' = Taken
      /\ \A u \in Task \ {t} : pc'[u] = pc[u] /\ job'[u] = job[u]
  BY DEF Become, Goto, Inv, Typed, Taken
<1>2. Carriers' = Carriers
  BY <1>1 DEF Carriers
<1>3. \A u \in Carriers : job'[u].block = job[u].block
  BY <1>1 DEF Carriers
<1>4. Typed'
  BY <1>1 DEF Inv, Typed, Become, Goto
<1>5. LeasedOnce' BY <1>1 DEF Inv, LeasedOnce
<1>6. CarriedOnce' BY <1>2, <1>3 DEF Inv, CarriedOnce
<1>7. NotBoth' BY <1>1, <1>2, <1>3 DEF Inv, NotBoth
<1>8. FromTheManager' BY <1>1, <1>2, <1>3 DEF Inv, FromTheManager
<1>9. NoneLost' BY <1>1, <1>2, <1>3 DEF Inv, NoneLost
<1> QED BY <1>4, <1>5, <1>6, <1>7, <1>8, <1>9 DEF Inv

(* A call takes a block that nobody had.                                   *)
LEMMA Takes ==
  ASSUME Inv, NEW t \in Task, NEW j, NEW b \in Block \ live, Become(t, "record", j),
         JobShape(j), j.block = b, ~Carrying(pc[t]), live' = live \cup {b},
         UNCHANGED leases
  PROVE  Inv'
<1>1. /\ pc'[t] = "record" /\ job'[t] = j /\ Taken' = Taken
      /\ \A u \in Task \ {t} : pc'[u] = pc[u] /\ job'[u] = job[u]
  BY DEF Become, Goto, Inv, Typed, Taken
<1>2. Carriers' = Carriers \cup {t} /\ t \notin Carriers
  BY <1>1 DEF Carriers, Carrying
<1>3. job'[t].block = b /\ \A u \in Carriers : job'[u].block = job[u].block
  BY <1>1, <1>2 DEF Carriers
<1>4. Typed'
  BY <1>1 DEF Inv, Typed, Become, Goto
<1>5. LeasedOnce' BY <1>1 DEF Inv, LeasedOnce
<1>6. CarriedOnce' BY <1>2, <1>3 DEF Inv, CarriedOnce, FromTheManager
<1>7. NotBoth' BY <1>1, <1>2, <1>3 DEF Inv, NotBoth, FromTheManager
<1>8. FromTheManager' BY <1>1, <1>2, <1>3 DEF Inv, FromTheManager
<1>9. NoneLost' BY <1>1, <1>2, <1>3 DEF Inv, NoneLost
<1> QED BY <1>4, <1>5, <1>6, <1>7, <1>8, <1>9 DEF Inv

(* A call gives back the block it carries.                                 *)
LEMMA Returns ==
  ASSUME Inv, NEW t \in Task, NEW l, NEW j, Become(t, l, j),
         JobShape(j), Carrying(pc[t]), ~Carrying(l), live' = live \ {job[t].block},
         UNCHANGED leases
  PROVE  Inv'
<1>1. /\ pc'[t] = l /\ job'[t] = j /\ Taken' = Taken
      /\ \A u \in Task \ {t} : pc'[u] = pc[u] /\ job'[u] = job[u]
  BY DEF Become, Goto, Inv, Typed, Taken
<1>2. Carriers' = Carriers \ {t} /\ t \in Carriers
  BY <1>1 DEF Carriers
<1>3. \A u \in Carriers' : u # t /\ job'[u].block = job[u].block
  BY <1>1, <1>2 DEF Carriers
<1>4. Typed'
  BY <1>1 DEF Inv, Typed, Become, Goto
<1>5. LeasedOnce' BY <1>1 DEF Inv, LeasedOnce
<1>6. CarriedOnce' BY <1>2, <1>3 DEF Inv, CarriedOnce
<1>7. NotBoth' BY <1>1, <1>2, <1>3 DEF Inv, NotBoth
<1>8. FromTheManager' BY <1>1, <1>2, <1>3 DEF Inv, FromTheManager, NotBoth, CarriedOnce
<1>9. NoneLost' BY <1>1, <1>2, <1>3 DEF Inv, NoneLost
<1> QED BY <1>4, <1>5, <1>6, <1>7, <1>8, <1>9 DEF Inv

(* A call enters the block it carries in a lease that was vacant.          *)
LEMMA Enters ==
  ASSUME Inv, NEW t \in Task, NEW l, NEW j, Become(t, l, j),
         JobShape(j), Carrying(pc[t]), ~Carrying(l), UNCHANGED live,
         NEW s \in Slot \ Taken, NEW r \in LeaseRecord, r.block = job[t].block,
         leases' = [leases EXCEPT ![s] = r]
  PROVE  Inv'
<1>1. /\ pc'[t] = l /\ job'[t] = j
      /\ \A u \in Task \ {t} : pc'[u] = pc[u] /\ job'[u] = job[u]
      /\ leases'[s] = r /\ \A q \in Slot \ {s} : leases'[q] = leases[q]
  BY DEF Become, Goto, Inv, Typed
<1>2. Carriers' = Carriers \ {t} /\ t \in Carriers
  BY <1>1 DEF Carriers
<1>3. \A u \in Carriers' : u # t /\ job'[u].block = job[u].block
  BY <1>1, <1>2 DEF Carriers
<1>4. Taken' = Taken \cup {s} /\ \A q \in Taken : q # s /\ leases'[q] = leases[q]
  BY <1>1, NullRecords DEF Taken
<1>5. Typed'
  BY <1>1 DEF Inv, Typed, Become, Goto
<1>6. LeasedOnce' BY <1>1, <1>2, <1>4 DEF Inv, LeasedOnce, NotBoth
<1>7. CarriedOnce' BY <1>2, <1>3 DEF Inv, CarriedOnce
<1>8. NotBoth' BY <1>1, <1>2, <1>3, <1>4 DEF Inv, NotBoth, CarriedOnce
<1>9. FromTheManager' BY <1>1, <1>2, <1>3, <1>4 DEF Inv, FromTheManager
<1>10. NoneLost' BY <1>1, <1>2, <1>3, <1>4 DEF Inv, NoneLost
<1> QED BY <1>5, <1>6, <1>7, <1>8, <1>9, <1>10 DEF Inv

(* A call takes a block out of its lease, to carry it.                     *)
LEMMA Leaves ==
  ASSUME Inv, NEW t \in Task, NEW l, NEW j, Become(t, l, j),
         JobShape(j), ~Carrying(pc[t]), Carrying(l), UNCHANGED live,
         NEW s \in Taken, j.block = leases[s].block,
         leases' = [leases EXCEPT ![s] = Vacant]
  PROVE  Inv'
<1>1. /\ pc'[t] = l /\ job'[t] = j
      /\ \A u \in Task \ {t} : pc'[u] = pc[u] /\ job'[u] = job[u]
      /\ leases'[s] = Vacant /\ \A q \in Slot \ {s} : leases'[q] = leases[q]
  BY DEF Become, Goto, Inv, Typed, Taken
<1>2. Carriers' = Carriers \cup {t} /\ t \notin Carriers
  BY <1>1 DEF Carriers
<1>3. \A u \in Carriers : u # t /\ job'[u].block = job[u].block
  BY <1>1, <1>2 DEF Carriers
<1>4. Taken' = Taken \ {s} /\ \A q \in Taken' : q # s /\ leases'[q] = leases[q]
  BY <1>1 DEF Taken
<1>5. Typed'
  BY <1>1 DEF Inv, Typed, Become, Goto
<1>6. LeasedOnce' BY <1>4 DEF Inv, LeasedOnce
<1>7. CarriedOnce' BY <1>1, <1>2, <1>3 DEF Inv, CarriedOnce, NotBoth
<1>8. NotBoth' BY <1>1, <1>2, <1>3, <1>4 DEF Inv, NotBoth, LeasedOnce
<1>9. FromTheManager' BY <1>1, <1>2, <1>3, <1>4 DEF Inv, FromTheManager
<1>10. NoneLost' BY <1>1, <1>2, <1>3, <1>4 DEF Inv, NoneLost
<1> QED BY <1>5, <1>6, <1>7, <1>8, <1>9, <1>10 DEF Inv

-----------------------------------------------------------------------------
(* Where a call goes on from *)

(* An idle task has the locals of no call.                                 *)
LEMMA NoJobShape == JobShape(NoJob)
  BY DEF JobShape, NoJob, Op, INVALID

(* Where reclaim returns to, no block is in hand.                          *)
LEMMA ReclaimGoesOn ==
  ASSUME NEW t \in Task, NEW j, JobShape(j), ReclaimReturns(t, j)
  PROVE  \E l, k : Become(t, l, k) /\ JobShape(k) /\ ~Carrying(l)
<1>1. CASE Return(t)
  BY <1>1, NoJobShape DEF Return, Carrying
<1>2. ASSUME NEW k, k = [j EXCEPT !.pass = @ + 1, !.attempted = {}, !.donor = INVALID,
                                  !.freed = 0, !.target = 0],
             Become(t, "allocate", k)
      PROVE  \E l, m : Become(t, l, m) /\ JobShape(m) /\ ~Carrying(l)
  <2>1. JobShape(k)
    BY <1>2 DEF JobShape
  <2> QED BY <1>2, <2>1 DEF Carrying
<1> QED BY <1>1, <1>2 DEF ReclaimReturns

(* Nor where it looks for the next donor,                                  *)
LEMMA NextDonorGoesOn ==
  ASSUME NEW t \in Task, NEW j, JobShape(j), NextDonor(t, j)
  PROVE  \E l, k : Become(t, l, k) /\ JobShape(k) /\ ~Carrying(l)
<1> DEFINE k == [j EXCEPT !.freed = @ + j.donorFreed, !.donorFreed = 0, !.ask = 0,
                          !.external = 0, !.donor = INVALID]
<1>1. JobShape(k)
  BY DEF JobShape
<1>2. Become(t, "donor", k) \/ ReclaimReturns(t, k)
  BY DEF NextDonor
<1> HIDE DEF k
<1>3. CASE Become(t, "donor", k)
  BY <1>1, <1>3 DEF Carrying
<1>4. CASE ReclaimReturns(t, k)
  BY <1>1, <1>4, ReclaimGoesOn
<1> QED BY <1>2, <1>3, <1>4

(* nor where it asks the same donor for more.                              *)
LEMMA DonorGoesOn ==
  ASSUME NEW t \in Task, NEW j, JobShape(j), MoreFrom(t, j)
  PROVE  \E l, k : Become(t, l, k) /\ JobShape(k) /\ ~Carrying(l)
<1>1. CASE Become(t, "elastic", j)
  BY <1>1 DEF Carrying
<1>2. CASE NextDonor(t, j)
  BY <1>2, NextDonorGoesOn
<1> QED BY <1>1, <1>2 DEF MoreFrom

-----------------------------------------------------------------------------
(* One lemma per action or group of actions *)

(* A change of the client table alone concerns no block.                   *)
LEMMA InvTables ==
  ASSUME Inv, UNCHANGED <<leases, live, pc, job>>
  PROVE  Inv'
<1>1. Taken' = Taken /\ Carriers' = Carriers
  BY DEF Taken, Carriers
<1>2. Typed'
  BY DEF Inv, Typed
<1>3. LeasedOnce' /\ CarriedOnce' /\ NotBoth'
  BY <1>1 DEF Inv, LeasedOnce, CarriedOnce, NotBoth
<1>4. FromTheManager' /\ NoneLost'
  BY <1>1 DEF Inv, FromTheManager, NoneLost
<1> QED BY <1>2, <1>3, <1>4 DEF Inv

(* Calls that neither take nor return a block when they begin. *)
LEMMA InvBegins ==
  ASSUME Inv, NEW t \in Task, request(t) \/ ensure(t) \/ service(t)
                               \/ releaseClientAllocations(t)
  PROVE  Inv'
<1>1. pc[t] = "idle" /\ UNCHANGED <<leases, live>>
  BY DEF request, ensure, service, releaseClientAllocations, tables
<1>2. ASSUME NEW l, NEW j, Become(t, l, j), JobShape(j), l \in {"allocate", "refresh", "sweep"}
      PROVE  Inv'
  BY <1>1, <1>2, Neutral DEF Carrying
<1>3. CASE request(t)
  <2>1. PICK c \in Client, n \in Sizes, r \in Wanted :
          Become(t, "allocate", [NoJob EXCEPT !.op = "request", !.client = c,
                                              !.bytes = n, !.region = r])
    BY <1>3 DEF request
  <2>2. n \in Nat
    BY BrokerConstants
  <2>3. JobShape([NoJob EXCEPT !.op = "request", !.client = c, !.bytes = n, !.region = r])
    BY <2>2, NoJobShape DEF JobShape, Op
  <2> QED BY <1>2, <2>1, <2>3
<1>4. CASE ensure(t)
  <2>1. PICK h \in Handle, n \in Sizes, r \in Wanted :
          Become(t, "allocate", [NoJob EXCEPT !.op = "ensure", !.owner = h,
                        !.client = ClientOf[h], !.bytes = n, !.region = r])
    BY <1>4 DEF ensure
  <2>2. ClientOf[h] \in Client /\ n \in Nat
    BY BrokerConstants
  <2>3. JobShape([NoJob EXCEPT !.op = "ensure", !.owner = h,
                        !.client = ClientOf[h], !.bytes = n, !.region = r])
    BY <2>2, NoJobShape DEF JobShape, Op
  <2> QED BY <1>2, <2>1, <2>3
<1>5. CASE service(t)
  <2>1. CASE UNCHANGED locals
    BY <1>1, <2>1, InvTables DEF locals
  <2>2. CASE \E g : Become(t, "refresh", [NoJob EXCEPT !.op = "service", !.target = g])
    <3>1. PICK g : Become(t, "refresh", [NoJob EXCEPT !.op = "service", !.target = g])
      BY <2>2
    <3>2. JobShape([NoJob EXCEPT !.op = "service", !.target = g])
      BY NoJobShape DEF JobShape, Op
    <3> QED BY <1>2, <3>1, <3>2
  <2> QED BY <1>5, <2>1, <2>2 DEF service
<1>6. CASE releaseClientAllocations(t)
  <2>1. PICK c \in Client : Become(t, "sweep", [NoJob EXCEPT !.op = "sweep", !.client = c])
    BY <1>6 DEF releaseClientAllocations
  <2>2. JobShape([NoJob EXCEPT !.op = "sweep", !.client = c])
    BY NoJobShape DEF JobShape, Op
  <2> QED BY <1>2, <2>1, <2>2
<1> QED BY <1>3, <1>4, <1>5, <1>6

(* Steps of a call on its way. *)
LEMMA InvGoesOn ==
  ASSUME Inv, NEW t \in Task,
         AllocationFails(t) \/ Refresh(t) \/ Donor(t) \/ Callback(t) \/ Assign(t)
           \/ Clear(t) \/ Sweep(t)
  PROVE  Inv'
<1>1. UNCHANGED <<leases, live>> /\ JobShape(job[t]) /\ ~Carrying(pc[t])
  BY DEF AllocationFails, Refresh, Donor, Callback, Assign, Clear, Sweep, tables, Inv, Typed,
     Carrying
<1>2. ASSUME \E l, j : Become(t, l, j) /\ JobShape(j) /\ ~Carrying(l) PROVE Inv'
  BY <1>1, <1>2, Neutral
<1>3. ASSUME Return(t) PROVE Inv'
  BY <1>2, <1>3, NoJobShape DEF Return, Carrying
<1>4. CASE AllocationFails(t)
  <2>1. CASE \E g : Become(t, "refresh", [job[t] EXCEPT !.target = g,
                                             !.freed = 0, !.attempted = {}])
    <3>1. PICK g : Become(t, "refresh", [job[t] EXCEPT !.target = g,
                                             !.freed = 0, !.attempted = {}])
      BY <2>1
    <3>2. JobShape([job[t] EXCEPT !.target = g, !.freed = 0, !.attempted = {}])
      BY <1>1 DEF JobShape
    <3> QED BY <1>2, <3>1, <3>2 DEF Carrying
  <2> QED BY <1>3, <1>4, <2>1 DEF AllocationFails
<1>5. CASE Refresh(t)
  <2>1. Become(t, "donor", job[t])
    BY <1>5 DEF Refresh, Become, Inv, Typed
  <2> QED BY <1>1, <1>2, <2>1 DEF Carrying
<1>6. CASE Donor(t)
  <2>1. CASE ReclaimReturns(t, job[t])
    BY <1>1, <1>2, <2>1, ReclaimGoesOn
  <2>2. CASE \E c \in Client, l \in {"callback", "elastic"} : \E ask, ext :
               Become(t, l, [job[t] EXCEPT !.donor = c, !.ask = ask, !.external = ext,
                                           !.attempted = @ \cup {c}])
    <3>1. PICK c \in Client, l \in {"callback", "elastic"} : \E ask, ext :
            Become(t, l, [job[t] EXCEPT !.donor = c, !.ask = ask, !.external = ext,
                                        !.attempted = @ \cup {c}])
      BY <2>2
    <3>3. PICK ask, ext :
            Become(t, l, [job[t] EXCEPT !.donor = c, !.ask = ask, !.external = ext,
                                        !.attempted = @ \cup {c}])
      BY <3>1
    <3>2. JobShape([job[t] EXCEPT !.donor = c, !.ask = ask, !.external = ext,
                                  !.attempted = @ \cup {c}])
      BY <1>1 DEF JobShape
    <3> QED BY <1>2, <3>2, <3>3 DEF Carrying
  <2> QED BY <1>6, <2>1, <2>2 DEF Donor
<1>7. CASE Callback(t)
  <2>1. PICK n : MoreFrom(t, [job[t] EXCEPT !.donorFreed = n])
    BY <1>7 DEF Callback
  <2>2. JobShape([job[t] EXCEPT !.donorFreed = n])
    BY <1>1 DEF JobShape
  <2> QED BY <1>2, <2>1, <2>2, DonorGoesOn
<1>8. CASE Assign(t) \/ Clear(t)
  BY <1>3, <1>8 DEF Assign, Clear
<1>9. CASE Sweep(t)
  <2>1. CASE \E s \in LeasesOf(job[t].client) :
               Become(t, "sweep-release", [job[t] EXCEPT !.block = leases[s].block])
    <3>1. PICK s \in LeasesOf(job[t].client) :
            Become(t, "sweep-release", [job[t] EXCEPT !.block = leases[s].block])
      BY <2>1
    <3>2. leases[s].block \in Block
      BY DEF LeasesOf, Inv, Typed, LeaseRecord
    <3>3. JobShape([job[t] EXCEPT !.block = leases[s].block])
      BY <1>1, <3>2 DEF JobShape
    <3> QED BY <1>2, <3>1, <3>3 DEF Carrying
  <2> QED BY <1>3, <1>9, <2>1 DEF Sweep
<1> QED BY <1>4, <1>5, <1>6, <1>7, <1>8, <1>9

(* The manager's answer: a block that nobody had, or none.                 *)
LEMMA InvAllocated == ASSUME Inv, NEW t \in Task, Allocated(t) PROVE Inv'
<1>1. PICK b \in Block \ live :
        live' = live \cup {b} /\ Become(t, "record", [job[t] EXCEPT !.block = b])
  BY DEF Allocated
<1>2. /\ JobShape([job[t] EXCEPT !.block = b]) /\ [job[t] EXCEPT !.block = b].block = b
      /\ ~Carrying(pc[t]) /\ UNCHANGED leases
  BY DEF Allocated, tables, JobShape, Inv, Typed, Carrying
<1> QED BY <1>1, <1>2, Takes

(* A request that finds its client gone or the table full returns the block*)
(* it has carried since Allocated.                                         *)
LEMMA InvRecordFails == ASSUME Inv, NEW t \in Task, RecordFails(t) PROVE Inv'
<1>1. /\ Become(t, "idle", NoJob) /\ live' = live \ {job[t].block} /\ UNCHANGED leases
      /\ Carrying(pc[t]) /\ ~Carrying("idle")
  BY DEF RecordFails, Return, tables, Carrying
<1> QED BY <1>1, Returns, NoJobShape

(* The block goes into the lease that was found vacant, or is returned.    *)
LEMMA InvRecord == ASSUME Inv, NEW t \in Task, Record(t) PROVE Inv'
<1> DEFINE j == job[t]
           r == [block |-> j.block, bytes |-> j.bytes, client |-> j.client,
                 owner |-> j.owner]
<1>1. /\ Carrying(pc[t]) /\ t \in Carriers /\ UNCHANGED live /\ JobShape(j)
  BY DEF Record, Carrying, Carriers, Inv, Typed
<1>2. PICK s \in Slot : leases[s] = Vacant /\ leases' = [leases EXCEPT ![s] = r]
  BY DEF Record, IsFirst
<1>3. s \in Slot \ Taken
  BY <1>2 DEF Taken
<1>4. r \in LeaseRecord /\ r.block = j.block
  <2>1. j.client \in Client
    BY DEF Record, CanRecord, Registered
  <2>2. j.block \in Block
    BY <1>1 DEF Inv, Typed, FromTheManager
  <2> QED BY <1>1, <2>1, <2>2 DEF JobShape, LeaseRecord
<1> HIDE DEF r
<1>5. CASE Goto(t, "assign") /\ UNCHANGED job
  <2>1. Become(t, "assign", j) /\ ~Carrying("assign")
    BY <1>5 DEF Become, Inv, Typed, Carrying
  <2> QED BY <1>1, <1>2, <1>3, <1>4, <2>1, Enters
<1>6. CASE Return(t)
  <2>1. Become(t, "idle", NoJob) /\ ~Carrying("idle")
    BY <1>6 DEF Return, Carrying
  <2> QED BY <1>1, <1>2, <1>3, <1>4, <2>1, NoJobShape, Enters
<1> QED BY <1>5, <1>6 DEF Record

(* Telling a handle of its loss moves no block.                            *)
LEMMA InvNotify == ASSUME Inv, NEW t \in Task, Notify(t) PROVE Inv'
<1>1. /\ Become(t, "giveback", job[t]) /\ JobShape(job[t]) /\ UNCHANGED <<leases, live>>
      /\ Carrying(pc[t]) /\ Carrying("giveback")
  BY DEF Notify, Become, tables, Inv, Typed, Carrying
<1> QED BY <1>1, Neutral

(* The block taken out of its lease goes back to the manager.              *)
LEMMA InvGiveBack == ASSUME Inv, NEW t \in Task, GiveBack(t) PROVE Inv'
<1> DEFINE j == [job[t] EXCEPT !.block = NoBlock, !.notify = NoHandle]
<1>1. /\ JobShape(j) /\ Carrying(pc[t])
      /\ live' = live \ {job[t].block} /\ UNCHANGED leases
  BY DEF GiveBack, JobShape, Inv, Typed, Carrying, tables
<1>2. Return(t) \/ Become(t, "clear", j) \/ Become(t, "sweep", j) \/ MoreFrom(t, j)
  BY Zenon DEF GiveBack
<1> HIDE DEF j
<1>3. ASSUME \E l, k : Become(t, l, k) /\ JobShape(k) /\ ~Carrying(l) PROVE Inv'
  BY <1>1, <1>3, Returns
<1>4. CASE Return(t)
  BY <1>3, <1>4, NoJobShape DEF Return, Carrying
<1>5. CASE Become(t, "clear", j) \/ Become(t, "sweep", j)
  BY <1>1, <1>3, <1>5 DEF Carrying
<1>6. CASE MoreFrom(t, j)
  BY <1>1, <1>3, <1>6, DonorGoesOn
<1> QED BY <1>2, <1>4, <1>5, <1>6

(* A lease that is taken out of the table: its block goes with the call.   *)
LEMMA InvTakenBack ==
  ASSUME Inv, NEW t \in Task, NEW s \in Taken, NEW j, JobShape(j), TakeBack(t, s, j),
         ~Carrying(pc[t]), UNCHANGED live
  PROVE  Inv'
<1> DEFINE k == [j EXCEPT !.block = leases[s].block, !.notify = leases[s].owner]
<1>1. leases[s].block \in Block /\ leases[s].owner \in Handle \cup {NoHandle}
  BY DEF Taken, Inv, Typed, LeaseRecord
<1>2. JobShape(k) /\ k.block = leases[s].block
  BY <1>1 DEF JobShape
<1>3. leases' = [leases EXCEPT ![s] = Vacant]
  BY DEF TakeBack, RemoveLease
<1>4. Become(t, "giveback", k) \/ Become(t, "notify", k)
  BY DEF TakeBack
<1> HIDE DEF k
<1> QED BY <1>2, <1>3, <1>4, Leaves DEF Carrying

(* Reclaim takes the block of an elastic lease, or goes on.                *)
LEMMA InvElastic == ASSUME Inv, NEW t \in Task, Elastic(t) PROVE Inv'
<1>1. JobShape(job[t]) /\ UNCHANGED live /\ ~Carrying(pc[t])
  BY DEF Elastic, Inv, Typed, Carrying
<1>2. ASSUME NEW s \in Reclaimable(job[t].donor, job[t].region), RemoveLease(s),
             Become(t, "notify",
                 [job[t] EXCEPT !.block = leases[s].block, !.notify = leases[s].owner,
                                !.donorFreed = @ + leases[s].bytes])
      PROVE  Inv'
  <2> DEFINE k == [job[t] EXCEPT !.block = leases[s].block, !.notify = leases[s].owner,
                                 !.donorFreed = @ + leases[s].bytes]
  <2>1. s \in Taken
    BY DEF Reclaimable, ElasticLeases, LeasesOf, Taken
  <2>2. leases[s].block \in Block /\ leases[s].owner \in Handle \cup {NoHandle}
    BY <2>1 DEF Taken, Inv, Typed, LeaseRecord
  <2>3. JobShape(k) /\ k.block = leases[s].block
    BY <1>1, <2>2 DEF JobShape
  <2>4. leases' = [leases EXCEPT ![s] = Vacant]
    BY <1>2 DEF RemoveLease
  <2>5. Become(t, "notify", k)
    BY <1>2
  <2> HIDE DEF k
  <2> QED BY <1>1, <2>1, <2>3, <2>4, <2>5, Leaves DEF Carrying
<1>3. CASE NextDonor(t, job[t]) /\ UNCHANGED tables
  BY <1>1, <1>3, NextDonorGoesOn, Neutral DEF tables
<1> QED BY <1>2, <1>3 DEF Elastic

(* The calls that give blocks back: release, ElasticBuffer::release and    *)
(* releaseClientAllocations.                                               *)
LEMMA InvReleases ==
  ASSUME Inv, NEW t \in Task, release(t) \/ DropHandle(t) \/ SweepRelease(t)
  PROVE  Inv'
<1>1. JobShape(job[t]) /\ UNCHANGED live /\ ~Carrying(pc[t])
  BY DEF release, DropHandle, SweepRelease, Inv, Typed, Carrying
<1>2. ASSUME NEW c, NEW b, NEW s \in LeaseAt(c, b) PROVE s \in Taken
  BY DEF LeaseAt, LeasesOf, Taken
<1>3. CASE release(t)
  <2>1. PICK c \in Client, b \in Block :
          \E s \in LeaseAt(c, b) : TakeBack(t, s, [NoJob EXCEPT !.op = "release", !.client = c])
    BY <1>3 DEF release
  <2>2. JobShape([NoJob EXCEPT !.op = "release", !.client = c])
    BY NoJobShape DEF JobShape, Op
  <2> QED BY <1>1, <1>2, <2>1, <2>2, InvTakenBack
<1>4. CASE DropHandle(t)
  <2>1. PICK h \in Handle :
          LET j == [NoJob EXCEPT !.op = "drop", !.owner = h, !.client = ClientOf[h]]
          IN \/ \E s \in LeaseAt(ClientOf[h], data[h]) : TakeBack(t, s, j)
             \/ Become(t, "clear", j) /\ UNCHANGED tables
    BY <1>4 DEF DropHandle
  <2> DEFINE j == [NoJob EXCEPT !.op = "drop", !.owner = h, !.client = ClientOf[h]]
  <2>2. ClientOf[h] \in Client
    BY BrokerConstants
  <2>3. JobShape(j)
    BY <2>2, NoJobShape DEF JobShape, Op
  <2>4. \/ \E s \in LeaseAt(ClientOf[h], data[h]) : TakeBack(t, s, j)
        \/ Become(t, "clear", j) /\ UNCHANGED tables
    BY <2>1
  <2> HIDE DEF j
  <2>5. CASE \E s \in LeaseAt(ClientOf[h], data[h]) : TakeBack(t, s, j)
    BY <1>1, <1>2, <2>3, <2>5, InvTakenBack
  <2>6. CASE Become(t, "clear", j) /\ UNCHANGED tables
    BY <1>1, <2>3, <2>6, Neutral DEF tables, Carrying
  <2> QED BY <2>4, <2>5, <2>6
<1>5. CASE SweepRelease(t)
  <2>1. CASE \E s \in LeaseAt(job[t].client, job[t].block) : TakeBack(t, s, job[t])
    BY <1>1, <1>2, <2>1, InvTakenBack
  <2>2. CASE Become(t, "idle", NoJob) /\ UNCHANGED tables
    BY <1>1, <2>2, NoJobShape, Neutral DEF tables, Carrying
  <2> QED BY <1>5, <2>1, <2>2 DEF SweepRelease, Return
<1> QED BY <1>3, <1>4, <1>5

-----------------------------------------------------------------------------
(* Before the first call no block is anywhere.                             *)
LEMMA InvInit == Init => Inv
<1> SUFFICES ASSUME Init PROVE Inv
  OBVIOUS
<1>1. Taken = {} /\ Carriers = {} /\ \A t \in Task : job[t] = NoJob
  BY DEF Init, Taken, Carriers, Carrying
<1>2. Typed
  BY <1>1, NoJobShape DEF Init, Typed
<1> QED BY <1>1, <1>2 DEF Init, Inv, LeasedOnce, CarriedOnce, NotBoth, FromTheManager, NoneLost

(* Every step keeps each block in one place.                               *)
LEMMA InvNext == ASSUME Inv, [Next]_vars PROVE Inv'
<1>1. ASSUME NEW t \in Task, Start(t) PROVE Inv'
  <2>1. CASE \/ registerClient(t) \/ unregisterClient(t) \/ setPriority(t) \/ setActivity(t)
             \/ setObservedUsage(t) \/ setLimits(t) \/ setReclaimer(t) \/ touch(t) \/ forget(t)
    BY <2>1, InvTables
    DEF registerClient, unregisterClient, setPriority, setActivity, setObservedUsage,
        setLimits, setReclaimer, touch, forget, Quick, tables, locals
  <2> QED BY <1>1, <2>1, InvBegins, InvReleases DEF Start
<1>2. ASSUME NEW t \in Task, Step(t) PROVE Inv'
  BY <1>2, InvGoesOn, InvAllocated, InvRecord, InvRecordFails, InvNotify, InvGiveBack,
     InvElastic, InvReleases DEF Step
<1>3. CASE UNCHANGED vars
  BY <1>3, InvTables DEF vars
<1> QED BY <1>1, <1>2, <1>3 DEF Next

(* The invariant in the words of the property: one place for each block.   *)
LEMMA InvCounts == Inv => EveryBlockHasOneOwner
<1> SUFFICES ASSUME Inv, NEW b \in Block
             PROVE  LET places == {s \in Slot : leases[s] # Vacant /\ leases[s].block = b}
                        tasks == {t \in Task : Carries(t, b)}
                    IN Cardinality(places) + Cardinality(tasks) = IF b \in live THEN 1 ELSE 0
  BY DEF EveryBlockHasOneOwner
<1> DEFINE places == {s \in Slot : leases[s] # Vacant /\ leases[s].block = b}
           tasks == {t \in Task : Carries(t, b)}
<1>1. places = {s \in Taken : leases[s].block = b}
  BY DEF Taken
<1>2. tasks = {t \in Carriers : job[t].block = b}
  BY DEF Carriers, Carries, Carrying
<1> HIDE DEF places, tasks
<1>3. CASE places = {} /\ tasks = {}
  <2>1. b \notin live
    BY <1>1, <1>2, <1>3 DEF Inv, NoneLost
  <2> QED BY <1>3, <2>1, FS_EmptySet DEF places, tasks
<1>4. ASSUME NEW s \in places
      PROVE  b \in live /\ Cardinality(places) = 1 /\ Cardinality(tasks) = 0
  <2>1. places = {s}
    BY <1>1 DEF Inv, LeasedOnce
  <2>2. tasks = {} /\ b \in live
    BY <1>1, <1>2 DEF Inv, NotBoth, FromTheManager
  <2> QED BY <2>1, <2>2, FS_Singleton, FS_EmptySet
<1>5. ASSUME NEW t \in tasks
      PROVE  b \in live /\ Cardinality(places) = 0 /\ Cardinality(tasks) = 1
  <2>1. tasks = {t}
    BY <1>2 DEF Inv, CarriedOnce
  <2>2. places = {} /\ b \in live
    BY <1>1, <1>2 DEF Inv, NotBoth, FromTheManager
  <2> QED BY <2>1, <2>2, FS_Singleton, FS_EmptySet
<1> QED BY <1>3, <1>4, <1>5 DEF places, tasks

(* MemoryBroker.cpp: every block the broker has from the manager is in one *)
(* lease or in the hands of one running call.  Reclaiming, releasing and   *)
(* requesting may overlap as they like: no block is lost, none is returned *)
(* twice and none is leased to two.                                        *)
THEOREM BlocksHaveOneOwner == Spec => []EveryBlockHasOneOwner
<1>1. Inv /\ [Next]_vars => Inv'
  BY InvNext
<1> QED BY <1>1, InvInit, InvCounts, PTL DEF Spec

-----------------------------------------------------------------------------
(* A call on its way: its locals have their types, a request is for some   *)
(* bytes, and a donor is only looked for while memory is still wanted.     *)
Label == {"idle", "allocate", "record", "assign", "refresh", "donor", "callback",
          "elastic", "notify", "giveback", "clear", "sweep", "sweep-release"}
JobOk(l, j) ==
    /\ l \in Label
    /\ j \in Job
    /\ j.op \in {"request", "ensure"} => j.bytes > 0
    /\ l \in {"allocate", "record"} => j.op \in {"request", "ensure"}
    /\ l \in {"refresh", "donor", "callback", "elastic"} =>
         j.op \in {"request", "ensure", "service"}
    /\ l \in {"notify", "giveback"} => j.op # "none"
    /\ l \in {"sweep", "sweep-release"} => j.op = "sweep"
    /\ l \in {"refresh", "donor"} => j.freed < j.target
JobsOk == \A t \in Task : JobOk(pc[t], job[t])

ClientsTyped == clients \in [Client -> ClientRecord \cup {Unused}]
Leased == \A s \in Taken : leases[s].bytes > 0 /\ Registered(leases[s].client)
Managed(c) == clients[c].managed = Total(leases, LeasesOf(c))
Books == \A c \in Client :
    Registered(c) => Managed(c) /\ clients[c].reclaimable <= clients[c].observed
TablesOk == ClientsTyped /\ Leased /\ Books

(* The books are what validate() tests.                                    *)
LEMMA BooksAre == Leased /\ Books => LeaseAccounting
<1>1. \A c \in Client :
        Total(leases, LeasesOf(c)) = SumFunction([s \in LeasesOf(c) |-> leases[s].bytes])
  BY Zenon DEF Total
<1> QED BY <1>1 DEF Leased, Books, Managed, LeaseAccounting, Taken

(* The lesser of two numbers is one of them, and above neither.            *)
LEMMA MinOfTwo ==
  ASSUME NEW a \in Int, NEW b \in Int
  PROVE  Min({a, b}) \in {a, b} /\ Min({a, b}) <= a /\ Min({a, b}) <= b
<1>1. \E x \in {a, b} : \A y \in {a, b} : x <= y
  OBVIOUS
<1>2. Min({a, b}) \in {a, b} /\ \A y \in {a, b} : Min({a, b}) <= y
  BY <1>1 DEF Min
<1> QED BY <1>2

(* Subtraction that saturates at zero stays a natural number.              *)
LEMMA MaxOfZero ==
  ASSUME NEW b \in Int
  PROVE  /\ Max({0, b}) \in Nat /\ Max({0, b}) >= b
         /\ Max({0, b}) = 0 \/ Max({0, b}) = b
<1>1. \E x \in {0, b} : \A y \in {0, b} : x >= y
  OBVIOUS
<1>2. Max({0, b}) \in {0, b} /\ \A y \in {0, b} : Max({0, b}) >= y
  BY <1>1 DEF Max
<1> QED BY <1>2

(* The greatest of three natural numbers is one.                           *)
LEMMA MaxOfThree ==
  ASSUME NEW a \in Nat, NEW b \in Nat, NEW c \in Nat
  PROVE  Max({a, b, c}) \in Nat
<1>1. \E x \in {a, b, c} : \A y \in {a, b, c} : x >= y
  OBVIOUS
<1>2. Max({a, b, c}) \in {a, b, c}
  BY <1>1 DEF Max
<1> QED BY <1>2

(* The lease table is finite.                                              *)
LEMMA LeasesFinite ==
  ASSUME NEW S \in SUBSET Slot
  PROVE  IsFiniteSet(S)
<1>1. IsFiniteSet(Slot)
  BY FS_Interval, BrokerConstants DEF Slot
<1> QED BY <1>1, FS_Subset

(* Every lease has a size that can be summed.                              *)
LEMMA LeasesSized ==
  ASSUME Inv, NEW S \in SUBSET Taken
  PROVE  Sized(leases, S)
  BY DEF Sized, Inv, Typed, Taken, LeaseRecord

(* What a client is said to have to give. *)
LEMMA Amounts ==
  ASSUME Inv, ClientsTyped, NEW c, Registered(c), NEW r
  PROVE  /\ AboveMinimum(c) \in Nat
         /\ AboveMinimum(c) = 0 \/ AboveMinimum(c) = totalBytes(c) - clients[c].minimum
         /\ ExternalAvailable(c, r) \in Nat
         /\ ExternalAvailable(c, r) <= clients[c].reclaimable
         /\ availableReclaim(c, r) \in Nat
         /\ availableReclaim(c, r) <= AboveMinimum(c)
<1>1. clients[c] \in ClientRecord /\ c \in Client
  BY DEF ClientsTyped, Registered
<1>2. /\ clients[c].managed \in Nat /\ clients[c].observed \in Nat
      /\ clients[c].minimum \in Nat /\ clients[c].reclaimable \in Nat
  BY <1>1 DEF ClientRecord
<1>3. /\ AboveMinimum(c) \in Nat
      /\ AboveMinimum(c) = 0 \/ AboveMinimum(c) = totalBytes(c) - clients[c].minimum
  <2> DEFINE over == totalBytes(c) - clients[c].minimum
  <2>1. over \in Int
    BY <1>2 DEF totalBytes
  <2>2. AboveMinimum(c) = Max({0, over})
    BY DEF AboveMinimum
  <2> HIDE DEF over
  <2>3. AboveMinimum(c) \in Nat /\ (AboveMinimum(c) = 0 \/ AboveMinimum(c) = over)
    BY <2>1, <2>2, MaxOfZero
  <2> QED BY <2>3 DEF over
<1>4. ExternalAvailable(c, r) \in Nat /\ ExternalAvailable(c, r) <= clients[c].reclaimable
  BY <1>2 DEF ExternalAvailable
<1>5. elasticReclaimable(c, r) \in Nat
  <2> DEFINE S == ElasticLeases(c, r)
  <2>1. S \subseteq Taken /\ S \subseteq Slot
    BY DEF ElasticLeases, LeasesOf, Taken
  <2>2. elasticReclaimable(c, r) = Total(leases, S)
    BY Zenon DEF elasticReclaimable, Total
  <2> HIDE DEF S
  <2>3. IsFiniteSet(S) /\ Sized(leases, S)
    BY <2>1, LeasesFinite, LeasesSized
  <2>4. Parts(S, S, {})
    BY DEF Parts
  <2> QED BY <2>2, <2>3, <2>4, TotalSplit
<1> DEFINE give == ExternalAvailable(c, r) + elasticReclaimable(c, r)
<1>6. give \in Nat
  BY <1>4, <1>5
<1>7. availableReclaim(c, r) = Min({AboveMinimum(c), give})
  BY DEF availableReclaim
<1> HIDE DEF give
<1>8. availableReclaim(c, r) \in Nat /\ availableReclaim(c, r) <= AboveMinimum(c)
  <2> DEFINE top == AboveMinimum(c)
  <2>1. top \in Nat /\ availableReclaim(c, r) = Min({top, give})
    BY <1>3, <1>7
  <2> HIDE DEF top
  <2>2. availableReclaim(c, r) \in Nat /\ availableReclaim(c, r) <= top
    BY <1>6, <2>1, MinOfTwo
  <2> QED BY <2>2 DEF top
<1> QED BY <1>3, <1>4, <1>8

-----------------------------------------------------------------------------
(* Calls keep their locals in order *)

(* A step of one task with good locals keeps everybody's locals good.      *)
LEMMA JobMoves ==
  ASSUME Inv, JobsOk, NEW t \in Task, NEW l, NEW j, Become(t, l, j), JobOk(l, j)
  PROVE  JobsOk'
<1>1. /\ pc'[t] = l /\ job'[t] = j
      /\ \A u \in Task \ {t} : pc'[u] = pc[u] /\ job'[u] = job[u]
  BY DEF Become, Goto, Inv, Typed
<1> QED BY <1>1 DEF JobsOk

(* As does a step that touches no locals.                                  *)
LEMMA JobStays ==
  ASSUME JobsOk, UNCHANGED locals
  PROVE  JobsOk'
  BY DEF JobsOk, locals

(* The locals of no call are good.                                         *)
LEMMA NoJobOk == NoJob \in Job /\ JobOk("idle", NoJob)
<1>1. NoJob \in Job
  BY DEF NoJob, Job, Op, INVALID
<1> QED BY <1>1 DEF JobOk, Label, NoJob

(* Where a reclaim goes on when it is done with a donor. *)
Follows(j, l, k) ==
    \/ l = "idle"
    \/ /\ l \in {"allocate", "donor"}
       /\ k.op = j.op /\ k.client = j.client /\ k.bytes = j.bytes
    \/ l = "elastic" /\ k = j

(* A request goes on after reclaim with the locals it came with.           *)
LEMMA ReclaimReturnsOk ==
  ASSUME NEW t \in Task, NEW j \in Job, ReclaimReturns(t, j),
         j.op \in {"request", "ensure", "service"},
         j.op \in {"request", "ensure"} => j.bytes > 0
  PROVE  \E l, k : /\ Become(t, l, k) /\ JobOk(l, k)
                   /\ Follows(j, l, k) /\ l # "elastic"
<1>1. CASE Return(t)
  BY <1>1, NoJobOk DEF Return, Follows
<1>2. CASE /\ j.op # "service"
           /\ Become(t, "allocate", [j EXCEPT !.pass = @ + 1, !.attempted = {},
                    !.donor = INVALID, !.freed = 0, !.target = 0])
  <2> DEFINE k == [j EXCEPT !.pass = @ + 1, !.attempted = {},
                    !.donor = INVALID, !.freed = 0, !.target = 0]
  <2>1. k \in Job /\ k.op = j.op /\ k.bytes = j.bytes /\ k.client = j.client
    <3>1. k.op = j.op /\ k.bytes = j.bytes /\ k.client = j.client /\ j.pass + 1 \in Nat
      BY DEF Job
    <3>2. k \in Job
      <4>1. 0 \in Int /\ 0 \in Nat /\ {} \in SUBSET Client
        OBVIOUS
      <4> QED BY <3>1, <4>1 DEF Job
    <3> QED BY <3>1, <3>2
  <2>2. Become(t, "allocate", k) /\ j.op # "service"
    BY <1>2
  <2> HIDE DEF k
  <2>3. JobOk("allocate", k)
    BY <2>1, <2>2 DEF JobOk, Label
  <2>4. Follows(j, "allocate", k)
    BY <2>1 DEF Follows
  <2> QED BY <2>2, <2>3, <2>4
<1> QED BY <1>1, <1>2 DEF ReclaimReturns

(* As it does from one donor to the next,                                  *)
LEMMA NextDonorOk ==
  ASSUME NEW t \in Task, NEW j \in Job, NextDonor(t, j),
         j.op \in {"request", "ensure", "service"},
         j.op \in {"request", "ensure"} => j.bytes > 0
  PROVE  \E l, k : Become(t, l, k) /\ JobOk(l, k) /\ Follows(j, l, k)
<1> DEFINE k == [j EXCEPT !.freed = @ + j.donorFreed, !.donorFreed = 0, !.ask = 0,
                          !.external = 0, !.donor = INVALID]
<1>1. k \in Job /\ k.op = j.op /\ k.bytes = j.bytes /\ k.client = j.client
  <2>1. k.op = j.op /\ k.bytes = j.bytes /\ k.client = j.client /\ j.freed + j.donorFreed \in Nat
    BY DEF Job
  <2>2. k \in Job
    BY <2>1 DEF Job, INVALID
  <2> QED BY <2>1, <2>2
<1>2. \/ k.freed < k.target /\ Become(t, "donor", k)
      \/ ReclaimReturns(t, k)
  BY DEF NextDonor
<1> HIDE DEF k
<1>3. CASE k.freed < k.target /\ Become(t, "donor", k)
  <2>1. JobOk("donor", k)
    BY <1>1, <1>3 DEF JobOk, Label
  <2>2. Follows(j, "donor", k)
    BY <1>1 DEF Follows
  <2> QED BY <1>3, <2>1, <2>2
<1>4. CASE ReclaimReturns(t, k)
  <2>1. PICK l, m : /\ Become(t, l, m) /\ JobOk(l, m)
                    /\ Follows(k, l, m) /\ l # "elastic"
    BY <1>1, <1>4, ReclaimReturnsOk
  <2>2. Follows(j, l, m)
    BY <1>1, <2>1 DEF Follows
  <2> QED BY <2>1, <2>2
<1> QED BY <1>2, <1>3, <1>4

(* and when the same donor is asked for more.                              *)
LEMMA MoreFromOk ==
  ASSUME NEW t \in Task, NEW j \in Job, MoreFrom(t, j),
         j.op \in {"request", "ensure", "service"},
         j.op \in {"request", "ensure"} => j.bytes > 0
  PROVE  \E l, k : Become(t, l, k) /\ JobOk(l, k) /\ Follows(j, l, k)
<1>1. CASE Become(t, "elastic", j)
  <2>1. JobOk("elastic", j)
    BY DEF JobOk, Label
  <2>2. Follows(j, "elastic", j)
    BY DEF Follows
  <2> QED BY <1>1, <2>1, <2>2
<1>2. CASE NextDonor(t, j)
  BY <1>2, NextDonorOk
<1> QED BY <1>1, <1>2 DEF MoreFrom

(* Calls that begin. *)
LEMMA JobBegins ==
  ASSUME Inv, JobsOk, ClientsTyped, NEW t \in Task,
         request(t) \/ ensure(t) \/ service(t) \/ releaseClientAllocations(t)
           \/ release(t) \/ DropHandle(t)
  PROVE  JobsOk'
<1>1. ASSUME NEW l, NEW j, Become(t, l, j), JobOk(l, j) PROVE JobsOk'
  BY <1>1, JobMoves
<1>2. CASE request(t)
  <2>1. PICK c \in Client, n \in Sizes, r \in Wanted :
          Become(t, "allocate", [NoJob EXCEPT !.op = "request", !.client = c,
                                              !.bytes = n, !.region = r])
    BY <1>2 DEF request
  <2> DEFINE j == [NoJob EXCEPT !.op = "request", !.client = c, !.bytes = n, !.region = r]
  <2>2. n \in Nat /\ n > 0 /\ r \in Region
    BY BrokerConstants
  <2>3. j \in Job /\ j.op = "request" /\ j.bytes = n
    BY <2>2, NoJobOk DEF Job, Op, NoJob
  <2>4. Become(t, "allocate", j)
    BY <2>1
  <2> HIDE DEF j
  <2>5. JobOk("allocate", j)
    BY <2>2, <2>3 DEF JobOk, Label
  <2> QED BY <1>1, <2>4, <2>5
<1>3. CASE ensure(t)
  <2>1. PICK h \in Handle, n \in Sizes, r \in Wanted :
          Become(t, "allocate", [NoJob EXCEPT !.op = "ensure", !.owner = h,
                        !.client = ClientOf[h], !.bytes = n, !.region = r])
    BY <1>3 DEF ensure
  <2> DEFINE j == [NoJob EXCEPT !.op = "ensure", !.owner = h,
                        !.client = ClientOf[h], !.bytes = n, !.region = r]
  <2>2. n \in Nat /\ n > 0 /\ r \in Region /\ ClientOf[h] \in Client
    BY BrokerConstants
  <2>3. j \in Job /\ j.op = "ensure" /\ j.bytes = n
    BY <2>2, NoJobOk DEF Job, Op, NoJob
  <2>4. Become(t, "allocate", j)
    BY <2>1
  <2> HIDE DEF j
  <2>5. JobOk("allocate", j)
    BY <2>2, <2>3 DEF JobOk, Label
  <2> QED BY <1>1, <2>4, <2>5
<1>4. CASE service(t)
  <2>1. CASE UNCHANGED locals
    BY <2>1, JobStays
  <2>2. CASE ~UNCHANGED locals
    <3> DEFINE S == {d \in Client : Registered(d)}
               f == [c \in S |-> availableReclaim(c, "Auto")]
               all == SumFunction(f)
    <3>1. \E g \in 1 .. all :
            Become(t, "refresh", [NoJob EXCEPT !.op = "service", !.target = g])
      BY <1>4, <2>2 DEF service
    <3>2. all \in Nat
      <4>1. IsFiniteSet(Client)
        BY FS_Interval, BrokerConstants DEF Client
      <4>2. IsFiniteSet(S)
        BY <4>1, FS_Subset
      <4>3. \A c \in S : f[c] \in Nat
        BY Amounts
      <4>4. all = SumFunctionOnSet(f, DOMAIN f) /\ DOMAIN f = S
        BY Zenon DEF SumFunction
      <4> HIDE DEF S, f, all
      <4>5. SumFunctionOnSet(f, DOMAIN f) = SumFunctionOnSet(f, S)
        BY <4>4, Zenon
      <4> QED BY <4>2, <4>3, <4>4, <4>5, SumType
    <3> HIDE DEF all
    <3>3. PICK g \in 1 .. all :
            Become(t, "refresh", [NoJob EXCEPT !.op = "service", !.target = g])
      BY <3>1
    <3>4. g \in Int /\ g > 0
      BY <3>2
    <3> DEFINE j == [NoJob EXCEPT !.op = "service", !.target = g]
    <3>5. j \in Job
      BY <3>4, NoJobOk DEF Job, Op, NoJob
    <3>8. j.op = "service" /\ j.freed = 0 /\ j.target = g
      BY DEF NoJob
    <3>6. Become(t, "refresh", j)
      BY <3>3
    <3> HIDE DEF j
    <3>7. JobOk("refresh", j)
      BY <3>4, <3>5, <3>8 DEF JobOk, Label
    <3> QED BY <1>1, <3>6, <3>7
  <2> QED BY <2>1, <2>2
<1>5. CASE releaseClientAllocations(t)
  <2>1. PICK c \in Client : Become(t, "sweep", [NoJob EXCEPT !.op = "sweep", !.client = c])
    BY <1>5 DEF releaseClientAllocations
  <2> DEFINE j == [NoJob EXCEPT !.op = "sweep", !.client = c]
  <2>2. j \in Job /\ j.op = "sweep"
    BY NoJobOk DEF Job, Op, NoJob
  <2>3. Become(t, "sweep", j)
    BY <2>1
  <2> HIDE DEF j
  <2>4. JobOk("sweep", j)
    BY <2>2 DEF JobOk, Label
  <2> QED BY <1>1, <2>3, <2>4
<1>6. ASSUME NEW s \in Taken, NEW j \in Job, j.op \in {"release", "drop"}, TakeBack(t, s, j)
      PROVE  JobsOk'
  <2> DEFINE k == [j EXCEPT !.block = leases[s].block, !.notify = leases[s].owner]
  <2>1. leases[s].block \in Block /\ leases[s].owner \in Handle \cup {NoHandle}
    BY DEF Inv, Typed, Taken, LeaseRecord
  <2>2. k \in Job /\ k.op = j.op
    BY <1>6, <2>1 DEF Job
  <2>3. Become(t, "giveback", k) \/ Become(t, "notify", k)
    BY <1>6 DEF TakeBack
  <2> HIDE DEF k
  <2>4. JobOk("giveback", k) /\ JobOk("notify", k)
    BY <1>6, <2>2 DEF JobOk, Label
  <2> QED BY <1>1, <2>3, <2>4
<1>7. ASSUME NEW c, NEW b, NEW s \in LeaseAt(c, b) PROVE s \in Taken
  BY DEF LeaseAt, LeasesOf, Taken
<1>8. CASE release(t)
  <2>1. PICK c \in Client, b \in Block :
          \E s \in LeaseAt(c, b) : TakeBack(t, s, [NoJob EXCEPT !.op = "release", !.client = c])
    BY <1>8 DEF release
  <2>2. /\ [NoJob EXCEPT !.op = "release", !.client = c] \in Job
        /\ [NoJob EXCEPT !.op = "release", !.client = c].op = "release"
    BY NoJobOk DEF Job, Op, NoJob
  <2> QED BY <1>6, <1>7, <2>1, <2>2
<1>9. CASE DropHandle(t)
  <2>1. PICK h \in Handle :
          LET j == [NoJob EXCEPT !.op = "drop", !.owner = h, !.client = ClientOf[h]]
          IN \/ \E s \in LeaseAt(ClientOf[h], data[h]) : TakeBack(t, s, j)
             \/ Become(t, "clear", j)
    BY <1>9 DEF DropHandle
  <2> DEFINE j == [NoJob EXCEPT !.op = "drop", !.owner = h, !.client = ClientOf[h]]
  <2>2. ClientOf[h] \in Client
    BY BrokerConstants
  <2>3. j \in Job /\ j.op = "drop"
    BY <2>2, NoJobOk DEF Job, Op, NoJob
  <2>4. \/ \E s \in LeaseAt(ClientOf[h], data[h]) : TakeBack(t, s, j)
        \/ Become(t, "clear", j)
    BY <2>1
  <2> HIDE DEF j
  <2>5. JobOk("clear", j)
    BY <2>3 DEF JobOk, Label
  <2> QED BY <1>1, <1>6, <1>7, <2>3, <2>4, <2>5
<1> QED BY <1>2, <1>3, <1>4, <1>5, <1>8, <1>9

(* Steps of a call on its way. *)
LEMMA JobGoesOn ==
  ASSUME Inv, JobsOk, NEW t \in Task,
         Allocated(t) \/ AllocationFails(t) \/ Record(t) \/ RecordFails(t) \/ Assign(t)
           \/ Refresh(t) \/ Notify(t) \/ Clear(t) \/ Sweep(t) \/ Callback(t)
  PROVE  JobsOk'
<1> DEFINE i == job[t]
<1>1. i \in Job /\ JobOk(pc[t], i)
  BY DEF JobsOk, JobOk
<1>2. ASSUME NEW l, NEW j, Become(t, l, j), JobOk(l, j) PROVE JobsOk'
  BY <1>2, JobMoves
<1>3. ASSUME Return(t) PROVE JobsOk'
  BY <1>2, <1>3, NoJobOk DEF Return
<1>4. ASSUME NEW l, Goto(t, l), UNCHANGED job, JobOk(l, i) PROVE JobsOk'
  <2>1. Become(t, l, i)
    BY <1>4 DEF Become, Inv, Typed
  <2> QED BY <1>2, <1>4, <2>1
<1>5. CASE Allocated(t)
  <2>1. PICK b \in Block : Become(t, "record", [i EXCEPT !.block = b])
    BY <1>5 DEF Allocated
  <2> DEFINE j == [i EXCEPT !.block = b]
  <2>2. j \in Job /\ j.op = i.op /\ j.bytes = i.bytes
    BY <1>1 DEF Job
  <2>3. Become(t, "record", j) /\ pc[t] = "allocate"
    BY <1>5, <2>1 DEF Allocated
  <2> HIDE DEF j, i
  <2>4. JobOk("record", j)
    BY <1>1, <2>2, <2>3 DEF JobOk, Label
  <2> QED BY <1>2, <2>3, <2>4
<1>6. CASE AllocationFails(t)
  <2>1. CASE Return(t)
    BY <1>3, <2>1
  <2>2. CASE ~Return(t)
    <3>1. PICK g \in Deficits(i.bytes) : /\ g # 0
            /\ Become(t, "refresh", [i EXCEPT !.target = g, !.freed = 0, !.attempted = {}])
      BY <1>6, <2>2 DEF AllocationFails
    <3>2. g \in Int /\ g > 0
      <4>1. PICK d \in 0 .. i.bytes : g = Max({minimumReclaimBytes, d, i.bytes \div 4})
        BY <3>1 DEF Deficits
      <4>2. i.bytes \in Nat /\ minimumReclaimBytes \in Nat
        BY <1>1, BrokerConstants DEF Job
      <4>3. d \in Nat /\ i.bytes \div 4 \in Nat
        BY <4>2
      <4> DEFINE q == i.bytes \div 4
      <4>4. q \in Nat /\ g = Max({minimumReclaimBytes, d, q})
        BY <4>1, <4>3
      <4> HIDE DEF q, i
      <4>5. g \in Nat
        BY <4>2, <4>3, <4>4, MaxOfThree
      <4> QED BY <3>1, <4>5
    <3> DEFINE j == [i EXCEPT !.target = g, !.freed = 0, !.attempted = {}]
    <3>3. j \in Job
      BY <1>1, <3>2 DEF Job
    <3>4. j.op = i.op /\ j.bytes = i.bytes /\ j.freed = 0 /\ j.target = g
      BY <1>1 DEF Job
    <3>5. Become(t, "refresh", j) /\ pc[t] = "allocate"
      BY <1>6, <3>1 DEF AllocationFails
    <3> HIDE DEF j, i
    <3>6. JobOk("refresh", j)
      BY <1>1, <3>2, <3>3, <3>4, <3>5 DEF JobOk, Label
    <3> QED BY <1>2, <3>5, <3>6
  <2> QED BY <2>1, <2>2
<1>7. CASE Record(t)
  <2>1. JobOk("assign", i)
    BY <1>1 DEF JobOk, Label
  <2> QED BY <1>3, <1>4, <1>7, <2>1 DEF Record
<1>8. CASE RecordFails(t) \/ Assign(t) \/ Clear(t)
  BY <1>3, <1>8 DEF RecordFails, Assign, Clear
<1>9. CASE Refresh(t)
  <2>1. pc[t] = "refresh" /\ Goto(t, "donor") /\ UNCHANGED job
    BY <1>9 DEF Refresh
  <2>2. JobOk("donor", i)
    BY <1>1, <2>1 DEF JobOk, Label
  <2> QED BY <1>4, <2>1, <2>2
<1>10. CASE Notify(t)
  <2>1. pc[t] = "notify" /\ Goto(t, "giveback") /\ UNCHANGED job
    BY <1>10 DEF Notify
  <2>2. JobOk("giveback", i)
    BY <1>1, <2>1 DEF JobOk, Label
  <2> QED BY <1>4, <2>1, <2>2
<1>11. CASE Sweep(t)
  <2>1. CASE Return(t)
    BY <1>3, <2>1
  <2>2. CASE ~Return(t)
    <3>1. PICK s \in LeasesOf(i.client) :
            Become(t, "sweep-release", [i EXCEPT !.block = leases[s].block])
      BY <1>11, <2>2 DEF Sweep
    <3>2. leases[s].block \in Block
      BY DEF LeasesOf, Inv, Typed, LeaseRecord
    <3> DEFINE j == [i EXCEPT !.block = leases[s].block]
    <3>3. j \in Job /\ j.op = i.op /\ j.bytes = i.bytes
      BY <1>1, <3>2 DEF Job
    <3>4. Become(t, "sweep-release", j) /\ pc[t] = "sweep"
      BY <1>11, <3>1 DEF Sweep
    <3> HIDE DEF j, i
    <3>5. JobOk("sweep-release", j)
      BY <1>1, <3>3, <3>4 DEF JobOk, Label
    <3> QED BY <1>2, <3>4, <3>5
  <2> QED BY <2>1, <2>2
<1>12. CASE Callback(t)
  <2>1. PICK n \in 0 .. i.external : MoreFrom(t, [i EXCEPT !.donorFreed = n])
    BY <1>12 DEF Callback
  <2>2. n \in Nat
    BY <1>1 DEF Job
  <2> DEFINE j == [i EXCEPT !.donorFreed = n]
  <2>3. j \in Job /\ j.op = i.op /\ j.bytes = i.bytes
    BY <1>1, <2>2 DEF Job
  <2>4. MoreFrom(t, j) /\ pc[t] = "callback"
    BY <1>12, <2>1 DEF Callback
  <2> HIDE DEF j, i
  <2>5. /\ j.op \in {"request", "ensure", "service"}
        /\ j.op \in {"request", "ensure"} => j.bytes > 0
    BY <1>1, <2>3, <2>4 DEF JobOk
  <2> QED BY <1>2, <2>3, <2>4, <2>5, MoreFromOk
<1> QED BY <1>5, <1>6, <1>7, <1>8, <1>9, <1>10, <1>11, <1>12

(* The choice of a donor, and what it is asked for. *)
LEMMA AskedFor ==
  ASSUME Inv, ClientsTyped, NEW j \in Job, j.freed < j.target, NEW c, MayDonate(c, j)
  PROVE  /\ AskOf(c, j) \in Nat
         /\ AskOf(c, j) <= availableReclaim(c, j.region)
<1> DEFINE available == availableReclaim(c, j.region)
           wanted == j.target - j.freed
           share == Min({wanted, available})
<1>1. available \in Nat
  BY Amounts DEF MayDonate
<1>2. wanted \in Int /\ wanted > 0
  BY DEF Job
<1>3. AskOf(c, j) = IF share < minimumReclaimBytes /\ available >= minimumReclaimBytes
                    THEN minimumReclaimBytes ELSE share
  BY DEF AskOf
<1>4. minimumReclaimBytes \in Nat
  BY BrokerConstants
<1> HIDE DEF available, wanted
<1>5. share \in {wanted, available} /\ share <= available
  BY <1>1, <1>2, MinOfTwo
<1> HIDE DEF share
<1>6. share \in Nat
  BY <1>1, <1>2, <1>5
<1>7. AskOf(c, j) \in Nat /\ AskOf(c, j) <= available
  BY <1>1, <1>3, <1>4, <1>5, <1>6
<1> QED BY <1>7 DEF available

(* What a donor is asked for is a natural number, within what it has.      *)
LEMMA JobDonor ==
  ASSUME Inv, JobsOk, ClientsTyped, NEW t \in Task, Donor(t)
  PROVE  JobsOk'
<1> DEFINE i == job[t]
<1>1. i \in Job /\ JobOk("donor", i)
  BY DEF JobsOk, JobOk, Donor
<1>2. i.op \in {"request", "ensure", "service"} /\ (i.op \in {"request", "ensure"} => i.bytes > 0)
      /\ i.freed < i.target
  BY <1>1 DEF JobOk
<1>3. CASE ReclaimReturns(t, i)
  BY <1>1, <1>2, <1>3, ReclaimReturnsOk, JobMoves
<1>4. CASE ~ReclaimReturns(t, i)
  <2>1. PICK c \in Client :
          /\ findBestDonor(c, i)
          /\ LET ask == AskOf(c, i)
                 ext == Min({ask, ExternalAvailable(c, i.region)})
             IN Become(t, IF ext > 0 THEN "callback" ELSE "elastic",
                       [i EXCEPT !.donor = c, !.ask = ask, !.external = ext,
                                 !.attempted = @ \cup {c}])
    BY <1>4 DEF Donor
  <2> DEFINE ask == AskOf(c, i)
             ext == Min({ask, ExternalAvailable(c, i.region)})
             j == [i EXCEPT !.donor = c, !.ask = ask, !.external = ext,
                            !.attempted = @ \cup {c}]
  <2>2. MayDonate(c, i) /\ Registered(c)
    BY <2>1 DEF findBestDonor, MayDonate
  <2>3. ask \in Nat
    BY <1>1, <1>2, <2>2, AskedFor
  <2>4. ext \in Nat
    <3> DEFINE other == ExternalAvailable(c, i.region)
    <3>1. other \in Nat /\ ext = Min({ask, other})
      BY <2>2, Amounts
    <3> HIDE DEF other, ask, ext
    <3> QED BY <2>3, <3>1, MinOfTwo
  <2>5. Become(t, "callback", j) \/ Become(t, "elastic", j)
    BY <2>1
  <2> HIDE DEF ask, ext
  <2>6. i.attempted \cup {c} \in SUBSET Client
    BY <1>1 DEF Job
  <2>7. j \in Job
    BY <1>1, <2>3, <2>4, <2>6 DEF Job
  <2>8. j.op = i.op /\ j.bytes = i.bytes
    BY <1>1 DEF Job
  <2> HIDE DEF j, i
  <2>9. JobOk("callback", j) /\ JobOk("elastic", j)
    BY <1>2, <2>7, <2>8 DEF JobOk, Label
  <2> QED BY <2>5, <2>9, JobMoves
<1> QED BY <1>3, <1>4

(* What a lease gave is counted as freed.                                  *)
LEMMA JobElastic ==
  ASSUME Inv, JobsOk, NEW t \in Task, Elastic(t)
  PROVE  JobsOk'
<1> DEFINE i == job[t]
<1>1. i \in Job /\ JobOk("elastic", i)
  BY DEF JobsOk, JobOk, Elastic
<1>2. i.op \in {"request", "ensure", "service"} /\ (i.op \in {"request", "ensure"} => i.bytes > 0)
  BY <1>1 DEF JobOk
<1>3. CASE NextDonor(t, i)
  BY <1>1, <1>2, <1>3, NextDonorOk, JobMoves
<1>4. CASE ~NextDonor(t, i)
  <2>1. PICK s \in Reclaimable(i.donor, i.region) :
          Become(t, "notify",
                 [i EXCEPT !.block = leases[s].block, !.notify = leases[s].owner,
                           !.donorFreed = @ + leases[s].bytes])
    BY <1>4 DEF Elastic
  <2> DEFINE j == [i EXCEPT !.block = leases[s].block, !.notify = leases[s].owner,
                            !.donorFreed = @ + leases[s].bytes]
  <2>2. leases[s] \in LeaseRecord
    BY DEF Reclaimable, ElasticLeases, LeasesOf, Inv, Typed
  <2>3. /\ leases[s].block \in Block /\ leases[s].owner \in Handle \cup {NoHandle}
        /\ i.donorFreed + leases[s].bytes \in Nat
    BY <1>1, <2>2 DEF LeaseRecord, Job
  <2>4. j \in Job /\ j.op = i.op /\ j.bytes = i.bytes
    BY <1>1, <2>3 DEF Job
  <2>5. Become(t, "notify", j)
    BY <2>1
  <2> HIDE DEF j, i
  <2>6. JobOk("notify", j)
    BY <1>2, <2>4 DEF JobOk, Label
  <2> QED BY <2>5, <2>6, JobMoves
<1> QED BY <1>3, <1>4

(* After giving a block back a call returns, or goes on as it would have.  *)
LEMMA JobGivesBack ==
  ASSUME Inv, JobsOk, NEW t \in Task, GiveBack(t)
  PROVE  JobsOk'
<1> DEFINE i == job[t]
           j == [i EXCEPT !.block = NoBlock, !.notify = NoHandle]
<1>1. i \in Job /\ JobOk("giveback", i)
  BY DEF JobsOk, JobOk, GiveBack
<1>2. j \in Job /\ j.op = i.op /\ j.bytes = i.bytes
  BY <1>1 DEF Job
<1>3. \/ Return(t) \/ Become(t, "clear", j)
      \/ j.op = "sweep" /\ Become(t, "sweep", j)
      \/ j.op \notin {"release", "drop", "sweep"} /\ MoreFrom(t, j)
  BY DEF GiveBack
<1>4. j.op \in Op
  BY <1>2 DEF Job
<1> HIDE DEF j, i
<1>5. JobOk("clear", j) /\ (j.op = "sweep" => JobOk("sweep", j))
  BY <1>1, <1>2 DEF JobOk, Label
<1>6. CASE Return(t)
  BY <1>6, NoJobOk, JobMoves DEF Return
<1>7. CASE Become(t, "clear", j) \/ (j.op = "sweep" /\ Become(t, "sweep", j))
  BY <1>5, <1>7, JobMoves
<1>8. CASE j.op \notin {"release", "drop", "sweep"} /\ MoreFrom(t, j)
  <2>1. /\ j.op \in {"request", "ensure", "service"}
        /\ j.op \in {"request", "ensure"} => j.bytes > 0
    BY <1>1, <1>2, <1>4, <1>8 DEF JobOk, Op
  <2> QED BY <1>2, <1>8, <2>1, MoreFromOk, JobMoves
<1> QED BY <1>3, <1>6, <1>7, <1>8

(* A sweep carries the block of the lease that it cleared.                 *)
LEMMA JobSweeps ==
  ASSUME Inv, JobsOk, NEW t \in Task, SweepRelease(t)
  PROVE  JobsOk'
<1> DEFINE i == job[t]
<1>1. i \in Job /\ JobOk("sweep-release", i)
  BY DEF JobsOk, JobOk, SweepRelease
<1>2. CASE Return(t)
  BY <1>2, NoJobOk, JobMoves DEF Return
<1>3. CASE ~Return(t)
  <2>1. PICK s \in LeaseAt(i.client, i.block) : TakeBack(t, s, i)
    BY <1>3 DEF SweepRelease
  <2> DEFINE k == [i EXCEPT !.block = leases[s].block, !.notify = leases[s].owner]
  <2>2. leases[s].block \in Block /\ leases[s].owner \in Handle \cup {NoHandle}
    BY DEF Inv, Typed, LeaseAt, LeasesOf, LeaseRecord
  <2>3. k \in Job /\ k.op = i.op /\ k.bytes = i.bytes
    BY <1>1, <2>2 DEF Job
  <2>4. Become(t, "giveback", k) \/ Become(t, "notify", k)
    BY <2>1 DEF TakeBack
  <2> HIDE DEF k, i
  <2>5. JobOk("giveback", k) /\ JobOk("notify", k)
    BY <1>1, <2>3 DEF JobOk, Label
  <2> QED BY <2>4, <2>5, JobMoves
<1> QED BY <1>2, <1>3

-----------------------------------------------------------------------------
(* The tables agree *)

(* Client records that keep their registration and their managed bytes. *)
LEMMA TablesClients ==
  ASSUME Inv, TablesOk, UNCHANGED leases, ClientsTyped',
         \A c \in Client : Registered(c)' <=> Registered(c),
         \A c \in Client : Registered(c) =>
             /\ clients'[c].managed = clients[c].managed
             /\ clients'[c].reclaimable <= clients'[c].observed
  PROVE  TablesOk'
<1>1. Taken' = Taken
  BY DEF Taken
<1>2. \A s \in Taken : leases[s].client \in Client
  BY DEF Inv, Typed, Taken, LeaseRecord
<1>3. Leased'
  BY <1>1, <1>2 DEF TablesOk, Leased
<1>4. ASSUME NEW c \in Client, Registered(c)'
      PROVE  Managed(c)' /\ clients'[c].reclaimable <= clients'[c].observed
  <2>1. LeasesOf(c)' = LeasesOf(c)
    BY DEF LeasesOf
  <2>2. Total(leases, LeasesOf(c))' = Total(leases, LeasesOf(c))
    BY <2>1, Zenon DEF Total
  <2>3. Registered(c) /\ Managed(c)
    BY <1>4 DEF TablesOk, Books
  <2> QED BY <2>2, <2>3 DEF Managed
<1>5. Books'
  BY <1>4 DEF Books
<1> QED BY <1>3, <1>5 DEF TablesOk

(* One of them. *)
LEMMA TablesUpdate ==
  ASSUME Inv, TablesOk, UNCHANGED leases, NEW c \in Client, Registered(c), NEW r \in ClientRecord,
         Update(c, r), r.managed = clients[c].managed, r.reclaimable <= r.observed
  PROVE  TablesOk'
<1>1. clients'[c] = r /\ \A d \in Client \ {c} : clients'[d] = clients[d]
  BY DEF Update, TablesOk, ClientsTyped
<1>2. ClientsTyped'
  BY DEF Update, TablesOk, ClientsTyped
<1>3. r # Unused
  BY NullRecords
<1>4. \A d \in Client : Registered(d)' <=> Registered(d)
  BY <1>1, <1>3 DEF Registered
<1>5. \A d \in Client : Registered(d) =>
          /\ clients'[d].managed = clients[d].managed
          /\ clients'[d].reclaimable <= clients'[d].observed
  BY <1>1 DEF TablesOk, Books
<1> QED BY <1>2, <1>4, <1>5, TablesClients

(* A step that leaves the tables alone keeps the books.                    *)
LEMMA TablesStay ==
  ASSUME Inv, TablesOk, UNCHANGED tables
  PROVE  TablesOk'
<1>1. ClientsTyped' /\ \A c \in Client : Registered(c)' <=> Registered(c)
  BY DEF TablesOk, ClientsTyped, tables, Registered
<1>2. \A c \in Client : Registered(c) => clients'[c].reclaimable <= clients'[c].observed
  BY DEF TablesOk, Books, tables
<1> QED BY <1>1, <1>2, TablesClients DEF tables

(* A registered client has a record of its type.                           *)
LEMMA ClientFields ==
  ASSUME ClientsTyped, NEW c, Registered(c)
  PROVE  clients[c] \in ClientRecord
  BY DEF ClientsTyped, Registered

(* Settings change neither leases nor byte totals.                         *)
LEMMA TablesSet ==
  ASSUME Inv, TablesOk, NEW t \in Task,
         setPriority(t) \/ setActivity(t) \/ setObservedUsage(t) \/ setReclaimer(t)
           \/ setLimits(t) \/ touch(t)
  PROVE  TablesOk'
<1>1. UNCHANGED leases
  BY DEF setPriority, setActivity, setObservedUsage, setReclaimer, setLimits, touch, Quick
<1>2. ASSUME NEW c \in Client, Registered(c), NEW r \in ClientRecord, Update(c, r),
             r.managed = clients[c].managed, r.reclaimable <= r.observed
      PROVE  TablesOk'
  BY <1>1, <1>2, TablesUpdate
<1>3. ASSUME NEW c \in Client, Registered(c)
      PROVE  /\ clients[c] \in ClientRecord
             /\ clients[c].reclaimable <= clients[c].observed
  BY <1>3, ClientFields DEF TablesOk, Books
<1>4. CASE setPriority(t)
  <2>1. PICK c \in Client, p \in Priorities :
          Registered(c) /\ Update(c, [clients[c] EXCEPT !.priority = p])
    BY <1>4 DEF setPriority
  <2> DEFINE r == [clients[c] EXCEPT !.priority = p]
  <2>2. r \in ClientRecord /\ r.managed = clients[c].managed /\ r.reclaimable <= r.observed
    BY <1>3, <2>1, BrokerConstants DEF ClientRecord
  <2> QED BY <1>2, <2>1, <2>2
<1>5. CASE setActivity(t)
  <2>1. PICK c \in Client, a \in Activities :
          Registered(c) /\ Update(c, [clients[c] EXCEPT !.activity = a])
    BY <1>5 DEF setActivity
  <2> DEFINE r == [clients[c] EXCEPT !.activity = a]
  <2>2. r \in ClientRecord /\ r.managed = clients[c].managed /\ r.reclaimable <= r.observed
    BY <1>3, <2>1, BrokerConstants DEF ClientRecord
  <2> QED BY <1>2, <2>1, <2>2
<1>6. CASE setObservedUsage(t)
  <2>1. PICK c \in Client, u \in Reports :
          /\ Registered(c)
          /\ Update(c, [clients[c] EXCEPT
                !.observed = u.bytes,
                !.reclaimable = Min({u.reclaimable, u.bytes}),
                !.region = u.region])
    BY <1>6 DEF setObservedUsage
  <2> DEFINE x == u.reclaimable
             y == u.bytes
             m == Min({x, y})
             r == [clients[c] EXCEPT !.observed = y, !.reclaimable = m, !.region = u.region]
  <2>2. x \in Nat /\ y \in Nat /\ u.region \in Region
    BY BrokerConstants
  <2>3. Update(c, r)
    BY <2>1
  <2> HIDE DEF x, y
  <2>4. m \in {x, y} /\ m <= y
    <3>1. x \in Int /\ y \in Int
      BY <2>2
    <3> QED BY <3>1, MinOfTwo
  <2> HIDE DEF m
  <2>5. m \in Nat /\ m <= y
    BY <2>2, <2>4
  <2>6. r \in ClientRecord /\ r.managed = clients[c].managed /\ r.reclaimable <= r.observed
    BY <1>3, <2>1, <2>2, <2>5 DEF ClientRecord
  <2> QED BY <1>2, <2>1, <2>3, <2>6
<1>7. CASE setReclaimer(t)
  <2>1. PICK c \in Client, b \in Reclaimers :
          Registered(c) /\ Update(c, [clients[c] EXCEPT !.reclaims = b])
    BY <1>7 DEF setReclaimer
  <2> DEFINE r == [clients[c] EXCEPT !.reclaims = b]
  <2>2. r \in ClientRecord /\ r.managed = clients[c].managed /\ r.reclaimable <= r.observed
    BY <1>3, <2>1, BrokerConstants DEF ClientRecord
  <2> QED BY <1>2, <2>1, <2>2
<1>8. CASE setLimits(t)
  <2>1. PICK c \in Client, l \in Limits :
          Registered(c) /\ Update(c, [clients[c] EXCEPT !.minimum = l.minimum,
                                        !.soft = l.soft, !.hard = l.hard])
    BY <1>8 DEF setLimits
  <2> DEFINE r == [clients[c] EXCEPT !.minimum = l.minimum, !.soft = l.soft, !.hard = l.hard]
  <2>2. l.minimum \in Nat /\ l.soft \in Nat /\ l.hard \in Nat
    BY BrokerConstants
  <2>3. r \in ClientRecord /\ r.managed = clients[c].managed /\ r.reclaimable <= r.observed
    BY <1>3, <2>1, <2>2 DEF ClientRecord
  <2> QED BY <1>2, <2>1, <2>3
<1>9. CASE touch(t)
  <2>1. PICK h \in Handle :
          /\ Registered(ClientOf[h])
          /\ Update(ClientOf[h], [clients[ClientOf[h]] EXCEPT !.activity = Active])
    BY <1>9 DEF touch
  <2> DEFINE c == ClientOf[h]
             r == [clients[c] EXCEPT !.activity = Active]
  <2>2. c \in Client /\ Registered(c) /\ Update(c, r)
    BY <2>1, BrokerConstants
  <2> HIDE DEF c
  <2>3. r \in ClientRecord /\ r.managed = clients[c].managed /\ r.reclaimable <= r.observed
    BY <1>3, <2>2 DEF ClientRecord, Active, Activity, Idle, Burst
  <2> QED BY <1>2, <2>2, <2>3
<1> QED BY <1>4, <1>5, <1>6, <1>7, <1>8, <1>9

(* Ageing lowers activities only.                                          *)
LEMMA TablesAge ==
  ASSUME Inv, TablesOk, refreshActivities, UNCHANGED leases
  PROVE  TablesOk'
<1>1. PICK f \in [Client -> Activity] :
        clients' = [c \in Client |->
             IF Registered(c) THEN [clients[c] EXCEPT !.activity = f[c]] ELSE Unused]
  BY DEF refreshActivities
<1>2. ASSUME NEW c \in Client
      PROVE  IF Registered(c)
             THEN /\ clients'[c] \in ClientRecord
                  /\ clients'[c].managed = clients[c].managed
                  /\ clients'[c].reclaimable = clients[c].reclaimable
                  /\ clients'[c].observed = clients[c].observed
             ELSE clients'[c] = Unused
  <2>1. CASE Registered(c)
    <3>1. clients'[c] = [clients[c] EXCEPT !.activity = f[c]] /\ f[c] \in Activity
      BY <1>1, <2>1
    <3>2. clients[c] \in ClientRecord
      BY <2>1, ClientFields DEF TablesOk
    <3> QED BY <2>1, <3>1, <3>2 DEF ClientRecord
  <2> QED BY <1>1, <2>1
<1>3. ClientsTyped'
  <2>1. clients' = [c \in Client |-> clients'[c]]
    BY <1>1, Zenon
  <2>2. \A c \in Client : clients'[c] \in ClientRecord \cup {Unused}
    BY <1>2
  <2> QED BY <2>1, <2>2 DEF ClientsTyped
<1>4. \A c \in Client : Registered(c)' <=> Registered(c)
  BY <1>2, NullRecords DEF Registered
<1>5. \A c \in Client : Registered(c) =>
          /\ clients'[c].managed = clients[c].managed
          /\ clients'[c].reclaimable <= clients'[c].observed
  BY <1>2 DEF TablesOk, Books
<1> QED BY <1>3, <1>4, <1>5, TablesClients

(* The callback's report. *)
LEMMA TablesCallback ==
  ASSUME Inv, TablesOk, JobsOk, NEW t \in Task, Callback(t)
  PROVE  TablesOk'
<1> DEFINE d == job[t].donor
<1>1. UNCHANGED leases
  BY DEF Callback
<1>2. CASE Registered(d)
  <2>1. PICK n \in 0 .. job[t].external :
          Update(d, [clients[d] EXCEPT
                    !.observed = Max({0, @ - n}), !.reclaimable = Max({0, @ - n})])
    BY <1>2 DEF Callback
  <2>2. n \in Nat
    BY DEF JobsOk, JobOk, Job
  <2>3. clients[d] \in ClientRecord /\ clients[d].reclaimable <= clients[d].observed /\ d \in Client
    BY <1>2, ClientFields DEF TablesOk, Books, Registered
  <2> DEFINE x == clients[d].observed - n
             y == clients[d].reclaimable - n
             r == [clients[d] EXCEPT !.observed = Max({0, x}), !.reclaimable = Max({0, y})]
  <2>4. Update(d, r)
    BY <2>1
  <2>5. x \in Int /\ y \in Int /\ y <= x
    BY <2>2, <2>3 DEF ClientRecord
  <2> HIDE DEF x, y, d
  <2>6. /\ Max({0, x}) \in Nat /\ Max({0, y}) \in Nat
        /\ Max({0, y}) <= Max({0, x})
    BY <2>5, MaxOfZero
  <2>7. r \in ClientRecord /\ r.managed = clients[d].managed /\ r.reclaimable <= r.observed
    BY <2>3, <2>6 DEF ClientRecord
  <2> QED BY <1>1, <1>2, <2>3, <2>4, <2>7, TablesUpdate
<1>3. CASE ~Registered(d)
  BY <1>1, <1>3, TablesStay DEF Callback, tables
<1> QED BY <1>2, <1>3

(* A new client starts with no leases and empty books.                     *)
LEMMA TablesRegister ==
  ASSUME Inv, TablesOk, NEW t \in Task, registerClient(t)
  PROVE  TablesOk'
<1>1. PICK c \in Client, p \in Profiles :
        /\ clients[c] = Unused
        /\ Update(c, [priority |-> p.priority, activity |-> Idle,
                      minimum |-> p.minimum, soft |-> p.soft, hard |-> p.hard,
                      reclaims |-> p.reclaims, decays |-> p.decays,
                      managed |-> 0, observed |-> 0, reclaimable |-> 0,
                      region |-> "PSRAM"])
  BY DEF registerClient, IsFirst
<1> DEFINE r == [priority |-> p.priority, activity |-> Idle,
                 minimum |-> p.minimum, soft |-> p.soft, hard |-> p.hard,
                 reclaims |-> p.reclaims, decays |-> p.decays,
                 managed |-> 0, observed |-> 0, reclaimable |-> 0,
                 region |-> "PSRAM"]
<1>2. p \in Profile
  BY BrokerConstants
<1>3. r \in ClientRecord /\ r.managed = 0 /\ r.reclaimable <= r.observed
  BY <1>2 DEF Profile, ClientRecord, Region, Activity, Idle, Burst
<1>4. Update(c, r) /\ UNCHANGED leases
  BY <1>1 DEF registerClient, Quick
<1> HIDE DEF r
<1>5. clients'[c] = r /\ \A d \in Client \ {c} : clients'[d] = clients[d]
  BY <1>4 DEF Update, TablesOk, ClientsTyped
<1>6. ClientsTyped'
  BY <1>3, <1>4 DEF Update, TablesOk, ClientsTyped
<1>7. \A d \in Client : Registered(d)' <=> (Registered(d) \/ d = c)
  BY <1>3, <1>5, NullRecords DEF Registered
<1>8. Taken' = Taken /\ \A s \in Taken : leases[s].client \in Client
  BY <1>4 DEF Taken, Inv, Typed, LeaseRecord
<1>9. Leased'
  BY <1>4, <1>7, <1>8 DEF TablesOk, Leased
<1>10. ASSUME NEW d \in Client
       PROVE  Total(leases, LeasesOf(d))' = Total(leases, LeasesOf(d))
  <2>1. LeasesOf(d)' = LeasesOf(d)
    BY <1>4 DEF LeasesOf
  <2> QED BY <1>4, <2>1, Zenon DEF Total
<1>11. Managed(c)'
  <2>1. ~Registered(c)
    BY <1>1 DEF Registered
  <2>2. LeasesOf(c) = {}
    BY <2>1 DEF LeasesOf, TablesOk, Leased, Taken
  <2>3. Total(leases, LeasesOf(c)) = 0
    BY <2>2, TotalEmpty
  <2> QED BY <1>3, <1>5, <1>10, <2>3 DEF Managed
<1>12. ASSUME NEW d \in Client, Registered(d)'
       PROVE  Managed(d)' /\ clients'[d].reclaimable <= clients'[d].observed
  <2>1. CASE d = c
    BY <1>3, <1>5, <1>11, <2>1
  <2>2. CASE d # c
    <3>1. Registered(d) /\ clients'[d] = clients[d]
      BY <1>5, <1>7, <1>12, <2>2
    <3> QED BY <1>10, <3>1 DEF TablesOk, Books, Managed
  <2> QED BY <2>1, <2>2
<1>13. Books'
  BY <1>12 DEF Books
<1> QED BY <1>6, <1>9, <1>13 DEF TablesOk

(* A client that has no managed bytes has no leases. *)
LEMMA NothingLeased ==
  ASSUME Inv, TablesOk, NEW c \in Client, Registered(c), clients[c].managed = 0
  PROVE  LeasesOf(c) = {}
<1> SUFFICES ASSUME NEW s \in LeasesOf(c) PROVE FALSE
  OBVIOUS
<1> DEFINE S == LeasesOf(c)
           R == S \ {s}
<1>1. S \subseteq Taken /\ S \subseteq Slot /\ s \in S
  BY DEF LeasesOf, Taken
<1>2. Total(leases, S) = 0
  BY DEF TablesOk, Books, Managed
<1>3. Total(leases, {s}) = leases[s].bytes /\ leases[s].bytes > 0
  <2>1. s \in Taken /\ leases[s].bytes \in Nat
    BY <1>1 DEF Inv, Typed, Taken, LeaseRecord
  <2>2. leases[s].bytes > 0
    BY <2>1 DEF TablesOk, Leased
  <2> QED BY <2>1, <2>2, TotalOne
<1>4. Parts(S, {s}, R)
  BY <1>1 DEF Parts
<1>5. IsFiniteSet(S) /\ Sized(leases, S)
  BY <1>1, LeasesFinite, LeasesSized
<1> HIDE DEF S, R
<1>6. /\ Total(leases, S) = Total(leases, {s}) + Total(leases, R)
      /\ Total(leases, {s}) \in Nat /\ Total(leases, R) \in Nat
  BY <1>4, <1>5, TotalSplit
<1> QED BY <1>2, <1>3, <1>6

(* A client is removed only with a total of zero, that is without leases.  *)
LEMMA TablesUnregister ==
  ASSUME Inv, TablesOk, NEW t \in Task, unregisterClient(t)
  PROVE  TablesOk'
<1>1. PICK c \in Client : Registered(c) /\ clients[c].managed = 0 /\ Update(c, Unused)
  BY DEF unregisterClient
<1>2. UNCHANGED leases
  BY DEF unregisterClient, Quick
<1>3. clients'[c] = Unused /\ \A d \in Client \ {c} : clients'[d] = clients[d]
  BY <1>1 DEF Update, TablesOk, ClientsTyped
<1>4. ClientsTyped'
  BY <1>1 DEF Update, TablesOk, ClientsTyped
<1>5. \A d \in Client : Registered(d)' <=> (Registered(d) /\ d # c)
  BY <1>3 DEF Registered
<1>6. \A s \in Taken : leases[s].client \in Client /\ leases[s].client # c
  BY <1>1, NothingLeased DEF Taken, LeasesOf, Inv, Typed, LeaseRecord
<1>7. Taken' = Taken
  BY <1>2 DEF Taken
<1>8. Leased'
  BY <1>2, <1>5, <1>6, <1>7 DEF TablesOk, Leased
<1>9. ASSUME NEW d \in Client, Registered(d)'
      PROVE  Managed(d)' /\ clients'[d].reclaimable <= clients'[d].observed
  <2>1. LeasesOf(d)' = LeasesOf(d)
    BY <1>2 DEF LeasesOf
  <2>2. Total(leases, LeasesOf(d))' = Total(leases, LeasesOf(d))
    BY <1>2, <2>1, Zenon DEF Total
  <2>3. Registered(d) /\ clients'[d] = clients[d]
    BY <1>3, <1>5, <1>9
  <2> QED BY <2>2, <2>3 DEF TablesOk, Books, Managed
<1>10. Books'
  BY <1>9 DEF Books
<1> QED BY <1>4, <1>8, <1>10 DEF TablesOk

(* A lease of a registered client is entered, and its bytes are added. *)
LEMMA TablesEnter ==
  ASSUME Inv, TablesOk, NEW s \in Slot \ Taken, NEW l \in LeaseRecord,
         leases' = [leases EXCEPT ![s] = l], l.bytes > 0, Registered(l.client),
         Update(l.client, [clients[l.client] EXCEPT !.managed = @ + l.bytes,
                                                    !.activity = Active])
  PROVE  TablesOk'
<1> DEFINE c == l.client
           r == [clients[c] EXCEPT !.managed = @ + l.bytes, !.activity = Active]
<1>1. c \in Client /\ clients[c] \in ClientRecord /\ l.bytes \in Nat
  BY ClientFields DEF LeaseRecord, TablesOk
<1>2. /\ r \in ClientRecord /\ r.managed = clients[c].managed + l.bytes
      /\ r.reclaimable = clients[c].reclaimable /\ r.observed = clients[c].observed
  <2>1. clients[c].managed + l.bytes \in Nat /\ Active \in Activity
    BY <1>1 DEF ClientRecord, Active, Activity, Idle, Burst
  <2>2. /\ r.managed = clients[c].managed + l.bytes
        /\ r.reclaimable = clients[c].reclaimable /\ r.observed = clients[c].observed
    BY <1>1 DEF ClientRecord
  <2>3. r \in ClientRecord
    BY <1>1, <2>1 DEF ClientRecord
  <2> QED BY <2>2, <2>3
<1>3. Update(c, r) /\ c = l.client /\ Registered(c)
  OBVIOUS
<1> HIDE DEF r, c
<1>4. clients'[c] = r /\ \A d \in Client \ {c} : clients'[d] = clients[d]
  BY <1>1, <1>3 DEF Update, TablesOk, ClientsTyped
<1>5. ClientsTyped'
  BY <1>2, <1>3 DEF Update, TablesOk, ClientsTyped
<1>6. \A d \in Client : Registered(d)' <=> Registered(d)
  BY <1>2, <1>3, <1>4, NullRecords DEF Registered
<1>7. leases'[s] = l /\ l # Vacant /\ \A q \in Slot \ {s} : leases'[q] = leases[q]
  BY NullRecords DEF Inv, Typed
<1>8. Taken' = Taken \cup {s} /\ \A q \in Taken : q # s /\ leases'[q] = leases[q]
  BY <1>7 DEF Taken
<1>9. \A q \in Taken : leases[q].client \in Client
  BY DEF Taken, Inv, Typed, LeaseRecord
<1>10. Leased'
  BY <1>1, <1>3, <1>6, <1>7, <1>8, <1>9 DEF TablesOk, Leased
<1>11. ASSUME NEW d \in Client
       PROVE  LeasesOf(d)' = IF d = c THEN LeasesOf(d) \cup {s} ELSE LeasesOf(d)
  BY <1>3, <1>7, <1>8 DEF LeasesOf, Taken
<1>12. Managed(c)'
  <2> DEFINE S == LeasesOf(c)
  <2>1. S \subseteq Taken /\ S \subseteq Slot /\ s \notin S
    BY DEF LeasesOf, Taken
  <2>2. IsFiniteSet(S) /\ Sized(leases, S)
    BY <2>1, LeasesFinite, LeasesSized
  <2>3. \A q \in S : leases'[q].bytes = leases[q].bytes
    BY <1>8, <2>1
  <2>4. Total(leases, S) = clients[c].managed
    BY <1>1, <1>3 DEF TablesOk, Books, Managed
  <2>5. LeasesOf(c)' = S \cup {s}
    BY <1>1, <1>11
  <2> HIDE DEF S
  <2>6. Total(leases', S \cup {s}) = Total(leases, S) + leases'[s].bytes
    <3> DEFINE e == leases'
    <3>1. (\A q \in S : e[q].bytes = leases[q].bytes) /\ e[s].bytes \in Nat
      BY <1>1, <1>7, <2>3
    <3> HIDE DEF e
    <3>2. Total(e, S \cup {s}) = Total(leases, S) + e[s].bytes
      BY <2>1, <2>2, <3>1, TotalAdd
    <3> QED BY <3>2 DEF e
  <2>7. Total(leases', LeasesOf(c)') = clients'[c].managed
    BY <1>2, <1>4, <1>7, <2>4, <2>5, <2>6
  <2> QED BY <2>7 DEF Managed
<1>13. ASSUME NEW d \in Client, Registered(d)'
       PROVE  Managed(d)' /\ clients'[d].reclaimable <= clients'[d].observed
  <2>1. Registered(d)
    BY <1>6, <1>13
  <2>2. CASE d = c
    BY <1>2, <1>4, <1>12, <2>1, <2>2 DEF TablesOk, Books
  <2>3. CASE d # c
    <3>1. LeasesOf(d)' = LeasesOf(d) /\ clients'[d] = clients[d]
      BY <1>4, <1>11, <2>3
    <3>2. \A q \in LeasesOf(d) : leases[q].bytes = leases'[q].bytes
      BY <1>8 DEF LeasesOf, Taken
    <3> DEFINE e == leases'
    <3>3. Total(leases, LeasesOf(d)) = Total(e, LeasesOf(d))
      <4>1. \A q \in LeasesOf(d) : leases[q].bytes = e[q].bytes
        BY <3>2
      <4> HIDE DEF e
      <4> QED BY <4>1, TotalSame
    <3> QED BY <2>1, <3>1, <3>3 DEF TablesOk, Books, Managed, e
  <2> QED BY <2>2, <2>3
<1>14. Books'
  BY <1>13 DEF Books
<1> QED BY <1>5, <1>10, <1>14 DEF TablesOk

(* A lease leaves the table, and its bytes are taken off. *)
LEMMA TablesRemove ==
  ASSUME Inv, TablesOk, NEW s \in Taken, RemoveLease(s)
  PROVE  TablesOk'
<1> DEFINE l == leases[s]
           c == l.client
           r == [clients[c] EXCEPT !.managed = @ - l.bytes]
           S == LeasesOf(c)
           R == S \ {s}
<1>1. /\ l \in LeaseRecord /\ c \in Client /\ l.bytes \in Nat /\ s \in Slot
      /\ Registered(c) /\ s \in S
  BY DEF Taken, Inv, Typed, LeaseRecord, TablesOk, Leased, LeasesOf
<1>2. clients[c] \in ClientRecord
  BY <1>1, ClientFields DEF TablesOk
<1>3. leases' = [leases EXCEPT ![s] = Vacant]
  BY DEF RemoveLease
<1>4. leases'[s] = Vacant /\ \A q \in Slot \ {s} : leases'[q] = leases[q]
  BY <1>1, <1>3 DEF Inv, Typed
<1>5. Taken' = Taken \ {s} /\ \A q \in Taken' : leases'[q] = leases[q] /\ q \in Taken
  BY <1>4 DEF Taken
<1>6. \A d \in Client : LeasesOf(d)' = IF d = c THEN R ELSE LeasesOf(d)
  BY <1>4 DEF LeasesOf
<1>7. /\ Total(leases', R) = clients[c].managed - l.bytes
      /\ clients[c].managed >= l.bytes
  <2>1. S \subseteq Taken /\ S \subseteq Slot
    BY DEF LeasesOf, Taken
  <2>2. IsFiniteSet(S) /\ Sized(leases, S)
    BY <2>1, LeasesFinite, LeasesSized
  <2>3. \A q \in R : leases'[q].bytes = leases[q].bytes
    BY <1>4, <2>1
  <2>4. Total(leases, S) = clients[c].managed
    BY <1>1 DEF TablesOk, Books, Managed
  <2>5. Parts(S, {s}, R)
    BY <1>1 DEF Parts
  <2>6. Total(leases, {s}) = l.bytes
    BY <1>1, TotalOne
  <2> HIDE DEF S, R, c
  <2>7. /\ Total(leases', R) = Total(leases, S) - Total(leases, {s})
        /\ Total(leases, S) \in Nat /\ Total(leases, {s}) \in Nat /\ Total(leases', R) \in Nat
    BY <2>2, <2>3, <2>5, TotalRemove
  <2> QED BY <1>1, <2>4, <2>6, <2>7
<1>8. Update(c, r)
  BY <1>1, <1>7 DEF RemoveLease
<1>9. /\ r \in ClientRecord /\ r.managed = clients[c].managed - l.bytes
      /\ r.reclaimable = clients[c].reclaimable /\ r.observed = clients[c].observed
  BY <1>1, <1>2, <1>7 DEF ClientRecord
<1> HIDE DEF r, c, S, R
<1>10. clients'[c] = r /\ \A d \in Client \ {c} : clients'[d] = clients[d]
  BY <1>1, <1>8 DEF Update, TablesOk, ClientsTyped
<1>11. ClientsTyped'
  BY <1>8, <1>9 DEF Update, TablesOk, ClientsTyped
<1>12. \A d \in Client : Registered(d)' <=> Registered(d)
  BY <1>1, <1>9, <1>10, NullRecords DEF Registered
<1>13. \A q \in Taken : leases[q].client \in Client
  BY DEF Taken, Inv, Typed, LeaseRecord
<1>14. Leased'
  BY <1>5, <1>12, <1>13 DEF TablesOk, Leased
<1>15. ASSUME NEW d \in Client, Registered(d)'
       PROVE  Managed(d)' /\ clients'[d].reclaimable <= clients'[d].observed
  <2>1. Registered(d)
    BY <1>12, <1>15
  <2>2. CASE d = c
    BY <1>1, <1>6, <1>7, <1>9, <1>10, <2>1, <2>2 DEF TablesOk, Books, Managed
  <2>3. CASE d # c
    <3>1. LeasesOf(d)' = LeasesOf(d) /\ clients'[d] = clients[d]
      BY <1>6, <1>10, <2>3
    <3>2. \A q \in LeasesOf(d) : leases[q].bytes = leases'[q].bytes
      <4>1. \A q \in LeasesOf(d) : q \in Slot /\ leases[q].client = d
        BY DEF LeasesOf
      <4>2. s \notin LeasesOf(d)
        BY <2>3, <4>1 DEF c
      <4> QED BY <1>4, <4>1, <4>2
    <3>3. Total(leases, LeasesOf(d)) = Total(leases', LeasesOf(d))
      BY <3>2, TotalSame
    <3> QED BY <2>1, <3>1, <3>3 DEF TablesOk, Books, Managed
  <2> QED BY <2>2, <2>3
<1>16. Books'
  BY <1>15 DEF Books
<1> QED BY <1>11, <1>14, <1>16 DEF TablesOk

(* A lease is entered together with its bytes.                             *)
LEMMA TablesRecord ==
  ASSUME Inv, TablesOk, JobsOk, NEW t \in Task, Record(t)
  PROVE  TablesOk'
<1> DEFINE j == job[t]
           l == [block |-> j.block, bytes |-> j.bytes, client |-> j.client,
                 owner |-> j.owner]
<1>1. /\ j \in Job /\ j.bytes > 0 /\ t \in Carriers
  BY DEF Record, JobsOk, JobOk, Carriers, Carrying
<1>2. PICK s \in Slot : leases[s] = Vacant /\ leases' = [leases EXCEPT ![s] = l]
  BY DEF Record, IsFirst
<1>3. s \in Slot \ Taken
  BY <1>2 DEF Taken
<1>4. Registered(j.client) /\ j.client \in Client
  BY DEF Record, CanRecord, Registered
<1>5. j.block \in Block
  BY <1>1 DEF Inv, Typed, FromTheManager
<1>6. Update(j.client, [clients[j.client] EXCEPT !.managed = @ + j.bytes,
                                                 !.activity = Active])
  BY DEF Record
<1> HIDE DEF j
<1>7. l \in LeaseRecord /\ l.bytes = j.bytes /\ l.client = j.client
  BY <1>1, <1>4, <1>5 DEF LeaseRecord, Job
<1> HIDE DEF l
<1>8. Update(l.client, [clients[l.client] EXCEPT !.managed = @ + l.bytes,
                                                 !.activity = Active])
  BY <1>6, <1>7
<1> QED BY <1>1, <1>2, <1>3, <1>4, <1>7, <1>8, TablesEnter

(* Every step keeps leases and books together.                             *)
LEMMA TablesNext ==
  ASSUME Inv, TablesOk, JobsOk, [Next]_vars
  PROVE  TablesOk'
<1>1. ASSUME UNCHANGED tables PROVE TablesOk'
  BY <1>1, TablesStay
<1>2. ASSUME NEW c, NEW b, NEW s \in LeaseAt(c, b) PROVE s \in Taken
  BY DEF LeaseAt, LeasesOf, Taken
<1>3. ASSUME NEW t \in Task, Start(t) PROVE TablesOk'
  <2>1. CASE registerClient(t) \/ unregisterClient(t)
    BY <2>1, TablesRegister, TablesUnregister
  <2>2. CASE \/ setPriority(t) \/ setActivity(t) \/ setObservedUsage(t) \/ setReclaimer(t)
             \/ setLimits(t) \/ touch(t)
    BY <2>2, TablesSet
  <2>3. CASE request(t) \/ ensure(t) \/ forget(t) \/ releaseClientAllocations(t)
    BY <1>1, <2>3 DEF request, ensure, forget, releaseClientAllocations
  <2>4. CASE service(t)
    BY <2>4, TablesAge DEF service
  <2>5. CASE release(t)
    <3>1. PICK c \in Client, b \in Block : \E s \in LeaseAt(c, b) : RemoveLease(s)
      BY <2>5 DEF release, TakeBack
    <3> QED BY <1>2, <3>1, TablesRemove
  <2>6. CASE DropHandle(t)
    <3>1. PICK h \in Handle :
            (\E s \in LeaseAt(ClientOf[h], data[h]) : RemoveLease(s)) \/ UNCHANGED tables
      BY <2>6 DEF DropHandle, TakeBack
    <3> QED BY <1>1, <1>2, <3>1, TablesRemove
  <2> QED BY <1>3, <2>1, <2>2, <2>3, <2>4, <2>5, <2>6 DEF Start
<1>4. ASSUME NEW t \in Task, Step(t) PROVE TablesOk'
  <2>1. CASE \/ Allocated(t) \/ AllocationFails(t) \/ RecordFails(t) \/ Assign(t) \/ Donor(t)
             \/ Notify(t) \/ GiveBack(t) \/ Clear(t) \/ Sweep(t)
    BY <1>1, <2>1
    DEF Allocated, AllocationFails, RecordFails, Assign, Donor, Notify, GiveBack, Clear, Sweep
  <2>2. CASE Refresh(t)
    BY <2>2, TablesAge DEF Refresh
  <2>3. CASE Callback(t) \/ Record(t)
    BY <2>3, TablesCallback, TablesRecord
  <2>4. CASE Elastic(t)
    <3>1. (\E s \in Taken : RemoveLease(s)) \/ UNCHANGED tables
      BY <2>4 DEF Elastic, Reclaimable, ElasticLeases, LeasesOf, Taken
    <3> QED BY <1>1, <3>1, TablesRemove
  <2>5. CASE SweepRelease(t)
    <3>1. (\E s \in LeaseAt(job[t].client, job[t].block) : RemoveLease(s)) \/ UNCHANGED tables
      BY <2>5 DEF SweepRelease, TakeBack
    <3> QED BY <1>1, <1>2, <3>1, TablesRemove
  <2> QED BY <1>4, <2>1, <2>2, <2>3, <2>4, <2>5 DEF Step
<1>5. CASE UNCHANGED vars
  BY <1>1, <1>5 DEF vars, tables
<1> QED BY <1>3, <1>4, <1>5 DEF Next

(* Every step keeps every task's locals good.                              *)
LEMMA JobsNext ==
  ASSUME Inv, TablesOk, JobsOk, [Next]_vars
  PROVE  JobsOk'
<1>1. ClientsTyped
  BY DEF TablesOk
<1>2. ASSUME NEW t \in Task, Start(t) PROVE JobsOk'
  <2>1. CASE \/ registerClient(t) \/ unregisterClient(t) \/ setPriority(t) \/ setActivity(t)
             \/ setObservedUsage(t) \/ setLimits(t) \/ setReclaimer(t) \/ touch(t) \/ forget(t)
    BY <2>1, JobStays
    DEF registerClient, unregisterClient, setPriority, setActivity, setObservedUsage,
        setLimits, setReclaimer, touch, forget, Quick
  <2> QED BY <1>1, <1>2, <2>1, JobBegins DEF Start
<1>3. ASSUME NEW t \in Task, Step(t) PROVE JobsOk'
  BY <1>1, <1>3, JobGoesOn, JobDonor, JobElastic, JobGivesBack, JobSweeps DEF Step
<1>4. CASE UNCHANGED vars
  BY <1>4, JobStays DEF vars, locals
<1> QED BY <1>2, <1>3, <1>4 DEF Next

DataTyped == data \in [Handle -> Block \cup {NoBlock}]

(* A handle has a block or none.                                           *)
LEMMA DataNext ==
  ASSUME JobsOk, DataTyped, [Next]_vars
  PROVE  DataTyped'
<1>1. ASSUME NEW h, NEW b \in Block \cup {NoBlock}, data' = [data EXCEPT ![h] = b]
      PROVE  DataTyped'
  BY <1>1 DEF DataTyped
<1>2. ASSUME UNCHANGED data PROVE DataTyped'
  BY <1>2 DEF DataTyped
<1>3. ASSUME NEW t \in Task, Start(t) PROVE DataTyped'
  <2>1. CASE ensure(t) \/ forget(t)
    BY <1>1, <2>1 DEF ensure, forget
  <2>2. CASE ~ensure(t) /\ ~forget(t)
    BY <1>2, <1>3, <2>2
    DEF Start, registerClient, unregisterClient, setPriority, setActivity, setObservedUsage,
        setLimits, setReclaimer, touch, Quick, request, service, release, DropHandle,
        releaseClientAllocations
  <2> QED BY <2>1, <2>2
<1>4. ASSUME NEW t \in Task, Step(t) PROVE DataTyped'
  <2>1. CASE Assign(t)
    BY <1>1, <2>1 DEF Assign, JobsOk, JobOk, Job
  <2>2. CASE Clear(t) \/ Notify(t)
    BY <1>1, <1>2, <2>2 DEF Clear, Notify
  <2>3. CASE ~Assign(t) /\ ~Clear(t) /\ ~Notify(t)
    <3>1. CASE Allocated(t) \/ AllocationFails(t) \/ Record(t) \/ RecordFails(t)
      BY <1>2, <3>1 DEF Allocated, AllocationFails, Record, RecordFails
    <3>2. CASE Refresh(t) \/ Donor(t) \/ Callback(t) \/ Elastic(t)
      BY <1>2, <3>2 DEF Refresh, Donor, Callback, Elastic
    <3>3. CASE GiveBack(t) \/ Sweep(t) \/ SweepRelease(t)
      BY <1>2, <3>3 DEF GiveBack, Sweep, SweepRelease
    <3> QED BY <1>4, <2>3, <3>1, <3>2, <3>3 DEF Step
  <2> QED BY <2>1, <2>2, <2>3
<1>5. CASE UNCHANGED vars
  BY <1>2, <1>5 DEF vars
<1> QED BY <1>3, <1>4, <1>5 DEF Next

BrokerInv == Inv /\ JobsOk /\ TablesOk /\ DataTyped

(* The invariant holds before the first call.                              *)
LEMMA BrokerInvInit == Init => BrokerInv
<1> SUFFICES ASSUME Init PROVE BrokerInv
  OBVIOUS
<1>1. JobsOk
  BY NoJobOk DEF Init, JobsOk
<1>2. Taken = {} /\ \A c \in Client : ~Registered(c)
  BY DEF Init, Taken, Registered
<1>3. TablesOk
  BY <1>2 DEF Init, TablesOk, ClientsTyped, Leased, Books
<1>4. DataTyped
  BY DEF Init, DataTyped
<1> QED BY <1>1, <1>3, <1>4, InvInit DEF BrokerInv

(* It implies that every variable has its type.                            *)
LEMMA BrokerInvType == BrokerInv => TypeOK
<1> SUFFICES ASSUME BrokerInv PROVE TypeOK
  OBVIOUS
<1>1. pc \in [Task -> Label] /\ job \in [Task -> Job]
  BY DEF BrokerInv, Inv, Typed, JobsOk, JobOk
<1> QED BY <1>1 DEF BrokerInv, Inv, Typed, TablesOk, ClientsTyped, DataTyped, TypeOK, Label

(* It holds in every reachable state, whatever calls overlap.              *)
LEMMA BrokerInvHolds == Spec => []BrokerInv
<1>1. BrokerInv /\ [Next]_vars => BrokerInv'
  BY InvNext, JobsNext, TablesNext, DataNext DEF BrokerInv
<1> QED BY <1>1, BrokerInvInit, PTL DEF Spec

(* MemoryBroker.cpp, validate: however the tasks interleave, every lease   *)
(* belongs to a registered client, a client's managed bytes are the sum of *)
(* its leases, and it never counts on more than it has observed.           *)
THEOREM BrokerBooksAreRight == Spec => []BrokerInvariant
<1>1. BrokerInv => BrokerInvariant
  BY BrokerInvType, BooksAre DEF BrokerInv, TablesOk, BrokerInvariant
<1> QED BY <1>1, BrokerInvHolds, PTL

-----------------------------------------------------------------------------
(* One task alone.  Between two critical sections of its call nothing else *)
(* happens, so what it tested before it gave up the lock still holds.      *)

Alone == \A t, u \in Task : t = u

(* The block in a handle's data_ is leased to the handle, or on its way    *)
(* from that lease to the handle's callback; what ensure() is about to     *)
(* assign has been leased to it.                                           *)
Assignable(t) == pc[t] = "assign" =>
    \E s \in Taken : leases[s].block = job[t].block /\ leases[s].owner = job[t].owner
HandlesKept ==
    /\ \A h \in Handle : data[h] # NoBlock => OwnLease(h) \/ ToldSoon(h)
    /\ \A t \in Task : Assignable(t)

(* A handle whose block is still leased for it is in nobody else's lease.  *)
LEMMA HandlesOwn ==
  ASSUME BrokerInv, HandlesKept
  PROVE  HandleOwnsItsBlock
<1> SUFFICES ASSUME NEW h \in Handle, NEW s \in LeaseAt(ClientOf[h], data[h])
             PROVE  leases[s].owner = h
  BY DEF HandleOwnsItsBlock, HandlesKept
<1>1. s \in Taken /\ leases[s].block = data[h] /\ leases[s].block \in Block
  BY DEF LeaseAt, LeasesOf, Taken, BrokerInv, Inv, Typed, LeaseRecord
<1>2. data[h] # NoBlock
  BY <1>1, BrokerConstants
<1>3. CASE OwnLease(h)
  BY <1>1, <1>3 DEF OwnLease, BrokerInv, Inv, LeasedOnce
<1>4. CASE ToldSoon(h)
  BY <1>1, <1>4 DEF ToldSoon, BrokerInv, Inv, NotBoth, Carriers, Carrying
<1> QED BY <1>2, <1>3, <1>4 DEF HandlesKept

(* No lease goes, nobody is told, and data_ may be cleared or assigned. *)
LEMMA HandlesStay ==
  ASSUME BrokerInv, HandlesKept, Alone, NEW t \in Task,
         \A s \in Taken : s \in Taken' /\ leases'[s] = leases[s],
         pc[t] # "notify", pc'[t] # "assign",
         \A h \in Handle : data'[h] \in {data[h], NoBlock}
  PROVE  HandlesKept'
<1>1. \A h \in Handle : ~ToldSoon(h)
  BY DEF ToldSoon, Alone
<1>2. ASSUME NEW h \in Handle, data'[h] # NoBlock PROVE OwnLease(h)'
  BY <1>1, <1>2 DEF HandlesKept, OwnLease
<1>3. \A u \in Task : Assignable(u)'
  BY DEF Alone, Assignable
<1> QED BY <1>2, <1>3 DEF HandlesKept

(* A lease goes, and its block with it to the callback of its owner. *)
LEMMA HandlesTold ==
  ASSUME BrokerInv, HandlesKept, Alone, NEW t \in Task, NEW s \in Taken,
         leases' = [leases EXCEPT ![s] = Vacant], UNCHANGED data,
         pc[t] # "notify", pc'[t] # "assign",
         leases[s].owner # NoHandle =>
            /\ pc'[t] = "notify"
            /\ job'[t].block = leases[s].block /\ job'[t].notify = leases[s].owner
  PROVE  HandlesKept'
<1>1. \A h \in Handle : ~ToldSoon(h)
  BY DEF ToldSoon, Alone
<1>2. \A q \in Taken : q # s => q \in Taken' /\ leases'[q] = leases[q]
  BY DEF Taken, BrokerInv, Inv, Typed
<1>3. ASSUME NEW h \in Handle, data'[h] # NoBlock PROVE OwnLease(h)' \/ ToldSoon(h)'
  <2>1. PICK q \in Taken : leases[q].block = data[h] /\ leases[q].owner = h
    BY <1>1, <1>3 DEF HandlesKept, OwnLease
  <2>2. CASE q = s
    <3>1. leases[s].owner # NoHandle
      BY <2>1, <2>2, BrokerConstants
    <3> QED BY <2>1, <2>2, <3>1 DEF ToldSoon
  <2>3. CASE q # s
    BY <1>2, <2>1, <2>3 DEF OwnLease
  <2> QED BY <2>2, <2>3
<1>4. \A u \in Task : Assignable(u)'
  BY DEF Alone, Assignable
<1> QED BY <1>3, <1>4 DEF HandlesKept

(* A call that ends a lease tells its handle next, if it has one.          *)
LEMMA HandlesTakeBack ==
  ASSUME BrokerInv, HandlesKept, Alone, NEW t \in Task, NEW c, NEW b, NEW s \in LeaseAt(c, b),
         NEW j \in Job, TakeBack(t, s, j), UNCHANGED data, pc[t] # "notify"
  PROVE  HandlesKept'
<1>1. s \in Taken
  BY DEF LeaseAt, LeasesOf, Taken
<1>2. leases' = [leases EXCEPT ![s] = Vacant]
  BY DEF TakeBack, RemoveLease
<1>3. /\ pc'[t] = IF leases[s].owner = NoHandle THEN "giveback" ELSE "notify"
      /\ job'[t] = [j EXCEPT !.block = leases[s].block, !.notify = leases[s].owner]
  BY DEF TakeBack, Become, Goto, BrokerInv, Inv, Typed
<1>4. job'[t].block = leases[s].block /\ job'[t].notify = leases[s].owner
  BY <1>3 DEF Job
<1> QED BY <1>1, <1>2, <1>3, <1>4, HandlesTold

(* Reclaim goes on at one of these places.                                 *)
LEMMA GoesOn ==
  ASSUME NEW t, NEW j, ReclaimReturns(t, j) \/ NextDonor(t, j) \/ MoreFrom(t, j)
  PROVE  \E l \in {"idle", "allocate", "donor", "elastic"} : Goto(t, l)
<1>1. ASSUME NEW k, ReclaimReturns(t, k) PROVE \E l \in {"idle", "allocate"} : Goto(t, l)
  BY <1>1 DEF ReclaimReturns, Return, Become
<1>2. ASSUME NEW k, NextDonor(t, k) PROVE \E l \in {"idle", "allocate", "donor"} : Goto(t, l)
  BY <1>1, <1>2 DEF NextDonor, Become
<1>3. CASE MoreFrom(t, j)
  BY <1>2, <1>3 DEF MoreFrom, Become
<1> QED BY <1>1, <1>2, <1>3

(* For one task every step keeps each handle in its lease, or about to be  *)
(* told.                                                                   *)
LEMMA HandlesNext ==
  ASSUME BrokerInv, HandlesKept, Alone, [Next]_vars
  PROVE  HandlesKept'
<1>1. ASSUME NEW t \in Task, UNCHANGED <<leases, pc>>, pc[t] \notin {"notify", "assign"},
             \A h \in Handle : data'[h] \in {data[h], NoBlock}
      PROVE  HandlesKept'
  BY <1>1, HandlesStay DEF Taken
<1>2. ASSUME NEW t \in Task, UNCHANGED leases, NEW l, Goto(t, l), l # "assign", pc[t] # "notify",
             \A h \in Handle : data'[h] \in {data[h], NoBlock}
      PROVE  HandlesKept'
  <2>1. pc'[t] = l
    BY <1>2 DEF Goto, BrokerInv, Inv, Typed
  <2> QED BY <1>2, <2>1, HandlesStay DEF Taken
<1>3. ASSUME NEW t \in Task, Start(t) PROVE HandlesKept'
  <2>1. CASE Quick(t)
    BY <1>1, <2>1 DEF Quick, locals
  <2>2. CASE request(t) \/ ensure(t) \/ service(t) \/ releaseClientAllocations(t) \/ forget(t)
    <3>1. UNCHANGED leases /\ pc[t] = "idle"
          /\ \A h \in Handle : data'[h] \in {data[h], NoBlock}
      BY <2>2 DEF request, ensure, service, releaseClientAllocations, forget, tables,
                  BrokerInv, DataTyped
    <3>2. UNCHANGED pc \/ \E l \in {"allocate", "refresh", "sweep"} : Goto(t, l)
      BY <2>2 DEF request, ensure, service, releaseClientAllocations, forget, locals, Become
    <3> QED BY <1>1, <1>2, <3>1, <3>2
  <2>3. CASE release(t)
    <3>1. PICK c \in Client, b \in Block : \E s \in LeaseAt(c, b) :
            TakeBack(t, s, [NoJob EXCEPT !.op = "release", !.client = c])
      BY <2>3 DEF release
    <3>2. [NoJob EXCEPT !.op = "release", !.client = c] \in Job
      BY NoJobOk DEF Job, Op
    <3>3. pc[t] # "notify" /\ UNCHANGED data
      BY <2>3 DEF release
    <3> QED BY <3>1, <3>2, <3>3, HandlesTakeBack
  <2>4. CASE DropHandle(t)
    <3>1. PICK h \in Handle :
            LET j == [NoJob EXCEPT !.op = "drop", !.owner = h, !.client = ClientOf[h]]
            IN \/ \E s \in LeaseAt(ClientOf[h], data[h]) : TakeBack(t, s, j)
               \/ Become(t, "clear", j) /\ UNCHANGED tables
      BY <2>4 DEF DropHandle
    <3> DEFINE j == [NoJob EXCEPT !.op = "drop", !.owner = h, !.client = ClientOf[h]]
    <3>2. ClientOf[h] \in Client
      BY BrokerConstants
    <3>3. j \in Job
      BY <3>2, NoJobOk DEF Job, Op
    <3>4. \/ \E s \in LeaseAt(ClientOf[h], data[h]) : TakeBack(t, s, j)
          \/ Become(t, "clear", j) /\ UNCHANGED tables
      BY <3>1
    <3>5. pc[t] # "notify" /\ UNCHANGED data
      BY <2>4 DEF DropHandle
    <3> HIDE DEF j
    <3>6. CASE Become(t, "clear", j) /\ UNCHANGED tables
      BY <1>2, <3>5, <3>6 DEF Become, tables
    <3> QED BY <3>3, <3>4, <3>5, <3>6, HandlesTakeBack
  <2> QED BY <1>3, <2>1, <2>2, <2>3, <2>4
      DEF Start, registerClient, unregisterClient, setPriority, setActivity, setObservedUsage,
          setLimits, setReclaimer, touch
<1>4. ASSUME NEW t \in Task, Step(t) PROVE HandlesKept'
  <2> DEFINE i == job[t]
  <2>1. i \in Job /\ JobOk(pc[t], i)
    BY DEF BrokerInv, JobsOk, JobOk
  <2>2. CASE Allocated(t) \/ AllocationFails(t) \/ RecordFails(t) \/ Refresh(t) \/ Sweep(t)
             \/ Clear(t)
    <3>1. UNCHANGED leases /\ pc[t] # "notify"
          /\ \A h \in Handle : data'[h] \in {data[h], NoBlock}
      BY <2>2 DEF Allocated, AllocationFails, RecordFails, Refresh, Sweep, Clear, tables,
                  BrokerInv, DataTyped
    <3>2. \E l \in {"record", "idle", "refresh", "donor", "sweep-release"} : Goto(t, l)
      BY <2>2 DEF Allocated, AllocationFails, RecordFails, Refresh, Sweep, Clear, Become, Return
    <3> QED BY <1>2, <3>1, <3>2
  <2>3. CASE Record(t)
    <3>1. PICK s \in Slot : leases[s] = Vacant /\ leases' = [leases EXCEPT ![s] =
             [block |-> i.block, bytes |-> i.bytes, client |-> i.client, owner |-> i.owner]]
      BY <2>3 DEF Record, IsFirst
    <3> DEFINE l == [block |-> i.block, bytes |-> i.bytes, client |-> i.client,
                     owner |-> i.owner]
    <3>2. leases'[s] = l /\ l.block = i.block /\ l.owner = i.owner
          /\ \A q \in Slot \ {s} : leases'[q] = leases[q]
      BY <3>1 DEF BrokerInv, Inv, Typed
    <3>3. \A q \in Taken : q \in Taken' /\ leases'[q] = leases[q]
      BY <3>1, <3>2 DEF Taken
    <3>4. CASE Return(t)
      <4>1. pc[t] = "record" /\ UNCHANGED data
        BY <2>3 DEF Record
      <4>2. pc'[t] = "idle"
        BY <3>4 DEF Return, Become, Goto, BrokerInv, Inv, Typed
      <4> QED BY <3>3, <4>1, <4>2, HandlesStay
    <3>5. CASE Goto(t, "assign") /\ UNCHANGED job
      <4>1. pc[t] = "record" /\ UNCHANGED data
        BY <2>3 DEF Record
      <4>2. \A h \in Handle : ~ToldSoon(h)
        BY <4>1 DEF ToldSoon, Alone
      <4>3. \A h \in Handle : data'[h] # NoBlock => OwnLease(h)'
        BY <3>3, <4>1, <4>2 DEF HandlesKept, OwnLease
      <4>4. s \in Taken'
        <5>1. l.block \in Block
          BY <4>1, <3>2 DEF BrokerInv, Inv, Typed, FromTheManager, Carriers, Carrying
        <5>2. l \in LeaseRecord
          BY <2>1, <2>3, <5>1 DEF LeaseRecord, Job, Record, CanRecord, Registered
        <5> QED BY <3>2, <5>2, NullRecords DEF Taken
      <4>5. Assignable(t)'
        BY <3>2, <3>5, <4>4 DEF Assignable
      <4>6. \A u \in Task : Assignable(u)'
        BY <4>5 DEF Alone
      <4> QED BY <4>3, <4>6 DEF HandlesKept
    <3> QED BY <2>3, <3>4, <3>5 DEF Record
  <2>4. CASE Assign(t)
    <3>1. /\ pc[t] = "assign" /\ UNCHANGED leases /\ Return(t)
          /\ data' = [data EXCEPT ![i.owner] = i.block]
      BY <2>4 DEF Assign, tables
    <3>2. pc'[t] = "idle"
      BY <3>1 DEF Return, Become, Goto, BrokerInv, Inv, Typed
    <3>3. PICK s \in Taken : leases[s].block = i.block /\ leases[s].owner = i.owner
      BY <3>1 DEF HandlesKept, Assignable
    <3>4. \A h \in Handle : ~ToldSoon(h)
      BY <3>1 DEF ToldSoon, Alone
    <3>5. Taken' = Taken
      BY <3>1 DEF Taken
    <3>6. ASSUME NEW h \in Handle, data'[h] # NoBlock PROVE OwnLease(h)'
      <4>1. data'[h] = IF h = i.owner THEN i.block ELSE data[h]
        BY <3>1 DEF BrokerInv, DataTyped
      <4>2. CASE h = i.owner
        BY <3>1, <3>3, <3>5, <4>1, <4>2 DEF OwnLease
      <4>3. CASE h # i.owner
        <5>1. OwnLease(h)
          BY <3>4, <3>6, <4>1, <4>3 DEF HandlesKept
        <5> QED BY <3>1, <3>5, <4>1, <4>3, <5>1 DEF OwnLease
      <4> QED BY <4>2, <4>3
    <3>7. \A u \in Task : Assignable(u)'
      BY <3>2 DEF Alone, Assignable
    <3> QED BY <3>6, <3>7 DEF HandlesKept
  <2>5. CASE Donor(t) \/ Callback(t) \/ GiveBack(t)
    <3>1. UNCHANGED leases /\ pc[t] # "notify" /\ UNCHANGED data
      BY <2>5 DEF Donor, Callback, GiveBack, tables
    <3>2. \E l : Goto(t, l) /\ l # "assign"
      <4>1. CASE Donor(t)
        <5>1. CASE ReclaimReturns(t, i)
          BY <5>1, GoesOn
        <5>2. CASE ~ReclaimReturns(t, i)
          <6>1. PICK c \in Client :
                  LET ask == AskOf(c, i)
                      ext == Min({ask, ExternalAvailable(c, i.region)})
                  IN Goto(t, IF ext > 0 THEN "callback" ELSE "elastic")
            BY <4>1, <5>2, Zenon DEF Donor, Become
          <6> DEFINE ext == Min({AskOf(c, i), ExternalAvailable(c, i.region)})
          <6>2. Goto(t, IF ext > 0 THEN "callback" ELSE "elastic")
            BY <6>1
          <6> HIDE DEF ext
          <6>3. Goto(t, "callback") \/ Goto(t, "elastic")
            BY <6>2
          <6> QED BY <6>3
        <5> QED BY <5>1, <5>2
      <4>2. CASE Callback(t)
        BY <4>2, GoesOn DEF Callback
      <4>3. CASE GiveBack(t)
        <5> DEFINE j == [job[t] EXCEPT !.block = NoBlock, !.notify = NoHandle]
        <5>1. \/ Return(t) \/ Become(t, "clear", j) \/ Become(t, "sweep", j)
              \/ MoreFrom(t, j)
          BY <4>3, Zenon DEF GiveBack
        <5> HIDE DEF j
        <5> QED BY <5>1, GoesOn DEF Return, Become
      <4> QED BY <2>5, <4>1, <4>2, <4>3
    <3> QED BY <1>2, <3>1, <3>2
  <2>6. CASE Elastic(t)
    <3>1. CASE NextDonor(t, i) /\ UNCHANGED tables
      <4>1. \E l : Goto(t, l) /\ l # "assign"
        BY <3>1, GoesOn
      <4>2. pc[t] # "notify" /\ UNCHANGED data
        BY <2>6 DEF Elastic
      <4> QED BY <1>2, <3>1, <4>1, <4>2 DEF tables
    <3>2. CASE ~(NextDonor(t, i) /\ UNCHANGED tables)
      <4>1. PICK s \in Reclaimable(i.donor, i.region) :
              /\ RemoveLease(s)
              /\ Become(t, "notify",
                   [i EXCEPT !.block = leases[s].block, !.notify = leases[s].owner,
                             !.donorFreed = @ + leases[s].bytes])
        BY <2>6, <3>2 DEF Elastic
      <4>2. s \in Taken /\ leases' = [leases EXCEPT ![s] = Vacant]
        BY <4>1 DEF Reclaimable, ElasticLeases, LeasesOf, Taken, RemoveLease
      <4>3. /\ pc'[t] = "notify"
            /\ job'[t] = [i EXCEPT !.block = leases[s].block, !.notify = leases[s].owner,
                             !.donorFreed = @ + leases[s].bytes]
        BY <4>1 DEF Become, Goto, BrokerInv, Inv, Typed
      <4>4. job'[t].block = leases[s].block /\ job'[t].notify = leases[s].owner
        BY <2>1, <4>3 DEF Job
      <4>5. pc[t] # "notify" /\ UNCHANGED data
        BY <2>6 DEF Elastic
      <4> QED BY <4>2, <4>3, <4>4, <4>5, HandlesTold
    <3> QED BY <3>1, <3>2
  <2>7. CASE Notify(t)
    <3>1. /\ pc[t] = "notify" /\ UNCHANGED leases
          /\ data' = IF data[i.notify] = i.block THEN [data EXCEPT ![i.notify] = NoBlock] ELSE data
      BY <2>7 DEF Notify, tables
    <3>2. pc'[t] = "giveback"
      BY <2>7 DEF Notify, Goto, BrokerInv, Inv, Typed
    <3>3. Taken' = Taken
      BY <3>1 DEF Taken
    <3>4. ASSUME NEW h \in Handle, data'[h] # NoBlock PROVE OwnLease(h)'
      <4>1. data'[h] = data[h]
        BY <3>1, <3>4 DEF BrokerInv, DataTyped
      <4>2. ~ToldSoon(h)
        BY <3>1, <3>4, <4>1 DEF ToldSoon, Alone, BrokerInv, DataTyped
      <4>3. OwnLease(h)
        BY <3>4, <4>1, <4>2 DEF HandlesKept
      <4> QED BY <3>1, <3>3, <4>1, <4>3 DEF OwnLease
    <3>5. \A u \in Task : Assignable(u)'
      BY <3>2 DEF Alone, Assignable
    <3> QED BY <3>4, <3>5 DEF HandlesKept
  <2>8. CASE SweepRelease(t)
    <3>1. pc[t] # "notify" /\ UNCHANGED data
      BY <2>8 DEF SweepRelease
    <3>2. CASE \E s \in LeaseAt(i.client, i.block) : TakeBack(t, s, i)
      BY <2>1, <3>1, <3>2, HandlesTakeBack
    <3>3. CASE Return(t) /\ UNCHANGED tables
      BY <1>2, <3>1, <3>3 DEF Return, Become, tables
    <3> QED BY <2>8, <3>2, <3>3 DEF SweepRelease
  <2> QED BY <1>4, <2>2, <2>3, <2>4, <2>5, <2>6, <2>7, <2>8 DEF Step
<1>5. CASE UNCHANGED vars
  BY <1>5 DEF vars, HandlesKept, OwnLease, ToldSoon, Assignable, Taken
<1> QED BY <1>3, <1>4, <1>5 DEF Next

(* README: "callers do not retain a dangling pointer".  With one task, the *)
(* block in a buffer's data_ is leased to it and to nobody else, or the    *)
(* call that reclaimed it is about to tell the buffer.                     *)
(* With two it need not be: a lease may be reclaimed between its record and*)
(* ensure()'s assignment.                                                  *)
THEOREM HandlesOwnTheirBlocks ==
    ASSUME Alone
    PROVE  Spec => []HandleOwnsItsBlock
<1>1. Init => HandlesKept
  BY DEF Init, HandlesKept, Assignable
<1>2. BrokerInv /\ HandlesKept /\ [Next]_vars => HandlesKept'
  BY HandlesNext
<1>3. BrokerInv /\ HandlesKept => HandleOwnsItsBlock
  BY HandlesOwn
<1> QED BY <1>1, <1>2, <1>3, BrokerInvHolds, PTL DEF Spec

-----------------------------------------------------------------------------
(* What a running call relies on: the request still fits under the hard    *)
(* limit; the donor may still be asked, and can still give what its        *)
(* callback will be asked for.                                             *)
Pending(t) == /\ pc[t] \notin {"idle", "assign"}
              /\ job[t].op \in {"request", "ensure"}
              /\ Registered(job[t].client)
AtDonor(l) == l \in {"callback", "elastic", "notify", "giveback"}
Reclaims(t) == AtDonor(pc[t]) /\ job[t].op \in {"request", "ensure", "service"}
MayGive(d, c) ==
    /\ Registered(d) /\ d # c
    /\ clients[d].priority # Critical
    /\ Registered(c) => importance(d) < importance(c)
RequestFits(t) == Pending(t) => Permitted(job[t].client, job[t].bytes)
DonorFits(t) == Reclaims(t) => MayGive(job[t].donor, job[t].client)
CallbackFits(t) == pc[t] = "callback" => job[t].external <= AboveMinimum(job[t].donor)
CallsFit == \A t \in Task : RequestFits(t) /\ DonorFits(t) /\ CallbackFits(t)

(* The clients as reclaiming leaves them. *)
KeepsLimits == \A c \in Client :
    /\ Registered(c)' <=> Registered(c)
    /\ Registered(c) => /\ clients'[c].hard = clients[c].hard
                        /\ clients'[c].managed <= clients[c].managed
                        /\ clients'[c].observed <= clients[c].observed
KeepsRanks == \A c \in Client :
    Registered(c) => /\ clients'[c].priority = clients[c].priority
                     /\ clients'[c].activity = clients[c].activity

(* The figures of a registered client are natural numbers.                 *)
LEMMA ClientNumbers ==
  ASSUME ClientsTyped, NEW c, Registered(c)
  PROVE  /\ c \in Client
         /\ clients[c].managed \in Nat /\ clients[c].observed \in Nat /\ clients[c].hard \in Nat
         /\ clients[c].minimum \in Nat /\ clients[c].reclaimable \in Nat
  BY ClientFields DEF ClientRecord, Registered

(* A step that leaves the client table alone keeps limits and ranks.       *)
LEMMA LimitsStay ==
  ASSUME BrokerInv, UNCHANGED clients
  PROVE  KeepsLimits /\ KeepsRanks
<1>1. ClientsTyped
  BY DEF BrokerInv, TablesOk
<1> QED BY <1>1, ClientNumbers DEF KeepsLimits, KeepsRanks, Registered

(* As does an update of one client that raises neither limit nor usage,    *)
LEMMA LimitsUpdate ==
  ASSUME BrokerInv, NEW c \in Client, Registered(c), NEW r \in ClientRecord, Update(c, r),
         r.hard = clients[c].hard, r.managed <= clients[c].managed,
         r.observed <= clients[c].observed
  PROVE  /\ KeepsLimits
         /\ r.priority = clients[c].priority /\ r.activity = clients[c].activity => KeepsRanks
<1>1. ClientsTyped
  BY DEF BrokerInv, TablesOk
<1>2. clients'[c] = r /\ \A d \in Client \ {c} : clients'[d] = clients[d]
  BY <1>1 DEF Update, ClientsTyped
<1>3. r # Unused
  BY NullRecords
<1>4. \A d \in Client : Registered(d)' <=> Registered(d)
  BY <1>2, <1>3 DEF Registered
<1>5. KeepsLimits
  BY <1>1, <1>2, <1>4, ClientNumbers DEF KeepsLimits
<1> QED BY <1>2, <1>5 DEF KeepsRanks

(* and the removal of a lease.                                             *)
LEMMA LimitsRemove ==
  ASSUME BrokerInv, NEW s \in Taken, RemoveLease(s)
  PROVE  KeepsLimits /\ KeepsRanks
<1> DEFINE l == leases[s]
           c == l.client
           r == [clients[c] EXCEPT !.managed = @ - l.bytes]
<1>1. CASE UNCHANGED clients
  BY <1>1, LimitsStay
<1>2. CASE ~UNCHANGED clients
  <2>1. Registered(c) /\ clients[c].managed >= l.bytes /\ Update(c, r)
    BY <1>2 DEF RemoveLease
  <2>2. c \in Client /\ clients[c] \in ClientRecord /\ l.bytes \in Nat
    BY <2>1, ClientFields
    DEF BrokerInv, TablesOk, Registered, Taken, Inv, Typed, LeaseRecord
  <2>3. /\ r \in ClientRecord /\ r.hard = clients[c].hard /\ r.managed <= clients[c].managed
        /\ r.observed <= clients[c].observed
        /\ r.priority = clients[c].priority /\ r.activity = clients[c].activity
    BY <2>1, <2>2 DEF ClientRecord
  <2> HIDE DEF c, r
  <2> QED BY <2>1, <2>2, <2>3, LimitsUpdate
<1> QED BY <1>1, <1>2

(* Ageing keeps the limits, but not the ranks.                             *)
LEMMA LimitsAge ==
  ASSUME BrokerInv, refreshActivities
  PROVE  KeepsLimits
<1>1. PICK f \in [Client -> Activity] :
        clients' = [c \in Client |->
             IF Registered(c) THEN [clients[c] EXCEPT !.activity = f[c]] ELSE Unused]
  BY DEF refreshActivities
<1>2. ASSUME NEW c \in Client
      PROVE  /\ Registered(c)' <=> Registered(c)
             /\ Registered(c) => /\ clients'[c].hard = clients[c].hard
                                 /\ clients'[c].managed <= clients[c].managed
                                 /\ clients'[c].observed <= clients[c].observed
  <2>1. CASE Registered(c)
    <3>1. clients'[c] = [clients[c] EXCEPT !.activity = f[c]] /\ f[c] \in Activity
      BY <1>1, <2>1
    <3>2. clients[c] \in ClientRecord
      BY <2>1, ClientFields DEF BrokerInv, TablesOk
    <3>3. clients'[c] \in ClientRecord
      BY <3>1, <3>2 DEF ClientRecord
    <3>4. Registered(c)'
      BY <3>3, NullRecords DEF Registered
    <3> QED BY <2>1, <3>1, <3>2, <3>4 DEF ClientRecord
  <2>2. CASE ~Registered(c)
    BY <1>1, <2>2 DEF Registered
  <2> QED BY <2>1, <2>2
<1> QED BY <1>2 DEF KeepsLimits

(* A reclaim callback lowers the usage of the donor only, by no more than  *)
(* was asked.                                                              *)
LEMMA LimitsCallback ==
  ASSUME BrokerInv, NEW t \in Task, Callback(t)
  PROVE  /\ KeepsLimits /\ KeepsRanks
         /\ \A c \in Client : Registered(c) =>
              /\ clients'[c].managed = clients[c].managed
              /\ clients'[c].observed # clients[c].observed =>
                   /\ c = job[t].donor
                   /\ clients'[c].observed >= clients[c].observed - job[t].external
<1> DEFINE d == job[t].donor
<1>1. CASE Registered(d)
  <2>1. PICK n \in 0 .. job[t].external :
          Update(d, [clients[d] EXCEPT
                    !.observed = Max({0, @ - n}), !.reclaimable = Max({0, @ - n})])
    BY <1>1 DEF Callback
  <2>2. n \in Nat /\ n <= job[t].external /\ job[t].external \in Nat
    BY DEF BrokerInv, JobsOk, JobOk, Job
  <2>3. clients[d] \in ClientRecord /\ d \in Client
    BY <1>1, ClientFields DEF BrokerInv, TablesOk, Registered
  <2> DEFINE x == clients[d].observed - n
             y == clients[d].reclaimable - n
             r == [clients[d] EXCEPT !.observed = Max({0, x}), !.reclaimable = Max({0, y})]
  <2>4. Update(d, r)
    BY <2>1
  <2>5. x \in Int /\ y \in Int /\ x <= clients[d].observed /\ clients[d].observed \in Nat
        /\ x >= clients[d].observed - job[t].external
    BY <2>2, <2>3 DEF ClientRecord
  <2> HIDE DEF x, y, d
  <2>6. /\ Max({0, x}) \in Nat /\ Max({0, y}) \in Nat /\ Max({0, x}) <= clients[d].observed
        /\ Max({0, x}) >= x
    BY <2>5, MaxOfZero
  <2>7. r \in ClientRecord
    BY <2>3, <2>6 DEF ClientRecord
  <2>8. /\ r.hard = clients[d].hard /\ r.managed <= clients[d].managed
        /\ r.managed = clients[d].managed
        /\ r.observed = Max({0, x})
        /\ r.priority = clients[d].priority /\ r.activity = clients[d].activity
    BY <2>3, <2>6 DEF ClientRecord
  <2>9. r.observed <= clients[d].observed /\ r.observed >= clients[d].observed - job[t].external
    BY <2>2, <2>5, <2>6, <2>8
  <2> HIDE DEF r
  <2>10. KeepsLimits /\ KeepsRanks
    BY <1>1, <2>3, <2>4, <2>7, <2>8, <2>9, LimitsUpdate
  <2>11. clients'[d] = r /\ \A c \in Client \ {d} : clients'[c] = clients[c]
    BY <2>3, <2>4 DEF Update, BrokerInv, TablesOk, ClientsTyped
  <2> QED BY <2>8, <2>9, <2>10, <2>11 DEF d
<1>2. CASE ~Registered(d)
  <2>1. UNCHANGED clients
    BY <1>2 DEF Callback
  <2> QED BY <2>1, LimitsStay
<1> QED BY <1>1, <1>2

-----------------------------------------------------------------------------
(* The call goes on, and the clients with it. *)
Same(t) == /\ job'[t].op = job[t].op /\ job'[t].client = job[t].client
           /\ job'[t].bytes = job[t].bytes

(* What was permitted stays permitted while limits are kept.               *)
LEMMA FitsRequest ==
  ASSUME BrokerInv, BrokerInv', NEW t \in Task, RequestFits(t), KeepsLimits,
         pc[t] \notin {"idle", "assign"}, Same(t)
  PROVE  RequestFits(t)'
<1> SUFFICES ASSUME Pending(t)' PROVE Permitted(job[t].client, job[t].bytes)'
  BY DEF RequestFits, Same
<1> DEFINE c == job[t].client
           n == job[t].bytes
<1>1. c' = c /\ n' = n /\ n \in Nat
  BY DEF Same, BrokerInv, JobsOk, JobOk, Job
<1>2. c \in Client /\ Registered(c)' /\ Registered(c)
  BY <1>1 DEF Pending, KeepsLimits, Registered
<1>3. Permitted(c, n)
  BY <1>2 DEF RequestFits, Pending, Same
<1>4. /\ clients'[c].hard = clients[c].hard /\ clients'[c].managed <= clients[c].managed
      /\ clients'[c].observed <= clients[c].observed
  BY <1>2 DEF KeepsLimits
<1>5. /\ clients[c].managed \in Nat /\ clients[c].observed \in Nat /\ clients[c].hard \in Nat
  BY <1>2, ClientNumbers DEF BrokerInv, TablesOk
<1>6. clients'[c] \in ClientRecord
  BY <1>1, <1>2 DEF BrokerInv, TablesOk, ClientsTyped, Registered
<1>7. clients'[c].managed \in Nat /\ clients'[c].observed \in Nat
  BY <1>6 DEF ClientRecord
<1> HIDE DEF c, n
<1>8. clients'[c].hard = 0 \/ clients'[c].managed + clients'[c].observed + n <= clients'[c].hard
  BY <1>1, <1>3, <1>4, <1>5, <1>7 DEF Permitted, totalBytes
<1> QED BY <1>1, <1>8 DEF Permitted, totalBytes, c, n

(* A donor that was chosen stays eligible while ranks are kept.            *)
LEMMA FitsDonor ==
  ASSUME BrokerInv, NEW t \in Task, DonorFits(t), KeepsLimits, KeepsRanks, Reclaims(t),
         Same(t), job'[t].donor = job[t].donor
  PROVE  DonorFits(t)'
<1> DEFINE c == job[t].client
           d == job[t].donor
<1>1. c' = c /\ d' = d
  BY DEF Same
<1>2. MayGive(d, c)
  BY DEF DonorFits
<1>3. d \in Client /\ Registered(d)' /\ (Registered(c)' => Registered(c) /\ c \in Client)
  BY <1>1, <1>2 DEF MayGive, Registered, KeepsLimits
<1> HIDE DEF c, d
<1>4. clients'[d].priority # Critical /\ d # c
  BY <1>2, <1>3 DEF MayGive, KeepsRanks
<1>5. ASSUME Registered(c)' PROVE importance(d)' < importance(c)'
  <2>1. importance(d) < importance(c)
    BY <1>2, <1>3, <1>5 DEF MayGive
  <2>2. /\ clients'[d].priority = clients[d].priority /\ clients'[d].activity = clients[d].activity
        /\ clients'[c].priority = clients[c].priority /\ clients'[c].activity = clients[c].activity
    BY <1>2, <1>3, <1>5 DEF MayGive, KeepsRanks
  <2>3. importance(d)' = importance(d) /\ importance(c)' = importance(c)
    BY <1>1, <2>2, Zenon DEF importance
  <2> QED BY <2>1, <2>3
<1>6. MayGive(d, c)'
  BY <1>1, <1>3, <1>4, <1>5 DEF MayGive
<1> QED BY <1>6 DEF DonorFits, c, d

(* A call that goes on relies on what was true before the step.            *)
LEMMA FitsOn ==
  ASSUME BrokerInv, BrokerInv', CallsFit, Alone, NEW t \in Task, KeepsLimits,
         pc[t] \notin {"idle", "assign"},
         \/ pc'[t] \in {"idle", "assign"}
         \/ Same(t) /\ ~AtDonor(pc'[t])
         \/ /\ Same(t) /\ job'[t].donor = job[t].donor /\ KeepsRanks
            /\ AtDonor(pc[t]) /\ pc'[t] # "callback"
  PROVE  CallsFit'
<1>1. RequestFits(t)'
  <2>1. CASE pc'[t] \in {"idle", "assign"}
    BY <2>1 DEF RequestFits, Pending
  <2>2. CASE Same(t)
    BY <2>2, FitsRequest DEF CallsFit
  <2> QED BY <2>1, <2>2
<1>2. DonorFits(t)'
  <2>1. CASE ~AtDonor(pc'[t])
    BY <2>1 DEF DonorFits, Reclaims
  <2>2. CASE /\ Same(t) /\ job'[t].donor = job[t].donor /\ KeepsRanks
             /\ AtDonor(pc[t])
    <3>1. CASE Reclaims(t)
      BY <2>2, <3>1, FitsDonor DEF CallsFit
    <3>2. CASE ~Reclaims(t)
      BY <2>2, <3>2 DEF DonorFits, Reclaims, Same
    <3> QED BY <3>1, <3>2
  <2> QED BY <2>1, <2>2 DEF AtDonor
<1>3. CallbackFits(t)'
  BY DEF CallbackFits, AtDonor
<1> QED BY <1>1, <1>2, <1>3 DEF CallsFit, Alone

(* A call that begins relies only on what it has just tested.              *)
LEMMA FitsNew ==
  ASSUME BrokerInv, CallsFit, Alone, NEW t \in Task, pc[t] = "idle",
         \/ pc'[t] = "idle"
         \/ ~AtDonor(pc'[t]) /\ RequestFits(t)'
         \/ pc'[t] # "callback" /\ job'[t].op \in {"release", "drop", "sweep"}
  PROVE  CallsFit'
<1>1. RequestFits(t)'
  BY DEF RequestFits, Pending
<1>2. DonorFits(t)' /\ CallbackFits(t)'
  BY DEF DonorFits, Reclaims, CallbackFits, AtDonor
<1> QED BY <1>1, <1>2 DEF CallsFit, Alone

(* After a step the task is where the step sends it.                       *)
LEMMA Arrives ==
  ASSUME BrokerInv, NEW t \in Task, NEW l, NEW j, Become(t, l, j)
  PROVE  pc'[t] = l /\ job'[t] = j
  BY DEF Become, Goto, BrokerInv, Inv, Typed

(* Beginning a call keeps what calls rely on, for one task.                *)
LEMMA FitsStart ==
  ASSUME BrokerInv, CallsFit, Alone, NEW t \in Task, Start(t)
  PROVE  CallsFit'
<1>1. CASE UNCHANGED pc /\ pc[t] = "idle"
  BY <1>1, FitsNew
<1>2. CASE request(t)
  <2>1. PICK c \in Client, n \in Sizes, r \in Wanted :
          /\ Permitted(c, n)
          /\ Become(t, "allocate", [NoJob EXCEPT !.op = "request", !.client = c,
                                              !.bytes = n, !.region = r])
    BY <1>2 DEF request
  <2>2. pc'[t] = "allocate" /\ job'[t].client = c /\ job'[t].bytes = n
    <3>1. /\ pc'[t] = "allocate"
          /\ job'[t] = [NoJob EXCEPT !.op = "request", !.client = c, !.bytes = n, !.region = r]
      BY <2>1, Arrives
    <3> QED BY <3>1 DEF NoJob
  <2>3. UNCHANGED clients /\ pc[t] = "idle"
    BY <1>2 DEF request, tables
  <2>4. RequestFits(t)'
    BY <2>1, <2>2, <2>3 DEF RequestFits, Permitted, totalBytes
  <2> QED BY <2>2, <2>3, <2>4, FitsNew DEF AtDonor
<1>3. CASE ensure(t)
  <2>1. PICK h \in Handle, n \in Sizes, r \in Wanted :
          /\ Permitted(ClientOf[h], n)
          /\ Become(t, "allocate", [NoJob EXCEPT !.op = "ensure", !.owner = h,
                        !.client = ClientOf[h], !.bytes = n, !.region = r])
    BY <1>3 DEF ensure
  <2>2. pc'[t] = "allocate" /\ job'[t].client = ClientOf[h] /\ job'[t].bytes = n
    <3>1. /\ pc'[t] = "allocate"
          /\ job'[t] = [NoJob EXCEPT !.op = "ensure", !.owner = h,
                        !.client = ClientOf[h], !.bytes = n, !.region = r]
      BY <2>1, Arrives
    <3> QED BY <3>1 DEF NoJob
  <2>3. UNCHANGED clients /\ pc[t] = "idle"
    BY <1>3 DEF ensure, tables
  <2>4. RequestFits(t)'
    BY <2>1, <2>2, <2>3 DEF RequestFits, Permitted, totalBytes
  <2> QED BY <2>2, <2>3, <2>4, FitsNew DEF AtDonor
<1>4. CASE service(t) /\ ~UNCHANGED locals
  <2>1. PICK g : Become(t, "refresh", [NoJob EXCEPT !.op = "service", !.target = g])
    BY <1>4 DEF service
  <2>2. pc'[t] = "refresh" /\ job'[t].op = "service"
    <3>1. /\ pc'[t] = "refresh"
          /\ job'[t] = [NoJob EXCEPT !.op = "service", !.target = g]
      BY <2>1, Arrives
    <3> QED BY <3>1 DEF NoJob
  <2>3. RequestFits(t)' /\ pc[t] = "idle"
    BY <1>4, <2>2 DEF RequestFits, Pending, service
  <2> QED BY <2>2, <2>3, FitsNew DEF AtDonor
<1>5. CASE releaseClientAllocations(t)
  <2>1. PICK c \in Client : Become(t, "sweep", [NoJob EXCEPT !.op = "sweep", !.client = c])
    BY <1>5 DEF releaseClientAllocations
  <2>2. pc'[t] = "sweep" /\ job'[t].op = "sweep" /\ pc[t] = "idle"
    <3>1. pc'[t] = "sweep" /\ job'[t] = [NoJob EXCEPT !.op = "sweep", !.client = c]
      BY <2>1, Arrives
    <3> QED BY <1>5, <3>1 DEF NoJob, releaseClientAllocations
  <2> QED BY <2>2, FitsNew
<1>6. ASSUME NEW j \in Job, j.op \in {"release", "drop"}, NEW s, TakeBack(t, s, j), pc[t] = "idle"
      PROVE  CallsFit'
  <2>1. /\ pc'[t] = IF leases[s].owner = NoHandle THEN "giveback" ELSE "notify"
        /\ job'[t] = [j EXCEPT !.block = leases[s].block, !.notify = leases[s].owner]
    BY <1>6, Arrives DEF TakeBack
  <2>2. pc'[t] # "callback" /\ job'[t].op \in {"release", "drop", "sweep"}
    BY <1>6, <2>1 DEF Job
  <2> QED BY <1>6, <2>2, FitsNew
<1>7. CASE release(t)
  <2>1. PICK c \in Client, b \in Block : \E s \in LeaseAt(c, b) :
            TakeBack(t, s, [NoJob EXCEPT !.op = "release", !.client = c])
    BY <1>7 DEF release
  <2>2. /\ [NoJob EXCEPT !.op = "release", !.client = c] \in Job
        /\ [NoJob EXCEPT !.op = "release", !.client = c].op = "release"
    BY NoJobOk DEF Job, Op
  <2> QED BY <1>6, <1>7, <2>1, <2>2 DEF release
<1>8. CASE DropHandle(t)
  <2>1. PICK h \in Handle :
          LET j == [NoJob EXCEPT !.op = "drop", !.owner = h, !.client = ClientOf[h]]
          IN (\E s : TakeBack(t, s, j)) \/ Become(t, "clear", j)
    BY <1>8 DEF DropHandle
  <2> DEFINE j == [NoJob EXCEPT !.op = "drop", !.owner = h, !.client = ClientOf[h]]
  <2>2. ClientOf[h] \in Client
    BY BrokerConstants
  <2>3. j \in Job /\ j.op = "drop"
    BY <2>2, NoJobOk DEF Job, Op
  <2>4. (\E s : TakeBack(t, s, j)) \/ Become(t, "clear", j)
    BY <2>1
  <2>5. pc[t] = "idle"
    BY <1>8 DEF DropHandle
  <2> HIDE DEF j
  <2>6. CASE Become(t, "clear", j)
    BY <2>3, <2>5, <2>6, Arrives, FitsNew
  <2> QED BY <1>6, <2>3, <2>4, <2>5, <2>6
<1> QED BY <1>1, <1>2, <1>3, <1>4, <1>5, <1>7, <1>8
    DEF Start, registerClient, unregisterClient, setPriority, setActivity, setObservedUsage,
        setLimits, setReclaimer, touch, forget, service, Quick, locals

(* So does going on with this donor or with the next one,                  *)
LEMMA FitsMore ==
  ASSUME BrokerInv, BrokerInv', CallsFit, Alone, NEW t \in Task, KeepsLimits, KeepsRanks,
         AtDonor(pc[t]), NEW j \in Job, MoreFrom(t, j) \/ NextDonor(t, j),
         j.op \in {"request", "ensure", "service"},
         j.op = job[t].op, j.client = job[t].client, j.bytes = job[t].bytes,
         j.donor = job[t].donor
  PROVE  CallsFit'
<1>1. j.op \in {"request", "ensure"} => j.bytes > 0
  BY DEF BrokerInv, JobsOk, JobOk
<1>2. PICK l, k : Become(t, l, k) /\ Follows(j, l, k)
  BY <1>1, MoreFromOk, NextDonorOk
<1>3. pc'[t] = l /\ job'[t] = k
  BY <1>2, Arrives
<1>4. pc[t] \notin {"idle", "assign"}
  BY DEF AtDonor
<1>5. CASE l = "idle"
  BY <1>3, <1>4, <1>5, FitsOn
<1>6. CASE /\ l \in {"allocate", "donor"}
           /\ k.op = j.op /\ k.client = j.client /\ k.bytes = j.bytes
  <2>1. Same(t) /\ ~AtDonor(pc'[t])
    BY <1>3, <1>6 DEF Same, AtDonor
  <2> QED BY <1>4, <2>1, FitsOn
<1>7. CASE l = "elastic" /\ k = j
  <2>1. Same(t) /\ job'[t].donor = job[t].donor /\ pc'[t] # "callback"
    BY <1>3, <1>7 DEF Same
  <2> QED BY <1>4, <2>1, FitsOn
<1> QED BY <1>2, <1>5, <1>6, <1>7 DEF Follows

(* and every other step of a running call.                                 *)
LEMMA FitsStep ==
  ASSUME BrokerInv, BrokerInv', CallsFit, Alone, NEW t \in Task, Step(t)
  PROVE  CallsFit'
<1> DEFINE i == job[t]
<1>1. i \in Job /\ JobOk(pc[t], i)
  BY DEF BrokerInv, JobsOk, JobOk
<1>2. ASSUME Return(t), KeepsLimits, pc[t] # "idle" PROVE CallsFit'
  <2>1. pc'[t] = "idle"
    BY <1>2, Arrives DEF Return
  <2>2. CASE pc[t] = "assign"
    BY <2>1 DEF CallsFit, Alone, RequestFits, Pending, DonorFits, Reclaims, AtDonor, CallbackFits
  <2> QED BY <1>2, <2>1, <2>2, FitsOn
<1>3. ASSUME NEW l, NEW k, Become(t, l, k), KeepsLimits, pc[t] \notin {"idle", "assign"},
             ~AtDonor(l), k.op = i.op, k.client = i.client, k.bytes = i.bytes
      PROVE  CallsFit'
  <2>1. Same(t) /\ ~AtDonor(pc'[t])
    BY <1>3, Arrives DEF Same
  <2> QED BY <1>3, <2>1, FitsOn
<1>4. CASE Allocated(t)
  <2>1. PICK b \in Block : Become(t, "record", [i EXCEPT !.block = b])
    BY <1>4 DEF Allocated
  <2> DEFINE k == [i EXCEPT !.block = b]
  <2>2. k.op = i.op /\ k.client = i.client /\ k.bytes = i.bytes
    BY <1>1 DEF Job
  <2>3. UNCHANGED clients /\ pc[t] \notin {"idle", "assign"}
    BY <1>4 DEF Allocated, tables
  <2>4. Become(t, "record", k) /\ ~AtDonor("record")
    BY <2>1 DEF AtDonor
  <2> HIDE DEF k, i
  <2> QED BY <1>3, <2>2, <2>3, <2>4, LimitsStay
<1>5. CASE AllocationFails(t)
  <2>1. UNCHANGED clients /\ pc[t] \notin {"idle", "assign"}
    BY <1>5 DEF AllocationFails, tables
  <2>2. CASE Return(t)
    BY <1>2, <2>1, <2>2, LimitsStay
  <2>3. CASE ~Return(t)
    <3>1. PICK g : Become(t, "refresh", [i EXCEPT !.target = g, !.freed = 0, !.attempted = {}])
      BY <1>5, <2>3 DEF AllocationFails
    <3> DEFINE k == [i EXCEPT !.target = g, !.freed = 0, !.attempted = {}]
    <3>2. k.op = i.op /\ k.client = i.client /\ k.bytes = i.bytes
      BY <1>1 DEF Job
    <3>3. Become(t, "refresh", k) /\ ~AtDonor("refresh")
      BY <3>1 DEF AtDonor
    <3> HIDE DEF k, i
    <3> QED BY <1>3, <2>1, <3>2, <3>3, LimitsStay
  <2> QED BY <2>2, <2>3
<1>6. CASE Record(t)
  <2>1. pc'[t] \in {"idle", "assign"}
    <3>1. CASE Return(t)
      BY <3>1, Arrives DEF Return
    <3>2. CASE Goto(t, "assign")
      BY <3>2 DEF Goto, BrokerInv, Inv, Typed
    <3> QED BY <1>6, <3>1, <3>2 DEF Record
  <2> QED BY <2>1 DEF CallsFit, Alone, RequestFits, Pending, DonorFits, Reclaims, AtDonor,
                      CallbackFits
<1>7. CASE RecordFails(t) \/ Assign(t) \/ Clear(t)
  BY <1>2, <1>7, LimitsStay DEF RecordFails, Assign, Clear, tables
<1>8. CASE Refresh(t)
  <2>1. Become(t, "donor", i) /\ ~AtDonor("donor") /\ pc[t] \notin {"idle", "assign"}
    BY <1>8 DEF Refresh, Become, AtDonor, BrokerInv, Inv, Typed
  <2>2. KeepsLimits
    BY <1>8, LimitsAge DEF Refresh
  <2> QED BY <1>3, <2>1, <2>2
<1>9. CASE Sweep(t)
  <2>1. UNCHANGED clients /\ pc[t] \notin {"idle", "assign"}
    BY <1>9 DEF Sweep, tables
  <2>2. CASE Return(t)
    BY <1>2, <2>1, <2>2, LimitsStay
  <2>3. CASE ~Return(t)
    <3>1. PICK s \in LeasesOf(i.client) :
            Become(t, "sweep-release", [i EXCEPT !.block = leases[s].block])
      BY <1>9, <2>3 DEF Sweep
    <3> DEFINE k == [i EXCEPT !.block = leases[s].block]
    <3>2. k.op = i.op /\ k.client = i.client /\ k.bytes = i.bytes
      BY <1>1 DEF Job
    <3>3. Become(t, "sweep-release", k) /\ ~AtDonor("sweep-release")
      BY <3>1 DEF AtDonor
    <3> HIDE DEF k, i
    <3> QED BY <1>3, <2>1, <3>2, <3>3, LimitsStay
  <2> QED BY <2>2, <2>3
<1>10. CASE Donor(t)
  <2>1. UNCHANGED clients /\ UNCHANGED leases /\ pc[t] = "donor"
    BY <1>10 DEF Donor, tables
  <2>2. CASE ReclaimReturns(t, i)
    <3>1. PICK l, k : Become(t, l, k) /\ Follows(i, l, k) /\ l # "elastic"
      BY <1>1, <2>1, <2>2, ReclaimReturnsOk DEF JobOk
    <3>2. pc'[t] = l /\ job'[t] = k
      BY <3>1, Arrives
    <3>3. pc'[t] = "idle" \/ (Same(t) /\ ~AtDonor(pc'[t]))
      BY <3>1, <3>2 DEF Follows, Same, AtDonor
    <3> QED BY <2>1, <3>3, LimitsStay, FitsOn
  <2>3. CASE ~ReclaimReturns(t, i)
    <3>1. PICK c \in Client :
            /\ findBestDonor(c, i)
            /\ LET ask == AskOf(c, i)
                   ext == Min({ask, ExternalAvailable(c, i.region)})
               IN Become(t, IF ext > 0 THEN "callback" ELSE "elastic",
                         [i EXCEPT !.donor = c, !.ask = ask, !.external = ext,
                                   !.attempted = @ \cup {c}])
      BY <1>10, <2>3 DEF Donor
    <3> DEFINE ask == AskOf(c, i)
               other == ExternalAvailable(c, i.region)
               ext == Min({ask, other})
               k == [i EXCEPT !.donor = c, !.ask = ask, !.external = ext,
                              !.attempted = @ \cup {c}]
    <3>2. MayDonate(c, i) /\ Registered(c)
      BY <3>1 DEF findBestDonor, MayDonate
    <3>3. ClientsTyped /\ Inv
      BY DEF BrokerInv, TablesOk
    <3>4. ext \in Int /\ ext <= AboveMinimum(c)
      <4>1. ask \in Nat /\ ask <= availableReclaim(c, i.region)
        BY <1>1, <2>1, <3>2, <3>3, AskedFor DEF JobOk
      <4>2. other \in Nat /\ availableReclaim(c, i.region) <= AboveMinimum(c)
            /\ availableReclaim(c, i.region) \in Nat /\ AboveMinimum(c) \in Nat
        BY <3>2, <3>3, Amounts
      <4> HIDE DEF ask, other
      <4>3. ext \in {ask, other} /\ ext <= ask
        BY <4>1, <4>2, MinOfTwo
      <4> HIDE DEF ext
      <4> QED BY <4>1, <4>2, <4>3
    <3>5. Become(t, "callback", k) \/ Become(t, "elastic", k)
      BY <3>1
    <3> HIDE DEF ask, other, ext
    <3>6. /\ k.op = i.op /\ k.client = i.client /\ k.bytes = i.bytes /\ k.donor = c
          /\ k.external = ext
      BY <1>1 DEF Job
    <3> HIDE DEF k
    <3>7. job'[t] = k /\ pc'[t] \in {"callback", "elastic"}
      BY <3>5, Arrives
    <3>8. Same(t)
      BY <3>6, <3>7 DEF Same
    <3>9. RequestFits(t)'
      BY <2>1, <3>8, LimitsStay, FitsRequest DEF CallsFit
    <3>10. DonorFits(t)'
      <4>1. MayGive(c, i.client)
        BY <3>2 DEF MayDonate, MayGive
      <4>2. job'[t].donor = c /\ job'[t].client = i.client
        BY <3>6, <3>7
      <4> QED BY <2>1, <4>1, <4>2 DEF DonorFits, MayGive, Registered, importance
    <3>11. CallbackFits(t)'
      BY <2>1, <3>4, <3>6, <3>7 DEF CallbackFits, AboveMinimum, totalBytes
    <3> QED BY <3>9, <3>10, <3>11 DEF CallsFit, Alone
  <2> QED BY <2>2, <2>3
<1>11. CASE Callback(t)
  <2>1. PICK n : MoreFrom(t, [i EXCEPT !.donorFreed = n]) /\ n \in 0 .. i.external
    BY <1>11 DEF Callback
  <2> DEFINE j == [i EXCEPT !.donorFreed = n]
  <2>2. n \in Nat
    BY <1>1, <2>1 DEF Job
  <2>3. j \in Job
    BY <1>1, <2>2 DEF Job
  <2>4. j.op = i.op /\ j.client = i.client /\ j.bytes = i.bytes /\ j.donor = i.donor
    BY <1>1 DEF Job
  <2>5. MoreFrom(t, j) /\ pc[t] = "callback"
    BY <1>11, <2>1 DEF Callback
  <2>6. j.op \in {"request", "ensure", "service"}
    BY <1>1, <2>4, <2>5 DEF JobOk
  <2> HIDE DEF j
  <2> QED BY <1>11, <2>3, <2>4, <2>5, <2>6, LimitsCallback, FitsMore DEF AtDonor
<1>12. CASE Elastic(t)
  <2>1. pc[t] = "elastic" /\ i.op \in {"request", "ensure", "service"}
    BY <1>1, <1>12 DEF Elastic, JobOk
  <2>2. CASE NextDonor(t, i) /\ UNCHANGED tables
    BY <1>1, <2>1, <2>2, LimitsStay, FitsMore DEF AtDonor, tables
  <2>3. CASE ~(NextDonor(t, i) /\ UNCHANGED tables)
    <3>1. PICK s \in Reclaimable(i.donor, i.region) :
            /\ RemoveLease(s)
            /\ Become(t, "notify",
                 [i EXCEPT !.block = leases[s].block, !.notify = leases[s].owner,
                           !.donorFreed = @ + leases[s].bytes])
      BY <1>12, <2>3 DEF Elastic
    <3>2. s \in Taken
      BY <3>1 DEF Reclaimable, ElasticLeases, LeasesOf, Taken
    <3>3. pc'[t] = "notify" /\ Same(t) /\ job'[t].donor = i.donor
      <4>1. /\ pc'[t] = "notify"
            /\ job'[t] = [i EXCEPT !.block = leases[s].block, !.notify = leases[s].owner,
                           !.donorFreed = @ + leases[s].bytes]
        BY <3>1, Arrives
      <4> QED BY <1>1, <4>1 DEF Same, Job
    <3> QED BY <2>1, <3>1, <3>2, <3>3, LimitsRemove, FitsOn DEF AtDonor
  <2> QED BY <2>2, <2>3
<1>13. CASE Notify(t)
  <2>1. /\ pc[t] = "notify" /\ pc'[t] = "giveback" /\ Same(t) /\ job'[t].donor = i.donor
        /\ UNCHANGED clients
    BY <1>13 DEF Notify, Goto, Same, tables, BrokerInv, Inv, Typed
  <2> QED BY <2>1, LimitsStay, FitsOn DEF AtDonor
<1>14. CASE GiveBack(t)
  <2> DEFINE j == [i EXCEPT !.block = NoBlock, !.notify = NoHandle]
  <2>1. j \in Job
    BY <1>1 DEF Job
  <2>2. j.op = i.op /\ j.client = i.client /\ j.bytes = i.bytes /\ j.donor = i.donor
    BY <1>1 DEF Job
  <2>3. UNCHANGED clients /\ pc[t] = "giveback"
    BY <1>14 DEF GiveBack, tables
  <2>4. \/ Return(t) \/ Become(t, "clear", j) \/ Become(t, "sweep", j)
        \/ j.op \notin {"release", "drop", "sweep"} /\ MoreFrom(t, j)
    BY <1>14 DEF GiveBack
  <2>5. ~AtDonor("clear") /\ ~AtDonor("sweep")
    BY DEF AtDonor
  <2> HIDE DEF j
  <2>6. CASE j.op \notin {"release", "drop", "sweep"} /\ MoreFrom(t, j)
    <3>1. j.op \in {"request", "ensure", "service"}
      BY <1>1, <2>1, <2>2, <2>3, <2>6 DEF JobOk, Job, Op
    <3> QED BY <2>1, <2>2, <2>3, <2>6, <3>1, LimitsStay, FitsMore DEF AtDonor
  <2> QED BY <1>2, <1>3, <2>2, <2>3, <2>4, <2>5, <2>6, LimitsStay
<1>15. CASE SweepRelease(t)
  <2>1. pc[t] = "sweep-release" /\ i.op = "sweep"
    BY <1>1, <1>15 DEF SweepRelease, JobOk
  <2>2. CASE Return(t) /\ UNCHANGED tables
    BY <1>2, <2>1, <2>2, LimitsStay DEF tables
  <2>3. CASE ~(Return(t) /\ UNCHANGED tables)
    <3>1. PICK s \in LeaseAt(i.client, i.block) : TakeBack(t, s, i)
      BY <1>15, <2>3 DEF SweepRelease
    <3>2. pc'[t] # "callback" /\ job'[t].op = "sweep"
      <4>1. /\ pc'[t] = IF leases[s].owner = NoHandle THEN "giveback" ELSE "notify"
            /\ job'[t] = [i EXCEPT !.block = leases[s].block, !.notify = leases[s].owner]
        BY <3>1, Arrives DEF TakeBack
      <4> QED BY <1>1, <2>1, <4>1 DEF Job
    <3> QED BY <3>2 DEF CallsFit, Alone, RequestFits, Pending, DonorFits, Reclaims, CallbackFits
  <2> QED BY <2>2, <2>3
<1> QED BY <1>4, <1>5, <1>6, <1>7, <1>8, <1>9, <1>10, <1>11, <1>12, <1>13, <1>14, <1>15 DEF Step

(* For one task, calls may always rely on what they have tested.           *)
LEMMA FitsHold ==
    ASSUME Alone
    PROVE  Spec => [](BrokerInv /\ CallsFit)
<1>1. Init => CallsFit
  BY DEF Init, CallsFit, RequestFits, Pending, DonorFits, Reclaims, AtDonor, CallbackFits
<1>2. BrokerInv /\ BrokerInv' /\ CallsFit /\ [Next]_vars => CallsFit'
  <2> SUFFICES ASSUME BrokerInv, BrokerInv', CallsFit, [Next]_vars PROVE CallsFit'
    OBVIOUS
  <2>1. CASE UNCHANGED vars
    BY <2>1 DEF vars, CallsFit, RequestFits, Pending, DonorFits, Reclaims, CallbackFits, MayGive,
                Permitted, totalBytes, AboveMinimum, importance, Registered
  <2> QED BY <2>1, FitsStart, FitsStep DEF Next
<1> QED BY <1>1, <1>2, BrokerInvHolds, PTL DEF Spec

(* A client's managed bytes grow by a lease that is recorded, and no other *)
(* way.                                                                    *)
LEMMA OnlyRecordsGrow ==
  ASSUME BrokerInv, NEW t \in Task, Start(t) \/ Step(t), ~Record(t),
         NEW c \in Client, Registered(c), Registered(c)'
  PROVE  clients'[c].managed <= clients[c].managed
<1>1. clients[c].managed \in Nat
  BY ClientNumbers DEF BrokerInv, TablesOk
<1>2. ASSUME NEW d \in Client, NEW r, Update(d, r), d = c => r.managed = clients[c].managed
      PROVE  clients'[c].managed <= clients[c].managed
  <2>1. clients'[c] = IF c = d THEN r ELSE clients[c]
    BY <1>2 DEF Update, BrokerInv, TablesOk, ClientsTyped
  <2> QED BY <1>1, <1>2, <2>1
<1>3. ASSUME UNCHANGED clients PROVE clients'[c].managed <= clients[c].managed
  BY <1>1, <1>3
<1>4. ASSUME KeepsLimits PROVE clients'[c].managed <= clients[c].managed
  BY <1>4 DEF KeepsLimits
<1>5. ASSUME NEW d, NEW b, NEW s \in LeaseAt(d, b), NEW j, TakeBack(t, s, j) PROVE KeepsLimits
  <2>1. s \in Taken
    BY DEF LeaseAt, LeasesOf, Taken
  <2> QED BY <1>5, <2>1, LimitsRemove DEF TakeBack
<1>6. clients[c] \in ClientRecord
  BY ClientFields DEF BrokerInv, TablesOk
<1>7. CASE registerClient(t)
  <2>1. PICK d, r : d \in Client /\ clients[d] = Unused /\ Update(d, r)
    BY <1>7 DEF registerClient, IsFirst
  <2> QED BY <1>2, <2>1 DEF Registered
<1>8. CASE unregisterClient(t)
  <2>1. PICK d \in Client : Update(d, Unused)
    BY <1>8 DEF unregisterClient
  <2>2. d # c
    BY <2>1 DEF Update, BrokerInv, TablesOk, ClientsTyped, Registered
  <2> QED BY <1>2, <2>1, <2>2
<1>9. CASE setPriority(t)
  <2>1. PICK d, p : d \in Client /\ Update(d, [clients[d] EXCEPT !.priority = p])
    BY <1>9 DEF setPriority
  <2> QED BY <1>2, <1>6, <2>1 DEF ClientRecord
<1>10. CASE setActivity(t)
  <2>1. PICK d, p : d \in Client /\ Update(d, [clients[d] EXCEPT !.activity = p])
    BY <1>10 DEF setActivity
  <2> QED BY <1>2, <1>6, <2>1 DEF ClientRecord
<1>11. CASE setObservedUsage(t)
  <2>1. PICK d, x, y, z : d \in Client /\
          Update(d, [clients[d] EXCEPT !.observed = x, !.reclaimable = y, !.region = z])
    BY <1>11 DEF setObservedUsage
  <2> QED BY <1>2, <1>6, <2>1 DEF ClientRecord
<1>12. CASE setReclaimer(t)
  <2>1. PICK d, p : d \in Client /\ Update(d, [clients[d] EXCEPT !.reclaims = p])
    BY <1>12 DEF setReclaimer
  <2> QED BY <1>2, <1>6, <2>1 DEF ClientRecord
<1>13. CASE setLimits(t)
  <2>1. PICK d, x, y, z : d \in Client /\
          Update(d, [clients[d] EXCEPT !.minimum = x, !.soft = y, !.hard = z])
    BY <1>13 DEF setLimits
  <2> QED BY <1>2, <1>6, <2>1 DEF ClientRecord
<1>14. CASE touch(t)
  <2>1. PICK h \in Handle :
          Update(ClientOf[h], [clients[ClientOf[h]] EXCEPT !.activity = Active])
    BY <1>14 DEF touch
  <2>2. ClientOf[h] \in Client
    BY BrokerConstants
  <2> QED BY <1>2, <1>6, <2>1, <2>2 DEF ClientRecord
<1>15. CASE service(t) \/ Refresh(t)
  BY <1>4, <1>15, LimitsAge DEF service, Refresh
<1>16. CASE \/ request(t) \/ ensure(t) \/ forget(t) \/ releaseClientAllocations(t)
            \/ Allocated(t) \/ AllocationFails(t) \/ RecordFails(t) \/ Assign(t) \/ Donor(t)
            \/ Notify(t) \/ GiveBack(t) \/ Clear(t) \/ Sweep(t)
  BY <1>3, <1>16
  DEF request, ensure, forget, releaseClientAllocations, Allocated, AllocationFails,
      RecordFails, Assign, Donor, Notify, GiveBack, Clear, Sweep, tables
<1>17. CASE Callback(t)
  BY <1>4, <1>17, LimitsCallback
<1>18. CASE Elastic(t)
  <2>1. (\E s \in Taken : RemoveLease(s)) \/ UNCHANGED tables
    BY <1>18 DEF Elastic, Reclaimable, ElasticLeases, LeasesOf, Taken
  <2> QED BY <1>3, <1>4, <2>1, LimitsRemove DEF tables
<1>19. CASE release(t)
  BY <1>4, <1>5, <1>19 DEF release
<1>20. CASE DropHandle(t)
  <2>1. UNCHANGED tables \/ \E d, b, j : \E s \in LeaseAt(d, b) : TakeBack(t, s, j)
    BY <1>20 DEF DropHandle
  <2> QED BY <1>3, <1>4, <1>5, <2>1 DEF tables
<1>21. CASE SweepRelease(t)
  <2>1. UNCHANGED tables \/ \E s \in LeaseAt(job[t].client, job[t].block) : TakeBack(t, s, job[t])
    BY <1>21 DEF SweepRelease
  <2> QED BY <1>3, <1>4, <1>5, <2>1 DEF tables
<1> QED BY <1>7, <1>8, <1>9, <1>10, <1>11, <1>12, <1>13, <1>14, <1>15, <1>16, <1>17, <1>18, <1>19,
           <1>20, <1>21
    DEF Start, Step

(* A lease that is entered fits the limit of its client at that moment.    *)
LEMMA RecordFits ==
  ASSUME BrokerInv, CallsFit, NEW t \in Task, Record(t), NEW c \in Client, Registered(c),
         clients'[c].managed > clients[c].managed, clients'[c].hard # 0
  PROVE  totalBytes(c)' <= clients'[c].hard
<1> DEFINE d == job[t].client
           n == job[t].bytes
           r == [clients[d] EXCEPT !.managed = @ + n, !.activity = Active]
<1>1. /\ clients[c].managed \in Nat
      /\ Registered(d) /\ d \in Client /\ n \in Nat
  BY ClientNumbers
  DEF BrokerInv, TablesOk, JobsOk, JobOk, Job, Record, CanRecord, Registered
<1>2. clients' = [clients EXCEPT ![d] = r]
  BY DEF Record, Update
<1>3. clients'[d] = r /\ \A e \in Client \ {d} : clients'[e] = clients[e]
  BY <1>1, <1>2 DEF BrokerInv, TablesOk, ClientsTyped
<1>4. c = d
  BY <1>1, <1>3
<1>5. clients[d] \in ClientRecord
  BY <1>1, ClientFields DEF BrokerInv, TablesOk
<1>6. /\ r.managed = clients[d].managed + n /\ r.observed = clients[d].observed
      /\ r.hard = clients[d].hard
      /\ clients[d].managed \in Nat /\ clients[d].observed \in Nat /\ clients[d].hard \in Nat
  BY <1>5 DEF ClientRecord
<1>7. Pending(t)
  BY <1>1 DEF Pending, Record, BrokerInv, JobsOk, JobOk
<1>8. Permitted(d, n)
  BY <1>7 DEF CallsFit, RequestFits
<1> HIDE DEF d, n, r
<1>9. r.managed + r.observed <= r.hard
  BY <1>1, <1>3, <1>4, <1>6, <1>8 DEF Permitted, totalBytes
<1> QED BY <1>3, <1>4, <1>9 DEF totalBytes

(* README: a hard limit is a limit.  One task's request, tested against it *)
(* before the block is allocated, still fits when its lease is recorded,   *)
(* whatever was reclaimed meanwhile.                                       *)
THEOREM LimitsAreKept ==
    ASSUME Alone
    PROVE  Spec => HardLimitKept
<1>1. BrokerInv /\ CallsFit /\ [Next]_vars =>
        [\A c \in Client :
            /\ Registered(c)
            /\ Registered(c)'
            /\ clients'[c].managed > clients[c].managed
            /\ clients'[c].hard # 0
            => totalBytes(c)' <= clients'[c].hard]_vars
  <2> SUFFICES ASSUME BrokerInv, CallsFit, NEW t \in Task, Start(t) \/ Step(t),
                      NEW c \in Client, Registered(c), Registered(c)',
                      clients'[c].managed > clients[c].managed, clients'[c].hard # 0
               PROVE  totalBytes(c)' <= clients'[c].hard
    BY DEF Next
  <2>1. Record(t)
    <3>1. SUFFICES ASSUME ~Record(t) PROVE FALSE
      OBVIOUS
    <3>2. clients'[c].managed <= clients[c].managed
      BY <3>1, OnlyRecordsGrow
    <3>3. clients[c].managed \in Nat /\ clients'[c].managed \in Int
      <4>1. clients'[c] \in ClientRecord
        BY TablesNext DEF BrokerInv, TablesOk, ClientsTyped, Registered, Next
      <4> QED BY <4>1, ClientNumbers DEF BrokerInv, TablesOk, ClientRecord
    <3> QED BY <3>2, <3>3
  <2> QED BY <2>1, RecordFits
<1>2. Spec => [](BrokerInv /\ CallsFit)
  BY FitsHold
<1> QED BY <1>1, <1>2, PTL DEF Spec, HardLimitKept

(* What the callback and the reclaim of a lease take from a client. *)
LEMMA CallbackTakes ==
  ASSUME BrokerInv, CallsFit, NEW t \in Task, Callback(t), NEW c \in Client, Registered(c),
         totalBytes(c)' < totalBytes(c)
  PROVE  c = job[t].donor /\ totalBytes(c)' >= clients[c].minimum
<1> DEFINE x == job[t].external
<1>1. pc[t] = "callback" /\ x \in Nat
  BY DEF Callback, BrokerInv, JobsOk, JobOk, Job
<1>2. /\ KeepsLimits
      /\ clients'[c].managed = clients[c].managed
      /\ clients'[c].observed # clients[c].observed =>
            c = job[t].donor /\ clients'[c].observed >= clients[c].observed - x
  BY LimitsCallback
<1>3. /\ clients[c].managed \in Nat /\ clients[c].observed \in Nat /\ clients[c].minimum \in Nat
      /\ clients'[c].observed <= clients[c].observed
  BY <1>2, ClientNumbers DEF BrokerInv, TablesOk, KeepsLimits
<1>4. clients'[c].observed \in Int
  <2>1. ClientsTyped'
    BY TablesCallback DEF BrokerInv, TablesOk
  <2>2. Registered(c)'
    BY <1>2 DEF KeepsLimits
  <2> QED BY <2>1, <2>2 DEF ClientsTyped, Registered, ClientRecord
<1>5. clients'[c].observed # clients[c].observed
  BY <1>2, <1>3 DEF totalBytes
<1>6. x <= AboveMinimum(c)
  BY <1>1, <1>2, <1>5 DEF CallsFit, CallbackFits
<1>7. /\ AboveMinimum(c) \in Nat
      /\ AboveMinimum(c) = 0 \/ AboveMinimum(c) = totalBytes(c) - clients[c].minimum
  BY Amounts DEF BrokerInv, TablesOk
<1> HIDE DEF x
<1>8. AboveMinimum(c) = totalBytes(c) - clients[c].minimum
  BY <1>1, <1>2, <1>3, <1>4, <1>5, <1>6, <1>7
<1> QED BY <1>1, <1>2, <1>3, <1>4, <1>5, <1>6, <1>8 DEF totalBytes

(* An elastic lease is taken from the donor only, and not below its floor. *)
LEMMA ElasticTakes ==
  ASSUME BrokerInv, NEW t \in Task, Elastic(t), NEW c \in Client, Registered(c),
         totalBytes(c)' < totalBytes(c)
  PROVE  c = job[t].donor /\ totalBytes(c)' >= clients[c].minimum
<1> DEFINE d == job[t].donor
<1>1. /\ clients[c].managed \in Nat /\ clients[c].observed \in Nat /\ clients[c].minimum \in Nat
  BY ClientNumbers DEF BrokerInv, TablesOk
<1>2. clients'[c] # clients[c]
  BY <1>1 DEF totalBytes
<1>3. PICK s \in Reclaimable(d, job[t].region) : RemoveLease(s)
  BY <1>2 DEF Elastic, tables
<1>4. /\ s \in Taken /\ leases[s].client = d /\ Registered(d) /\ d \in Client
      /\ leases[s].bytes <= AboveMinimum(d)
  BY <1>3 DEF Reclaimable, ElasticLeases, LeasesOf, Taken, Registered
<1>5. leases[s].bytes \in Nat /\ leases[s].bytes > 0
  BY <1>4 DEF BrokerInv, Inv, Typed, TablesOk, Leased, Taken, LeaseRecord
<1> DEFINE n == leases[s].bytes
           r == [clients[d] EXCEPT !.managed = @ - n]
<1>6. Update(d, r)
  BY <1>2, <1>3, <1>4 DEF RemoveLease
<1>7. clients'[d] = r /\ \A e \in Client \ {d} : clients'[e] = clients[e]
  BY <1>4, <1>6 DEF Update, BrokerInv, TablesOk, ClientsTyped
<1>8. c = d
  BY <1>2, <1>7
<1>9. clients[d] \in ClientRecord
  BY <1>4, ClientFields DEF BrokerInv, TablesOk
<1>10. r.managed = clients[d].managed - n /\ r.observed = clients[d].observed
  BY <1>9 DEF ClientRecord
<1>11. /\ AboveMinimum(d) \in Nat
       /\ AboveMinimum(d) = 0 \/ AboveMinimum(d) = totalBytes(d) - clients[d].minimum
  BY <1>4, Amounts DEF BrokerInv, TablesOk
<1> HIDE DEF d, n, r
<1>12. AboveMinimum(d) = totalBytes(d) - clients[d].minimum
  BY <1>4, <1>5, <1>11 DEF n
<1>13. clients'[d].managed + clients'[d].observed >= clients[d].minimum
  BY <1>1, <1>4, <1>5, <1>7, <1>8, <1>10, <1>12 DEF n, totalBytes
<1> QED BY <1>8, <1>13 DEF totalBytes, d

(* Of one task the only steps at "callback" and "elastic" are those that   *)
(* take memory from a donor.                                               *)
LEMMA OnlyDonorsSteps ==
    ASSUME NEW t \in Task, pc[t] \in {"callback", "elastic"}, Start(t) \/ Step(t)
    PROVE  Callback(t) \/ Elastic(t)
<1>1. ~Start(t)
  BY DEF Start, registerClient, unregisterClient, setPriority, setActivity,
         setObservedUsage, setLimits, setReclaimer, touch, Quick, request, ensure, forget,
         service, release, DropHandle, releaseClientAllocations
<1>2. ~(Allocated(t) \/ AllocationFails(t) \/ Record(t) \/ RecordFails(t))
  BY DEF Allocated, AllocationFails, Record, RecordFails
<1>3. ~(Assign(t) \/ Refresh(t) \/ Donor(t) \/ Notify(t))
  BY DEF Assign, Refresh, Donor, Notify
<1>4. ~(GiveBack(t) \/ Clear(t) \/ Sweep(t) \/ SweepRelease(t))
  BY DEF GiveBack, Clear, Sweep, SweepRelease
<1> QED BY <1>1, <1>2, <1>3, <1>4, Zenon DEF Step

(* The step that takes memory respects the donor's floor and its rank.     *)
LEMMA DonorStepFits ==
    ASSUME BrokerInv, CallsFit, NEW t \in Task, NEW c \in Client,
           Start(t) \/ Step(t), Reclaiming(t), Registered(c),
           totalBytes(c)' < totalBytes(c)
    PROVE  totalBytes(c)' >= clients[c].minimum /\ MayGive(c, job[t].client)
<1>1. pc[t] \in {"callback", "elastic"}
  BY Zenon DEF Reclaiming
<1>2. Callback(t) \/ Elastic(t)
  BY <1>1, OnlyDonorsSteps, Zenon
<1>3. c = job[t].donor /\ totalBytes(c)' >= clients[c].minimum
  <2>1. CASE Callback(t)
    BY <2>1, CallbackTakes
  <2>2. CASE Elastic(t)
    BY <2>2, ElasticTakes
  <2> QED BY <1>2, <2>1, <2>2, Zenon
<1>4. Reclaims(t)
  <2>1. JobOk(pc[t], job[t])
    BY DEF BrokerInv, JobsOk
  <2> QED BY <1>1, <2>1 DEF Reclaims, AtDonor, JobOk
<1>5. DonorFits(t)
  BY <1>4, Zenon DEF CallsFit
<1> QED BY <1>1, <1>3, <1>4, <1>5 DEF DonorFits

(* README: a reclaim preserves "configured client minimum-retained floors",*)
(* Critical clients, the requester and clients as important as it.  With   *)
(* one task nothing comes between the choice of a donor and the steps that *)
(* take its memory.                                                        *)
THEOREM DonorsAreRespected ==
    ASSUME Alone
    PROVE  Spec => DonorsRespected
<1>1. ASSUME BrokerInv, CallsFit, Next, NEW t \in Task, NEW c \in Client, Reclaiming(t),
             ~UNCHANGED pc[t], Registered(c), totalBytes(c)' < totalBytes(c)
      PROVE  /\ totalBytes(c)' >= clients[c].minimum
             /\ MayGive(c, job[t].client)
  <2>1. PICK u \in Task : Start(u) \/ Step(u)
    BY <1>1, Zenon DEF Next
  <2>2. u = t
    BY Alone, Zenon DEF Alone
  <2> QED BY <1>1, <2>1, <2>2, DonorStepFits, Zenon
<1>2. BrokerInv /\ CallsFit /\ [Next]_vars => [FloorKept /\ ProtectedClientsKept]_vars
  BY <1>1 DEF FloorKept, ProtectedClientsKept, MayGive
<1>3. Spec => [](BrokerInv /\ CallsFit)
  BY FitsHold
<1> QED BY <1>2, <1>3, PTL DEF Spec, DonorsRespected
=============================================================================
