---------------------------- MODULE ActivityClock ----------------------------
(***************************************************************************)
(* How MemoryBroker (src/src/NV3047_MemoryBroker.cpp) tells who is active: *)
(* every client and every lease keeps the millis() value of its last use,  *)
(* and service() and reclaimFor() lower the activity of clients that have  *)
(* been quiet for too long.  MemoryBroker.tla lets an activity decay at    *)
(* any moment; here is the clock, an unsigned counter that wraps.          *)
(*                                                                         *)
(* All calls but reclaimFor() read millis() before they enter the critical *)
(* section, so that reading and entering are two steps and the clock may   *)
(* go on in between.  Lease is the elastic leases; what they hold never    *)
(* changes, so that two leases of one client that differ in it are two     *)
(* members of Lease.                                                       *)
(***************************************************************************)
EXTENDS Integers, FiniteSets, FiniteSetsExt

CONSTANTS
    Task,
    Servicer,       \* tasks that call service() in a loop
    Client,
    Lease,
    BytesOf,        \* how much each lease holds ...
    RegionOf,       \* ... and where
    Unused,         \* a client record, or a lease, with used = false
    NoCall,
    W,              \* millis() wraps at W, 2^32 in the code
    Configs,        \* <<backgroundAfterMs, idleAfterMs>> of registrations
    Activities,     \* values passed to setActivity; noteActivity: Active
    BURST_MS,       \* 250 in the code
    serviceIntervalMs,
    GAP             \* bound: service() comes at least once in GAP ms

Idle == 0           \* BrokerActivity
Background == 1
Active == 2
Burst == 3
Activity == Idle .. Burst
Region == {"Internal", "PSRAM", "DMA"}
Ms == 0 .. W - 1
Since == 0 .. W     \* true time since an event; W stands for W or more
ClientRecord == [activity : Activity, background : Ms, idle : Ms, last : Ms]
LeaseRecord == [client : Client, last : Ms]

ASSUME ClockConstants ==
    /\ W \in Nat /\ BURST_MS \in Ms \ {0} /\ serviceIntervalMs \in Ms
    /\ Configs \subseteq Ms \X Ms /\ Activities \subseteq Activity
    /\ Servicer \subseteq Task
    /\ BytesOf \in [Lease -> Nat] /\ RegionOf \in [Lease -> Region]
    /\ GAP \in Nat /\ GAP > serviceIntervalMs
    /\ \A cfg \in Configs : Max({cfg[1], cfg[2]}) + 2 * GAP < W
    /\ Unused \notin ClientRecord \cup LeaseRecord

VARIABLES
    millis,
    clients,            \* clients_
    leases,             \* leases_
    last_service,
    call,               \* each task's call, with the time it has read
    quiet,              \* true time since a client was last set active (history)
    unused,             \* true time since a lease was last used (history)
    unserved            \* true time since the last pass of service() (history)

vars == <<millis, clients, leases, last_service, call, quiet, unused, unserved>>

Known == {c \in Client : clients[c] # Unused}
Leased == {l \in Lease : leases[l] # Unused}

Op == [op : {"registerClient"}, client : Client, config : Configs]
    \cup [op : {"setActivity"}, client : Client, activity : Activities]
    \cup [op : {"request"}, client : Client, lease : Lease]
    \cup [op : {"touch"}, lease : Lease]
    \cup [op : {"service"}]
Call == [op : Op, now : Ms, lag : Since]

Init ==
    /\ millis \in Ms
    /\ clients = [c \in Client |-> Unused]
    /\ leases = [l \in Lease |-> Unused]
    /\ last_service = millis
    /\ call = [t \in Task |-> NoCall]
    /\ quiet = [c \in Client |-> 0]
    /\ unused = [l \in Lease |-> 0]
    /\ unserved = 0

-----------------------------------------------------------------------------
(* Time *)

Older(n) == Min({n + 1, W})
Tick ==
    /\ unserved < GAP
    /\ millis' = (millis + 1) % W
    /\ quiet' = [c \in Client |-> IF c \in Known THEN Older(quiet[c]) ELSE 0]
    /\ unused' = [l \in Lease |-> IF l \in Leased THEN Older(unused[l]) ELSE 0]
    /\ unserved' = unserved + 1
    /\ call' = [t \in Task |-> IF call[t] = NoCall THEN NoCall
                               ELSE [call[t] EXCEPT !.lag = Older(@)]]
    /\ UNCHANGED <<clients, leases, last_service>>

-----------------------------------------------------------------------------
(* A call reads the clock ... *)

Read(t, o) ==
    /\ call[t] = NoCall
    /\ call' = [call EXCEPT ![t] = [op |-> o, now |-> millis, lag |-> 0]]
    /\ UNCHANGED <<millis, clients, leases, quiet, unused, unserved>>
Begin(t) ==
    /\ \E o \in Op : o.op # "service" /\ Read(t, o)
    /\ UNCHANGED last_service

(* service() does nothing within serviceIntervalMs of its last pass. *)
BeginService(t) ==
    /\ t \in Servicer
    /\ (millis - last_service) % W >= serviceIntervalMs
    /\ last_service' = millis
    /\ Read(t, [op |-> "service"])

-----------------------------------------------------------------------------
(* ... and enters the critical section *)

In(t, op) == call[t] # NoCall /\ call[t].op.op = op
Return(t) == call' = [call EXCEPT ![t] = NoCall]
Quick == UNCHANGED <<millis, last_service, unserved>>

(* Client c shows activity a at time call[t].now. *)
Shows_NoStamp(t, c, a) ==
    /\ clients' = [clients EXCEPT ![c].activity = a]
    /\ quiet' = [quiet EXCEPT ![c] = call[t].lag]
Shows(t, c, a) ==
    /\ clients' = [clients EXCEPT ![c].activity = a, ![c].last = call[t].now]
    /\ quiet' = [quiet EXCEPT ![c] = call[t].lag]
(* Lease l is used at time call[t].now. *)
Uses(t, l, c) ==
    /\ leases' = [leases EXCEPT ![l] = [client |-> c, last |-> call[t].now]]
    /\ unused' = [unused EXCEPT ![l] = call[t].lag]

registerClient(t) ==
    /\ In(t, "registerClient")
    /\ LET c == call[t].op.client
           cfg == call[t].op.config
       IN IF c \in Known THEN UNCHANGED <<clients, quiet>>
          ELSE /\ clients' = [clients EXCEPT ![c] =
                    [activity |-> Idle, background |-> cfg[1],
                     idle |-> Max({cfg[1], cfg[2]}), last |-> call[t].now]]
               /\ quiet' = [quiet EXCEPT ![c] = call[t].lag]
    /\ Return(t)
    /\ Quick
    /\ UNCHANGED <<leases, unused>>

setActivity(t) ==
    /\ In(t, "setActivity")
    /\ LET o == call[t].op
       IN IF o.client \in Known THEN Shows(t, o.client, o.activity)
          ELSE UNCHANGED <<clients, quiet>>
    /\ Return(t)
    /\ Quick
    /\ UNCHANGED <<leases, unused>>

(* requestInternal, where it enters the lease *)
request(t) ==
    /\ In(t, "request")
    /\ LET o == call[t].op
       IN IF o.client \in Known /\ o.lease \notin Leased
          THEN Shows(t, o.client, Active) /\ Uses(t, o.lease, o.client)
          ELSE UNCHANGED <<clients, quiet, leases, unused>>
    /\ Return(t)
    /\ Quick

touch(t) ==
    /\ In(t, "touch")
    /\ LET l == call[t].op.lease
       IN IF l \in Leased
          THEN Shows(t, leases[l].client, Active) /\ Uses(t, l, leases[l].client)
          ELSE UNCHANGED <<clients, quiet, leases, unused>>
    /\ Return(t)
    /\ Quick

-----------------------------------------------------------------------------
(* Decay *)

(* A variant that never gets to Idle. *)
Decayed_NeverIdle(r, age) ==
    IF r.background # 0 /\ age >= r.background THEN Background
    ELSE IF r.activity = Burst /\ age >= BURST_MS THEN Active ELSE r.activity
Decayed(r, age) ==
    IF r.idle # 0 /\ age >= r.idle THEN Idle
    ELSE IF r.background # 0 /\ age >= r.background THEN Background
    ELSE IF r.activity = Burst /\ age >= BURST_MS THEN Active ELSE r.activity

(* The difference of two unsigned numbers is unsigned. *)
refreshActivities(now) ==
    clients' = [c \in Client |-> IF c \notin Known THEN Unused ELSE
        [clients[c] EXCEPT !.activity =
            Decayed(clients[c], (now - clients[c].last) % W)]]

(* service, with the time it has read *)
service(t) ==
    /\ In(t, "service")
    /\ refreshActivities(call[t].now)
    /\ unserved' = 0
    /\ Return(t)
    /\ UNCHANGED <<millis, leases, last_service, quiet, unused>>

(* reclaimFor reads the clock inside the critical section. *)
reclaimFor(t) ==
    /\ call[t] = NoCall
    /\ refreshActivities(millis)
    /\ Quick
    /\ UNCHANGED <<leases, call, quiet, unused>>

regionCanSatisfy(donor, target) ==
    \/ target = "Auto"
    \/ donor = target
    \/ target = "Internal" /\ donor = "DMA"

(* The leases that may be taken from c when maximumBytes are above its     *)
(* minimum and memory is wanted in targetRegion ...                        *)
Candidates(c, maximumBytes, targetRegion) ==
    {l \in Leased : /\ leases[l].client = c
                    /\ BytesOf[l] <= maximumBytes
                    /\ regionCanSatisfy(RegionOf[l], targetRegion)}
(* ... and the one with the smallest stamp among them.                     *)
findOldestElasticLease(l, candidates) ==
    /\ l \in candidates
    /\ \A r \in candidates : leases[l].last <= leases[r].last

(* The surplus of c is whatever MemoryBroker.tla makes it; which leases    *)
(* fit under it is all that matters here.                                  *)
Surpluses == {BytesOf[l] : l \in Lease}
reclaimElastic(t) ==
    /\ call[t] = NoCall
    /\ \E c \in Known, maximumBytes \in Surpluses,
          targetRegion \in Region \cup {"Auto"}, l \in Lease :
        /\ findOldestElasticLease(l, Candidates(c, maximumBytes, targetRegion))
        /\ leases' = [leases EXCEPT ![l] = Unused]
        /\ unused' = [unused EXCEPT ![l] = 0]
    /\ Quick
    /\ UNCHANGED <<clients, call, quiet>>

Finish(t) ==
    registerClient(t) \/ setActivity(t) \/ request(t) \/ touch(t) \/ service(t)
Next == Tick \/ \E t \in Task :
    Begin(t) \/ BeginService(t) \/ Finish(t) \/ reclaimFor(t) \/ reclaimElastic(t)

Spec == Init /\ [][Next]_vars

-----------------------------------------------------------------------------
(* Properties *)

(* Every variable has its type. *)
TypeOK ==
    /\ millis \in Ms /\ last_service \in Ms
    /\ clients \in [Client -> ClientRecord \cup {Unused}]
    /\ leases \in [Lease -> LeaseRecord \cup {Unused}]
    /\ call \in [Task -> Call \cup {NoCall}]
    /\ quiet \in [Client -> Since]
    /\ unused \in [Lease -> Since]
    /\ unserved \in 0 .. GAP

Refreshes == \E t \in Task : service(t) \/ reclaimFor(t)
Lowered(c) == clients'[c].activity < clients[c].activity
LongEnough(c, after) == after # 0 /\ quiet[c] >= after

(* README: "While the UI is active, its cached assets are protected".  A   *)
(* refresh lowers no client that has been quiet for less than the time it  *)
(* was registered with (0: never), wherever the clock wraps.               *)
NotDemotedEarly ==
    Refreshes => \A c \in Known : Lowered(c) =>
        CASE clients'[c].activity = Idle -> LongEnough(c, clients[c].idle)
          [] clients'[c].activity = Background -> LongEnough(c, clients[c].background)
          [] OTHER -> LongEnough(c, BURST_MS)

(* README: inactive clients "automatically decay through Background to     *)
(* Idle".  A client that nobody has set or used for its idleAfterMs, and   *)
(* for the time that two passes of service() take, is Idle, until the      *)
(* clock comes round to its stamp again.                                   *)
IdleInTime ==
    \A c \in Known :
        /\ clients[c].idle # 0
        /\ quiet[c] >= clients[c].idle + 2 * GAP
        /\ quiet[c] < W
        => clients[c].activity = Idle

(* r would have done in place of l: it is no larger, and lies where memory *)
(* of any region that l can satisfy may be taken from.                     *)
InPlaceOf(r, l) ==
    /\ leases[r].client = leases[l].client
    /\ BytesOf[r] <= BytesOf[l]
    /\ regionCanSatisfy(RegionOf[r], RegionOf[l])

(* findOldestElasticLease: the broker takes no lease while another that    *)
(* would have done in its place has gone unused for longer, of those used  *)
(* since the clock last wrapped.  (A larger one, or one elsewhere, may     *)
(* well be older.)                                                         *)
OldestElasticFirst ==
    \A l, r \in Leased :
        leases'[l] = Unused /\ InPlaceOf(r, l) /\ unused[r] <= millis
        => unused[r] <= unused[l]

(* Idle is reached in time, with every variable in its type ...            *)
IdleWhenQuiet == TypeOK /\ IdleInTime
(* ... and nobody loses its protection or its lease before its turn.       *)
NobodyBeforeItsTurn == [][NotDemotedEarly /\ OldestElasticFirst]_vars
=============================================================================
