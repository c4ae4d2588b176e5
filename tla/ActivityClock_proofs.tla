------------------------ MODULE ActivityClock_proofs ------------------------
(***************************************************************************)
(* Theorems about ActivityClock, for any clock width, any clients, leases  *)
(* and times.                                                              *)
(*                                                                         *)
(* ClockInv says what the stamps are worth, whatever tasks interleave: as  *)
(* long as the clock has not come round, the difference of clock and stamp *)
(* is the true time since the event.  With one task, no call has read the  *)
(* clock before the last event (InOrder), and a client that is not Idle    *)
(* cannot have been quiet for longer than two passes of service() leave    *)
(* unnoticed (Due).                                                        *)
(***************************************************************************)
EXTENDS ActivityClock, Sums_proofs

(* The clock has at least one value.                                       *)
LEMMA Width == W \in Nat /\ W > 0 /\ GAP \in Nat /\ BURST_MS \in Nat /\ BURST_MS # 0
    BY ClockConstants DEF Ms

(* The difference of two unsigned numbers.                                 *)
LEMMA Difference ==
    ASSUME NEW m \in Ms, NEW x \in Ms
    PROVE  (m - x) % W = IF m >= x THEN m - x ELSE m - x + W
<1>1. W \in Nat /\ W > 0 /\ m \in 0 .. W - 1 /\ x \in 0 .. W - 1
    BY Width DEF Ms
<1>2. ASSUME m >= x PROVE (m - x) % W = m - x
    BY <1>1, <1>2
<1>3. ASSUME m < x PROVE (m - x) % W = m - x + W
    BY <1>1, <1>3
<1> QED
    BY <1>1, <1>2, <1>3

(* The next value of the clock.                                            *)
LEMMA Successor ==
    ASSUME NEW m \in Ms
    PROVE  (m + 1) % W = IF m + 1 = W THEN 0 ELSE m + 1
<1>1. W \in Nat /\ W > 0 /\ m \in 0 .. W - 1
    BY Width DEF Ms
<1>2. ASSUME m + 1 = W PROVE (m + 1) % W = 0
    BY <1>1, <1>2
<1>3. ASSUME m + 1 # W PROVE (m + 1) % W = m + 1
    BY <1>1, <1>3
<1> QED
    BY <1>2, <1>3

(* True times are counted up to W.                                         *)
LEMMA OlderIs ==
    ASSUME NEW n \in Since
    PROVE  Older(n) = (IF n + 1 <= W THEN n + 1 ELSE W) /\ Older(n) \in Since
<1>1. n + 1 \in Int /\ W \in Int /\ n \in 0 .. W
    BY Width DEF Since
<1>2. Older(n) = IF n + 1 <= W THEN n + 1 ELSE W
    BY <1>1, MinOf DEF Older
<1> QED
    BY <1>1, <1>2 DEF Since

-----------------------------------------------------------------------------
(* What stamps are worth, whatever tasks interleave *)

Elapsed(x) == (millis - x) % W
(* A stamp x tells the true time n since an event.                         *)
Tells(x, n) == n < W => n = Elapsed(x)
Stamped ==
    /\ \A c \in Known : Tells(clients[c].last, quiet[c])
    /\ \A l \in Leased : Tells(leases[l].last, unused[l])
    /\ \A t \in Task : call[t] # NoCall => Tells(call[t].now, call[t].lag)
Owned == \A l \in Leased : leases[l].client \in Known
ClockInv == TypeOK /\ Stamped /\ Owned

(* A stamp tells as much a millisecond later.                              *)
LEMMA TellsLater ==
    ASSUME NEW x \in Ms, NEW n \in Since, millis \in Ms, Tells(x, n),
           millis' = (millis + 1) % W
    PROVE  Older(n) < W => Older(n) = (millis' - x) % W
<1>1. W \in Nat /\ W > 0 /\ n \in 0 .. W /\ x \in 0 .. W - 1 /\ millis \in 0 .. W - 1
    BY Width DEF Ms, Since
<1>2. Elapsed(x) = IF millis >= x THEN millis - x ELSE millis - x + W
    BY Difference DEF Elapsed
<1>3. millis' = (IF millis + 1 = W THEN 0 ELSE millis + 1) /\ millis' \in Ms
    BY <1>1, Successor DEF Ms
<1>4. (millis' - x) % W = IF millis' >= x THEN millis' - x ELSE millis' - x + W
    BY <1>3, Difference
<1>5. Older(n) = IF n + 1 <= W THEN n + 1 ELSE W
    BY OlderIs
<1>6. n < W => n = Elapsed(x)
    BY DEF Tells
<1> QED
    BY <1>1, <1>2, <1>3, <1>4, <1>5, <1>6

(* The clock ticks.                                                        *)
LEMMA TickKeeps ==
    ASSUME ClockInv, Tick
    PROVE  ClockInv'
<1> USE DEF ClockInv
<1>1. /\ millis' = (millis + 1) % W /\ unserved' = unserved + 1 /\ unserved < GAP
      /\ clients' = clients /\ leases' = leases /\ last_service' = last_service
      /\ quiet' = [c \in Client |-> IF c \in Known THEN Older(quiet[c]) ELSE 0]
      /\ unused' = [l \in Lease |-> IF l \in Leased THEN Older(unused[l]) ELSE 0]
      /\ call' = [t \in Task |-> IF call[t] = NoCall THEN NoCall
                                 ELSE [call[t] EXCEPT !.lag = Older(@)]]
    BY DEF Tick
<1>2. Known' = Known /\ Leased' = Leased
    BY <1>1 DEF Known, Leased
<1>3. millis \in Ms /\ millis' \in Ms
    BY <1>1, Successor, Width DEF TypeOK, Ms
<1>4. 0 \in Since
    BY Width DEF Since
<1>5. ASSUME NEW t \in Task, call[t] # NoCall
      PROVE  /\ call'[t] \in Call /\ call'[t].now = call[t].now
             /\ call'[t].lag = Older(call[t].lag) /\ call[t].lag \in Since /\ call[t].now \in Ms
  <2>1. call[t] \in Call /\ call'[t] = [call[t] EXCEPT !.lag = Older(@)]
      BY <1>1, <1>5 DEF TypeOK
  <2>2. Older(call[t].lag) \in Since
      BY <2>1, OlderIs DEF Call
  <2> QED
      BY <2>1, <2>2 DEF Call
<1>6. TypeOK'
  <2>1. quiet' \in [Client -> Since]
      BY <1>1, <1>4, OlderIs DEF TypeOK
  <2>2. unused' \in [Lease -> Since]
      BY <1>1, <1>4, OlderIs DEF TypeOK
  <2>3. call' \in [Task -> Call \cup {NoCall}]
    <3>1. ASSUME NEW t \in Task PROVE call'[t] \in Call \cup {NoCall}
        BY <1>1, <1>5
    <3>2. call' = [t \in Task |-> call'[t]]
        BY <1>1
    <3> QED
        BY <3>1, <3>2
  <2>4. unserved' \in 0 .. GAP
      BY <1>1, Width DEF TypeOK
  <2> QED
      BY <1>1, <1>3, <2>1, <2>2, <2>3, <2>4 DEF TypeOK
<1>7. ASSUME NEW x \in Ms, NEW n \in Since, Tells(x, n)
      PROVE  Older(n) < W => Older(n) = Elapsed(x)'
    BY <1>1, <1>3, <1>7, TellsLater DEF Elapsed
<1>8. ASSUME NEW c \in Known' PROVE Tells(clients[c].last, quiet[c])'
  <2>1. clients[c].last \in Ms /\ quiet[c] \in Since /\ c \in Known /\ c \in Client
      BY <1>2, <1>8 DEF TypeOK, Known, ClientRecord
  <2>2. Tells(clients[c].last, quiet[c]) /\ quiet'[c] = Older(quiet[c])
      BY <1>1, <2>1 DEF Stamped
  <2>3. clients'[c].last = clients[c].last
      BY <1>1
  <2> QED
      BY <1>7, <2>1, <2>2, <2>3 DEF Tells, Elapsed
<1>9. ASSUME NEW l \in Leased' PROVE Tells(leases[l].last, unused[l])'
  <2>1. leases[l].last \in Ms /\ unused[l] \in Since /\ l \in Leased /\ l \in Lease
      BY <1>2, <1>9 DEF TypeOK, Leased, LeaseRecord
  <2>2. Tells(leases[l].last, unused[l]) /\ unused'[l] = Older(unused[l])
      BY <1>1, <2>1 DEF Stamped
  <2>3. leases'[l].last = leases[l].last
      BY <1>1
  <2> QED
      BY <1>7, <2>1, <2>2, <2>3 DEF Tells, Elapsed
<1>10. ASSUME NEW t \in Task, call'[t] # NoCall PROVE Tells(call[t].now, call[t].lag)'
  <2>1. call[t] # NoCall
      BY <1>1, <1>10
  <2>2. Tells(call[t].now, call[t].lag)
      BY <2>1 DEF Stamped
  <2> QED
      BY <1>5, <1>7, <2>1, <2>2 DEF Tells, Elapsed
<1>11. Stamped'
    BY <1>8, <1>9, <1>10 DEF Stamped
<1>12. Owned'
    BY <1>1, <1>2 DEF Owned
<1> QED
    BY <1>6, <1>11, <1>12

(* A call reads the clock.                                                 *)
LEMMA ReadKeeps ==
    ASSUME ClockInv, NEW t \in Task, NEW o \in Op, Read(t, o), last_service' \in Ms
    PROVE  ClockInv'
<1> USE DEF ClockInv
<1>1. /\ call' = [call EXCEPT ![t] = [op |-> o, now |-> millis, lag |-> 0]]
      /\ millis' = millis /\ clients' = clients /\ leases' = leases
      /\ quiet' = quiet /\ unused' = unused /\ unserved' = unserved
    BY DEF Read
<1>2. Known' = Known /\ Leased' = Leased
    BY <1>1 DEF Known, Leased
<1>3. [op |-> o, now |-> millis, lag |-> 0] \in Call
    BY Width DEF TypeOK, Call, Since
<1>4. call' \in [Task -> Call \cup {NoCall}]
    BY <1>1, <1>3 DEF TypeOK
<1>5. TypeOK'
    BY <1>1, <1>4 DEF TypeOK
<1>6. (millis - millis) % W = 0
    BY Difference DEF TypeOK, Ms
<1>7. ASSUME NEW u \in Task, call'[u] # NoCall PROVE Tells(call[u].now, call[u].lag)'
  <2>1. CASE u = t
    <3>1. call'[u].now = millis /\ call'[u].lag = 0
        BY <1>1, <2>1 DEF TypeOK
    <3> QED
        BY <1>1, <1>6, <3>1 DEF Tells, Elapsed
  <2>2. CASE u # t
    <3>1. call'[u] = call[u]
        BY <1>1, <2>2 DEF TypeOK
    <3> QED
        BY <1>1, <1>7, <3>1 DEF Stamped, Tells, Elapsed
  <2> QED
      BY <2>1, <2>2
<1>8. Stamped'
    BY <1>1, <1>2, <1>7 DEF Stamped, Tells, Elapsed
<1>9. Owned'
    BY <1>1, <1>2 DEF Owned
<1> QED
    BY <1>5, <1>8, <1>9

(* A call returns.                                                         *)
LEMMA ReturnKeeps ==
    ASSUME ClockInv, NEW t \in Task, Return(t), millis' = millis
    PROVE  /\ call' \in [Task -> Call \cup {NoCall}]
           /\ \A u \in Task : call'[u] # NoCall => u # t /\ call'[u] = call[u]
           /\ \A u \in Task : call'[u] # NoCall => Tells(call[u].now, call[u].lag)'
<1>1. call' = [call EXCEPT ![t] = NoCall]
    BY DEF Return
<1>2. call' \in [Task -> Call \cup {NoCall}]
    BY <1>1 DEF ClockInv, TypeOK
<1>3. ASSUME NEW u \in Task, call'[u] # NoCall PROVE u # t /\ call'[u] = call[u]
    BY <1>1, <1>3 DEF ClockInv, TypeOK
<1>4. ASSUME NEW u \in Task, call'[u] # NoCall PROVE Tells(call[u].now, call[u].lag)'
    BY <1>3, <1>4 DEF ClockInv, Stamped, Tells, Elapsed
<1> QED
    BY <1>2, <1>3, <1>4

(* The operation of a call under way.                                      *)
LEMMA CallOf ==
    ASSUME ClockInv, NEW t \in Task, call[t] # NoCall
    PROVE  /\ call[t] \in Call /\ call[t].op \in Op
           /\ call[t].now \in Ms /\ call[t].lag \in Since
           /\ Tells(call[t].now, call[t].lag)
    BY DEF ClockInv, TypeOK, Stamped, Call

(* A client shows activity: it is stamped with the time that was read.     *)
LEMMA ShowsKeeps ==
    ASSUME ClockInv, NEW t \in Task, call[t] # NoCall, millis' = millis,
           NEW c \in Known, NEW a \in Activity, Shows(t, c, a)
    PROVE  /\ clients' \in [Client -> ClientRecord \cup {Unused}]
           /\ quiet' \in [Client -> Since]
           /\ Known' = Known
           /\ \A d \in Known : Tells(clients[d].last, quiet[d])'
<1>1. /\ clients' = [clients EXCEPT ![c].activity = a, ![c].last = call[t].now]
      /\ quiet' = [quiet EXCEPT ![c] = call[t].lag]
    BY DEF Shows
<1>2. call[t].now \in Ms /\ call[t].lag \in Since /\ Tells(call[t].now, call[t].lag)
    BY CallOf
<1>3. c \in Client /\ clients[c] \in ClientRecord
    BY DEF ClockInv, TypeOK, Known
<1>4. /\ clients'[c] = [clients[c] EXCEPT !.activity = a, !.last = call[t].now]
      /\ quiet'[c] = call[t].lag
      /\ \A d \in Client \ {c} : clients'[d] = clients[d] /\ quiet'[d] = quiet[d]
    BY <1>1, <1>3 DEF ClockInv, TypeOK
<1>5. clients'[c] \in ClientRecord /\ clients'[c].last = call[t].now
    BY <1>2, <1>3, <1>4 DEF ClientRecord
<1>6. clients' \in [Client -> ClientRecord \cup {Unused}]
  <2>1. \A d \in Client : clients'[d] \in ClientRecord \cup {Unused}
      BY <1>4, <1>5 DEF ClockInv, TypeOK
  <2>2. clients' = [d \in Client |-> clients'[d]]
      BY <1>1 DEF ClockInv, TypeOK
  <2> QED
      BY <2>1, <2>2
<1>7. quiet' \in [Client -> Since]
    BY <1>1, <1>2 DEF ClockInv, TypeOK
<1>8. Known' = Known
    BY <1>3, <1>4, <1>5, ClockConstants DEF Known
<1>9. ASSUME NEW d \in Known PROVE Tells(clients[d].last, quiet[d])'
  <2>1. CASE d = c
      BY <1>2, <1>4, <1>5, <2>1 DEF Tells, Elapsed
  <2>2. CASE d # c
      BY <1>4, <1>9, <2>2 DEF ClockInv, Stamped, Known, Tells, Elapsed
  <2> QED
      BY <2>1, <2>2
<1> QED
    BY <1>6, <1>7, <1>8, <1>9

(* A lease is used: it is stamped with the time that was read.             *)
LEMMA UsesKeeps ==
    ASSUME ClockInv, NEW t \in Task, call[t] # NoCall, millis' = millis,
           NEW l \in Lease, NEW c \in Known, Uses(t, l, c)
    PROVE  /\ leases' \in [Lease -> LeaseRecord \cup {Unused}]
           /\ unused' \in [Lease -> Since]
           /\ \A r \in Lease : leases'[r] = Unused => leases[r] = Unused
           /\ \A r \in Leased' : leases'[r].client \in Known
           /\ \A r \in Leased' : Tells(leases[r].last, unused[r])'
<1>1. /\ leases' = [leases EXCEPT ![l] = [client |-> c, last |-> call[t].now]]
      /\ unused' = [unused EXCEPT ![l] = call[t].lag]
    BY DEF Uses
<1>2. call[t].now \in Ms /\ call[t].lag \in Since /\ Tells(call[t].now, call[t].lag)
    BY CallOf
<1>3. /\ leases'[l] = [client |-> c, last |-> call[t].now] /\ unused'[l] = call[t].lag
      /\ \A r \in Lease \ {l} : leases'[r] = leases[r] /\ unused'[r] = unused[r]
    BY <1>1 DEF ClockInv, TypeOK
<1>4. leases'[l] \in LeaseRecord /\ leases'[l] # Unused
  <2>1. c \in Client
      BY DEF Known
  <2>2. leases'[l] \in LeaseRecord
      BY <1>2, <1>3, <2>1 DEF LeaseRecord
  <2> QED
      BY <2>2, ClockConstants
<1>5. leases' \in [Lease -> LeaseRecord \cup {Unused}]
  <2>1. \A r \in Lease : leases'[r] \in LeaseRecord \cup {Unused}
      BY <1>3, <1>4 DEF ClockInv, TypeOK
  <2>2. leases' = [r \in Lease |-> leases'[r]]
      BY <1>1 DEF ClockInv, TypeOK
  <2> QED
      BY <2>1, <2>2
<1>6. unused' \in [Lease -> Since]
    BY <1>1, <1>2 DEF ClockInv, TypeOK
<1>7. \A r \in Lease : leases'[r] = Unused => leases[r] = Unused
    BY <1>3, <1>4
<1>8. ASSUME NEW r \in Leased'
      PROVE  leases'[r].client \in Known /\ Tells(leases[r].last, unused[r])'
  <2>1. CASE r = l
      BY <1>2, <1>3, <2>1 DEF Tells, Elapsed
  <2>2. CASE r # l
    <3>1. r \in Lease /\ leases'[r] = leases[r] /\ unused'[r] = unused[r]
        BY <1>3, <1>8, <2>2 DEF Leased
    <3>2. r \in Leased
        BY <1>8, <3>1 DEF Leased
    <3> QED
        BY <3>1, <3>2 DEF ClockInv, Stamped, Owned, Tells, Elapsed
  <2> QED
      BY <2>1, <2>2
<1> QED
    BY <1>5, <1>6, <1>7, <1>8

(* The critical sections of the four calls that mark something used.       *)
LEMMA MarksKeep ==
    ASSUME ClockInv, NEW t \in Task, Quick, Return(t),
           clients' \in [Client -> ClientRecord \cup {Unused}],
           quiet' \in [Client -> Since],
           leases' \in [Lease -> LeaseRecord \cup {Unused}],
           unused' \in [Lease -> Since],
           \A c \in Known' : Tells(clients[c].last, quiet[c])',
           \A l \in Leased' : Tells(leases[l].last, unused[l])',
           Owned'
    PROVE  ClockInv'
<1>1. millis' = millis /\ last_service' = last_service /\ unserved' = unserved
    BY DEF Quick
<1>2. /\ call' \in [Task -> Call \cup {NoCall}]
      /\ \A u \in Task : call'[u] # NoCall => Tells(call[u].now, call[u].lag)'
    BY <1>1, ReturnKeeps
<1>3. TypeOK'
    BY <1>1, <1>2 DEF ClockInv, TypeOK
<1>4. Stamped'
    BY <1>2 DEF Stamped
<1> QED
    BY <1>3, <1>4 DEF ClockInv

(* What a step that touches no client, or no lease, keeps.                 *)
LEMMA SameClients ==
    ASSUME ClockInv, millis' = millis, UNCHANGED <<clients, quiet>>
    PROVE  /\ clients' \in [Client -> ClientRecord \cup {Unused}]
           /\ quiet' \in [Client -> Since] /\ Known' = Known
           /\ \A c \in Known : Tells(clients[c].last, quiet[c])'
<1>1. Known' = Known
    BY DEF Known
<1>2. \A c \in Known : Tells(clients[c].last, quiet[c])'
    BY DEF ClockInv, Stamped, Tells, Elapsed
<1> QED
    BY <1>1, <1>2 DEF ClockInv, TypeOK

(* What a step that touches no lease keeps.                                *)
LEMMA SameLeases ==
    ASSUME ClockInv, millis' = millis, UNCHANGED <<leases, unused>>, Known \subseteq Known'
    PROVE  /\ leases' \in [Lease -> LeaseRecord \cup {Unused}]
           /\ unused' \in [Lease -> Since] /\ Owned'
           /\ \A l \in Leased' : Tells(leases[l].last, unused[l])'
<1>1. Leased' = Leased
    BY DEF Leased
<1>2. Owned'
    BY <1>1 DEF ClockInv, Owned
<1>3. \A l \in Leased' : Tells(leases[l].last, unused[l])'
    BY <1>1 DEF ClockInv, Stamped, Tells, Elapsed
<1> QED
    BY <1>2, <1>3 DEF ClockInv, TypeOK

(* What a call's operation is made of.                                     *)
LEMMA Operands ==
    ASSUME ClockInv, NEW t \in Task
    PROVE  /\ In(t, "registerClient") =>
                call[t].op.client \in Client /\ call[t].op.config \in Configs
           /\ In(t, "setActivity") =>
                call[t].op.client \in Client /\ call[t].op.activity \in Activity
           /\ In(t, "request") => call[t].op.client \in Client /\ call[t].op.lease \in Lease
           /\ In(t, "touch") => call[t].op.lease \in Lease
<1>1. ASSUME call[t] # NoCall PROVE call[t].op \in Op
    BY <1>1, CallOf
<1>2. Activities \subseteq Activity
    BY ClockConstants
<1>3. In(t, "registerClient") =>
        call[t].op.client \in Client /\ call[t].op.config \in Configs
    BY <1>1 DEF In, Op
<1>4. In(t, "setActivity") =>
        call[t].op.client \in Client /\ call[t].op.activity \in Activity
    BY <1>1, <1>2 DEF In, Op
<1>5. In(t, "request") => call[t].op.client \in Client /\ call[t].op.lease \in Lease
    BY <1>1 DEF In, Op
<1>6. In(t, "touch") => call[t].op.lease \in Lease
    BY <1>1 DEF In, Op
<1> QED
    BY <1>3, <1>4, <1>5, <1>6

(* The record a registration writes.                                       *)
LEMMA NewClient ==
    ASSUME NEW cfg \in Configs, NEW x \in Ms
    PROVE  [activity |-> Idle, background |-> cfg[1],
            idle |-> Max({cfg[1], cfg[2]}), last |-> x] \in ClientRecord
<1>1. cfg[1] \in Ms /\ cfg[2] \in Ms
    BY ClockConstants
<1>2. cfg[1] \in Int /\ cfg[2] \in Int
    BY <1>1, Width DEF Ms
<1>3. Max({cfg[1], cfg[2]}) = IF cfg[1] >= cfg[2] THEN cfg[1] ELSE cfg[2]
    BY <1>2, MaxOf
<1>4. Max({cfg[1], cfg[2]}) \in Ms
    BY <1>1, <1>3
<1> QED
    BY <1>1, <1>4 DEF ClientRecord, Activity, Idle, Burst

(* A client is registered.                                                 *)
LEMMA RegisterKeeps ==
    ASSUME ClockInv, NEW t \in Task, registerClient(t)
    PROVE  ClockInv'
<1> DEFINE c == call[t].op.client
           cfg == call[t].op.config
           r == [activity |-> Idle, background |-> cfg[1],
                 idle |-> Max({cfg[1], cfg[2]}), last |-> call[t].now]
<1>1. /\ In(t, "registerClient") /\ Return(t) /\ Quick /\ UNCHANGED <<leases, unused>>
      /\ call[t] # NoCall /\ millis' = millis
    BY DEF registerClient, In, Quick
<1>2. /\ c \in Known => UNCHANGED <<clients, quiet>>
      /\ c \notin Known => /\ clients' = [clients EXCEPT ![c] = r]
                          /\ quiet' = [quiet EXCEPT ![c] = call[t].lag]
    BY DEF registerClient
<1>3. CASE c \in Known
  <2>1. UNCHANGED <<clients, quiet>>
      BY <1>2, <1>3
  <2> QED
      BY <1>1, <2>1, SameClients, SameLeases, MarksKeep
<1>4. CASE c \notin Known
  <2>1. c \in Client /\ cfg \in Configs
      BY <1>1, Operands
  <2>2. call[t].now \in Ms /\ call[t].lag \in Since /\ Tells(call[t].now, call[t].lag)
      BY <1>1, CallOf
  <2>3. r \in ClientRecord /\ r # Unused /\ r.last = call[t].now
      BY <2>1, <2>2, NewClient, ClockConstants
  <2> HIDE DEF r
  <2>4. clients' = [clients EXCEPT ![c] = r] /\ quiet' = [quiet EXCEPT ![c] = call[t].lag]
      BY <1>2, <1>4
  <2>5. /\ clients'[c] = r /\ quiet'[c] = call[t].lag
        /\ \A d \in Client \ {c} : clients'[d] = clients[d] /\ quiet'[d] = quiet[d]
      BY <2>1, <2>4 DEF ClockInv, TypeOK
  <2>6. /\ clients' \in [Client -> ClientRecord \cup {Unused}]
        /\ quiet' \in [Client -> Since]
      BY <2>2, <2>3, <2>4 DEF ClockInv, TypeOK
  <2>7. Known \subseteq Known'
      BY <2>3, <2>5 DEF Known
  <2>8. ASSUME NEW d \in Known' PROVE Tells(clients[d].last, quiet[d])'
    <3>1. CASE d = c
        BY <1>1, <2>2, <2>3, <2>5, <3>1 DEF Tells, Elapsed
    <3>2. CASE d # c
      <4>1. d \in Client /\ clients'[d] = clients[d] /\ quiet'[d] = quiet[d]
          BY <2>5, <2>8, <3>2 DEF Known
      <4>2. d \in Known
          BY <2>8, <4>1 DEF Known
      <4> QED
          BY <1>1, <4>1, <4>2 DEF ClockInv, Stamped, Tells, Elapsed
    <3> QED
        BY <3>1, <3>2
  <2> QED
      BY <1>1, <2>6, <2>7, <2>8, SameLeases, MarksKeep
<1> QED
    BY <1>3, <1>4

(* An activity is set.                                                     *)
LEMMA SetActivityKeeps ==
    ASSUME ClockInv, NEW t \in Task, setActivity(t)
    PROVE  ClockInv'
<1> DEFINE o == call[t].op
<1>1. /\ In(t, "setActivity") /\ Return(t) /\ Quick /\ UNCHANGED <<leases, unused>>
      /\ call[t] # NoCall /\ millis' = millis
      /\ o.client \in Known => Shows(t, o.client, o.activity)
      /\ o.client \notin Known => UNCHANGED <<clients, quiet>>
    BY DEF setActivity, In, Quick
<1>2. o.activity \in Activity
    BY <1>1, Operands
<1>3. CASE o.client \in Known
    BY <1>1, <1>2, <1>3, ShowsKeeps, SameLeases, MarksKeep
<1>4. CASE o.client \notin Known
    BY <1>1, <1>4, SameClients, SameLeases, MarksKeep
<1> QED
    BY <1>3, <1>4

(* A lease is used, and its client with it.                                *)
LEMMA UseKeeps ==
    ASSUME ClockInv, NEW t \in Task, call[t] # NoCall, Return(t), Quick,
           NEW l \in Lease, NEW c \in Known, Shows(t, c, Active), Uses(t, l, c)
    PROVE  ClockInv'
<1>1. millis' = millis /\ Active \in Activity
    BY DEF Quick, Active, Activity, Idle, Burst
<1>2. /\ clients' \in [Client -> ClientRecord \cup {Unused}]
      /\ quiet' \in [Client -> Since] /\ Known' = Known
      /\ \A d \in Known : Tells(clients[d].last, quiet[d])'
    BY <1>1, ShowsKeeps
<1>3. /\ leases' \in [Lease -> LeaseRecord \cup {Unused}]
      /\ unused' \in [Lease -> Since]
      /\ \A r \in Leased' : leases'[r].client \in Known
      /\ \A r \in Leased' : Tells(leases[r].last, unused[r])'
    BY <1>1, UsesKeeps
<1>4. Owned'
    BY <1>2, <1>3 DEF Owned
<1> QED
    BY <1>2, <1>3, <1>4, MarksKeep

(* request() and touch().                                                  *)
LEMMA RequestKeeps ==
    ASSUME ClockInv, NEW t \in Task, request(t) \/ touch(t)
    PROVE  ClockInv'
<1>1. Return(t) /\ Quick /\ call[t] # NoCall /\ millis' = millis
    BY DEF request, touch, In, Quick
<1>2. CASE UNCHANGED <<clients, quiet, leases, unused>>
  <2>1. UNCHANGED <<clients, quiet>> /\ UNCHANGED <<leases, unused>>
      BY <1>2
  <2> QED
      BY <1>1, <2>1, SameClients, SameLeases, MarksKeep
<1>3. ASSUME ~UNCHANGED <<clients, quiet, leases, unused>>
      PROVE  \E l \in Lease, c \in Known : Shows(t, c, Active) /\ Uses(t, l, c)
  <2>1. CASE request(t)
    <3>1. In(t, "request") /\ call[t].op.client \in Known
          /\ Shows(t, call[t].op.client, Active)
          /\ Uses(t, call[t].op.lease, call[t].op.client)
        BY <1>3, <2>1 DEF request
    <3> QED
        BY <3>1, Operands
  <2>2. CASE touch(t)
    <3> DEFINE l == call[t].op.lease
    <3>1. In(t, "touch") /\ l \in Leased /\ Shows(t, leases[l].client, Active)
          /\ Uses(t, l, leases[l].client)
        BY <1>3, <2>2 DEF touch
    <3>2. leases[l].client \in Known /\ l \in Lease
        BY <3>1 DEF ClockInv, Owned, Leased
    <3> QED
        BY <3>1, <3>2
  <2> QED
      BY <2>1, <2>2
<1>4. CASE ~UNCHANGED <<clients, quiet, leases, unused>>
    BY <1>1, <1>3, <1>4, UseKeeps
<1> QED
    BY <1>2, <1>4

(* A refresh changes activities, and nothing else of a client.             *)
LEMMA RefreshOnlyDecays ==
    ASSUME ClockInv, NEW now \in Ms, refreshActivities(now)
    PROVE  /\ clients' \in [Client -> ClientRecord \cup {Unused}] /\ Known' = Known
           /\ \A c \in Known :
                /\ clients'[c].activity = Decayed(clients[c], (now - clients[c].last) % W)
                /\ clients'[c].last = clients[c].last
                /\ clients'[c].idle = clients[c].idle
                /\ clients'[c].background = clients[c].background
<1>1. ASSUME NEW r \in ClientRecord, NEW age \in Nat
      PROVE  /\ Decayed(r, age) \in Activity
             /\ [r EXCEPT !.activity = Decayed(r, age)] \in ClientRecord
  <2>1. Decayed(r, age) \in Activity
      BY DEF Decayed, ClientRecord, Activity, Idle, Background, Active, Burst
  <2> QED
      BY <2>1 DEF ClientRecord
<1>2. \A c \in Known : clients[c] \in ClientRecord /\ c \in Client
    BY DEF ClockInv, TypeOK, Known
<1>3. \A c \in Known : (now - clients[c].last) % W \in Nat
  <2> SUFFICES ASSUME NEW c \in Known PROVE (now - clients[c].last) % W \in Nat
      OBVIOUS
  <2>1. clients[c].last \in Ms
      BY <1>2 DEF ClientRecord
  <2> QED
      BY <2>1, Difference, Width DEF Ms
<1>4. ASSUME NEW c \in Known
      PROVE  /\ clients'[c] = [clients[c] EXCEPT !.activity =
                    Decayed(clients[c], (now - clients[c].last) % W)]
             /\ clients'[c] \in ClientRecord
  <2>1. clients'[c] = [clients[c] EXCEPT !.activity =
                    Decayed(clients[c], (now - clients[c].last) % W)]
      BY <1>2 DEF refreshActivities
  <2> QED
      BY <1>1, <1>2, <1>3, <2>1
<1>5. \A c \in Client \ Known : clients'[c] = Unused
    BY DEF refreshActivities
<1>6. clients' \in [Client -> ClientRecord \cup {Unused}]
  <2>1. \A c \in Client : clients'[c] \in ClientRecord \cup {Unused}
      BY <1>4, <1>5
  <2>2. clients' = [c \in Client |-> clients'[c]]
      BY DEF refreshActivities
  <2> QED
      BY <2>1, <2>2
<1>7. Known' = Known
    BY <1>2, <1>4, <1>5, ClockConstants DEF Known
<1>8. ASSUME NEW c \in Known
      PROVE  /\ clients'[c].activity = Decayed(clients[c], (now - clients[c].last) % W)
             /\ clients'[c].last = clients[c].last
             /\ clients'[c].idle = clients[c].idle
             /\ clients'[c].background = clients[c].background
    BY <1>2, <1>4 DEF ClientRecord
<1> QED
    BY <1>6, <1>7, <1>8

(* service() and reclaimFor() refresh, and stamp nothing.                  *)
LEMMA RefreshKeeps ==
    ASSUME ClockInv, NEW now \in Ms, refreshActivities(now),
           UNCHANGED <<millis, leases, last_service, quiet, unused>>,
           call' \in [Task -> Call \cup {NoCall}],
           \A u \in Task : call'[u] # NoCall => Tells(call[u].now, call[u].lag)',
           unserved' \in 0 .. GAP
    PROVE  ClockInv'
<1>1. /\ clients' \in [Client -> ClientRecord \cup {Unused}] /\ Known' = Known
      /\ \A c \in Known : clients'[c].last = clients[c].last
    BY RefreshOnlyDecays
<1>2. TypeOK'
    BY <1>1 DEF ClockInv, TypeOK
<1>3. /\ Owned' /\ \A l \in Leased' : Tells(leases[l].last, unused[l])'
    BY <1>1, SameLeases
<1>4. \A c \in Known' : Tells(clients[c].last, quiet[c])'
    BY <1>1 DEF ClockInv, Stamped, Tells, Elapsed
<1>5. Stamped'
    BY <1>3, <1>4 DEF Stamped
<1> QED
    BY <1>2, <1>3, <1>5 DEF ClockInv

(* service() with the time it has read.                                    *)
LEMMA ServiceKeeps ==
    ASSUME ClockInv, NEW t \in Task, service(t)
    PROVE  ClockInv'
<1>1. /\ call[t] # NoCall /\ refreshActivities(call[t].now) /\ Return(t) /\ unserved' = 0
      /\ UNCHANGED <<millis, leases, last_service, quiet, unused>>
    BY DEF service, In
<1>2. call[t].now \in Ms /\ unserved' \in 0 .. GAP
    BY <1>1, CallOf, Width
<1>3. /\ call' \in [Task -> Call \cup {NoCall}]
      /\ \A u \in Task : call'[u] # NoCall => Tells(call[u].now, call[u].lag)'
    BY <1>1, ReturnKeeps
<1> QED
    BY <1>1, <1>2, <1>3, RefreshKeeps

(* reclaimFor() with the time as it is.                                    *)
LEMMA ReclaimKeeps ==
    ASSUME ClockInv, NEW t \in Task, reclaimFor(t)
    PROVE  ClockInv'
<1>1. /\ refreshActivities(millis) /\ call' = call /\ unserved' = unserved
      /\ UNCHANGED <<millis, leases, last_service, quiet, unused>>
    BY DEF reclaimFor, Quick
<1>2. millis \in Ms /\ unserved' \in 0 .. GAP /\ call' \in [Task -> Call \cup {NoCall}]
    BY <1>1 DEF ClockInv, TypeOK
<1>3. \A u \in Task : call'[u] # NoCall => Tells(call[u].now, call[u].lag)'
    BY <1>1 DEF ClockInv, Stamped, Tells, Elapsed
<1> QED
    BY <1>1, <1>2, <1>3, RefreshKeeps

(* A lease is reclaimed.                                                   *)
LEMMA ReclaimElasticKeeps ==
    ASSUME ClockInv, NEW t \in Task, reclaimElastic(t)
    PROVE  ClockInv'
<1>1. PICK l \in Lease : /\ leases' = [leases EXCEPT ![l] = Unused]
                         /\ unused' = [unused EXCEPT ![l] = 0]
    BY DEF reclaimElastic
<1>2. UNCHANGED <<clients, call, quiet, millis, last_service, unserved>>
    BY DEF reclaimElastic, Quick
<1>3. 0 \in Since
    BY Width DEF Since
<1>4. /\ leases' \in [Lease -> LeaseRecord \cup {Unused}] /\ unused' \in [Lease -> Since]
      /\ \A r \in Lease : IF r = l THEN leases'[r] = Unused
                          ELSE leases'[r] = leases[r] /\ unused'[r] = unused[r]
    BY <1>1, <1>3 DEF ClockInv, TypeOK
<1>5. \A r \in Leased' : r \in Leased /\ leases'[r] = leases[r] /\ unused'[r] = unused[r]
    BY <1>4 DEF Leased
<1>6. Known' = Known
    BY <1>2 DEF Known
<1>7. TypeOK'
    BY <1>2, <1>4 DEF ClockInv, TypeOK
<1>8. Stamped'
    BY <1>2, <1>5, <1>6 DEF ClockInv, Stamped, Tells, Elapsed
<1>9. Owned'
    BY <1>5, <1>6 DEF ClockInv, Owned
<1> QED
    BY <1>7, <1>8, <1>9 DEF ClockInv

(* A step that changes nothing.                                            *)
LEMMA StutterKeeps ==
    ASSUME ClockInv, UNCHANGED vars
    PROVE  ClockInv'
<1>1. Known' = Known /\ Leased' = Leased
    BY DEF vars, Known, Leased
<1> QED
    BY <1>1 DEF vars, ClockInv, TypeOK, Stamped, Owned, Tells, Elapsed

(* A service() pass begins.                                                *)
LEMMA BeginServiceKeeps ==
    ASSUME ClockInv, NEW t \in Task, BeginService(t)
    PROVE  ClockInv'
<1>1. [op |-> "service"] \in Op /\ last_service' \in Ms
    BY DEF BeginService, Op, ClockInv, TypeOK
<1> QED
    BY <1>1, ReadKeeps DEF BeginService

(* Another call begins.                                                    *)
LEMMA BeginKeeps ==
    ASSUME ClockInv, NEW t \in Task, Begin(t)
    PROVE  ClockInv'
<1>1. last_service' \in Ms
    BY DEF Begin, ClockInv, TypeOK
<1> QED
    BY <1>1, ReadKeeps DEF Begin

(* Every step keeps the invariant.                                         *)
LEMMA StepKeeps ==
    ASSUME ClockInv, [Next]_vars
    PROVE  ClockInv'
<1>1. ASSUME NEW t \in Task, Finish(t) PROVE ClockInv'
    BY <1>1, RegisterKeeps, SetActivityKeeps, RequestKeeps, ServiceKeeps, Zenon DEF Finish
<1> QED
    BY <1>1, TickKeeps, BeginKeeps, BeginServiceKeeps, ReclaimKeeps, ReclaimElasticKeeps,
       StutterKeeps, Zenon DEF Next

(* The invariant holds at the start.                                       *)
LEMMA ClockStarts ==
    ASSUME Init
    PROVE  ClockInv
<1>1. Known = {} /\ Leased = {}
    BY DEF Init, Known, Leased
<1>2. 0 \in Since /\ 0 \in 0 .. GAP
    BY Width DEF Since
<1>3. TypeOK
    BY <1>2 DEF Init, TypeOK
<1>4. Stamped
    BY <1>1 DEF Init, Stamped
<1> QED
    BY <1>1, <1>3, <1>4 DEF ClockInv, Owned

(* The stamps tell the true time, in every reachable state.                *)
THEOREM StampsAreTrue == Spec => []ClockInv
<1>1. Init => ClockInv
    BY ClockStarts
<1>2. ClockInv /\ [Next]_vars => ClockInv'
    BY StepKeeps
<1> QED
    BY <1>1, <1>2, PTL DEF Spec

-----------------------------------------------------------------------------
(* The oldest lease goes first, whatever tasks interleave *)

(* A lease goes only where reclaimElastic takes it, and then any other     *)
(* that would have done was a candidate too.                               *)
LEMMA OnlyReclaimTakes ==
    ASSUME ClockInv, Next, NEW l \in Leased, leases'[l] = Unused
    PROVE  \A r \in Leased : InPlaceOf(r, l) => leases[l].last <= leases[r].last
<1>1. leases[l] # Unused /\ l \in Lease /\ leases'[l] # leases[l]
    BY DEF Leased
<1>2. ASSUME Tick PROVE FALSE
    BY <1>1, <1>2 DEF Tick
<1>3. ASSUME NEW t \in Task,
             Begin(t) \/ BeginService(t) \/ reclaimFor(t) \/ registerClient(t)
                \/ setActivity(t) \/ service(t)
      PROVE  FALSE
    BY <1>1, <1>3 DEF Begin, BeginService, Read, reclaimFor, registerClient, setActivity, service
<1>4. ASSUME NEW t \in Task, request(t) PROVE FALSE
  <2> DEFINE o == call[t].op
  <2>1. In(t, "request") /\ o.lease \in Lease /\ call[t] # NoCall
      BY <1>4, Operands DEF request, In
  <2>2. o.client \in Known /\ Uses(t, o.lease, o.client) /\ UNCHANGED millis
      BY <1>1, <1>4 DEF request, Quick
  <2> QED
      BY <1>1, <2>1, <2>2, UsesKeeps
<1>5. ASSUME NEW t \in Task, touch(t) PROVE FALSE
  <2> DEFINE m == call[t].op.lease
  <2>1. call[t] # NoCall /\ UNCHANGED millis
      BY <1>5 DEF touch, In, Quick
  <2>2. m \in Leased /\ Uses(t, m, leases[m].client)
      BY <1>1, <1>5 DEF touch
  <2>3. m \in Lease /\ leases[m].client \in Known
      BY <2>2 DEF ClockInv, Owned, Leased
  <2> QED
      BY <1>1, <2>1, <2>2, <2>3, UsesKeeps
<1>6. ASSUME NEW t \in Task, reclaimElastic(t)
      PROVE  \A r \in Leased : InPlaceOf(r, l) => leases[l].last <= leases[r].last
  <2>1. PICK c \in Known, n \in Surpluses,
             g \in Region \cup {"Auto"}, m \in Lease :
             /\ findOldestElasticLease(m, Candidates(c, n, g))
             /\ leases' = [leases EXCEPT ![m] = Unused]
             /\ unused' = [unused EXCEPT ![m] = 0]
      BY <1>6, Zenon DEF reclaimElastic
  <2>2. m = l
      BY <1>1, <2>1 DEF ClockInv, TypeOK
  <2>3. l \in Candidates(c, n, g)
      BY <2>1, <2>2 DEF findOldestElasticLease
  <2>4. n \in Nat /\ BytesOf \in [Lease -> Nat]
      BY <2>1, ClockConstants DEF Surpluses
  <2>5. ASSUME NEW r \in Leased, InPlaceOf(r, l) PROVE r \in Candidates(c, n, g)
    <3>1. leases[r].client = c
        BY <2>3, <2>5 DEF Candidates, InPlaceOf
    <3>2. BytesOf[r] <= n
      <4>1. BytesOf[r] <= BytesOf[l] /\ BytesOf[l] <= n
          BY <2>3, <2>5 DEF Candidates, InPlaceOf
      <4>2. BytesOf[r] \in Nat /\ BytesOf[l] \in Nat
          BY <2>4, <2>5 DEF Leased
      <4> QED
          BY <2>4, <4>1, <4>2
    <3>3. regionCanSatisfy(RegionOf[r], g)
        BY <2>3, <2>5 DEF Candidates, InPlaceOf, regionCanSatisfy
    <3> QED
        BY <2>5, <3>1, <3>2, <3>3 DEF Candidates
  <2> QED
      BY <2>1, <2>2, <2>5 DEF findOldestElasticLease
<1> QED
    BY <1>2, <1>3, <1>4, <1>5, <1>6, Zenon DEF Next, Finish

(* A lease stamped no later has not been used for at least as long.        *)
LEMMA EarlierStamp ==
    ASSUME NEW x \in Ms, NEW y \in Ms, NEW n \in Since, NEW k \in Since, millis \in Ms,
           Tells(x, n), Tells(y, k), x <= y, k <= millis
    PROVE  k <= n
<1>1. /\ W \in Nat /\ W > 0 /\ n \in 0 .. W /\ k \in 0 .. W
      /\ x \in 0 .. W - 1 /\ y \in 0 .. W - 1 /\ millis \in 0 .. W - 1
    BY Width DEF Ms, Since
<1>2. Elapsed(x) = IF millis >= x THEN millis - x ELSE millis - x + W
    BY Difference DEF Elapsed
<1>3. Elapsed(y) = IF millis >= y THEN millis - y ELSE millis - y + W
    BY Difference DEF Elapsed
<1> QED
    BY <1>1, <1>2, <1>3 DEF Tells

(* findOldestElasticLease takes no lease while another that would have     *)
(* done in its place has gone unused for longer, among those used since    *)
(* the clock wrapped, whatever calls of other tasks stamp leases meanwhile *)
(* with times they have read before.                                       *)
THEOREM OldestGoesFirst == Spec => [][OldestElasticFirst]_vars
<1>1. ASSUME ClockInv, [Next]_vars PROVE [OldestElasticFirst]_vars
  <2>1. CASE UNCHANGED vars
      BY <2>1
  <2>2. CASE Next
    <3>1. SUFFICES ASSUME NEW l \in Leased, NEW r \in Leased, leases'[l] = Unused,
                          InPlaceOf(r, l), unused[r] <= millis
                   PROVE  unused[r] <= unused[l]
        BY DEF OldestElasticFirst
    <3>2. leases[l].last <= leases[r].last
        BY <1>1, <2>2, <3>1, OnlyReclaimTakes
    <3>3. /\ leases[l].last \in Ms /\ leases[r].last \in Ms /\ millis \in Ms
          /\ unused[l] \in Since /\ unused[r] \in Since
          /\ Tells(leases[l].last, unused[l]) /\ Tells(leases[r].last, unused[r])
        BY <1>1 DEF ClockInv, TypeOK, Stamped, Leased, LeaseRecord
    <3> QED
        BY <3>1, <3>2, <3>3, EarlierStamp
  <2> QED
      BY <1>1, <2>1, <2>2
<1> QED
    BY <1>1, StampsAreTrue, PTL DEF Spec

-----------------------------------------------------------------------------
(* One task alone: nobody is lowered early, and nobody stays up for long *)

Alone == \A t, u \in Task : t = u
(* A call has read the clock after everything that has happened.           *)
InOrder ==
    \A t \in Task : call[t] # NoCall =>
        call[t].lag <= unserved /\ \A c \in Known : call[t].lag <= quiet[c]
(* Who is not Idle has not been quiet for much longer than idleAfterMs.    *)
Due ==
    \A c \in Known :
        clients[c].idle # 0 /\ quiet[c] < W /\ clients[c].activity # Idle
            => quiet[c] < clients[c].idle + GAP + unserved
AloneInv == ClockInv /\ InOrder /\ Due

(* What an integer comparison needs to know of a client.                   *)
LEMMA ClientNumbers ==
    ASSUME ClockInv, NEW c \in Known
    PROVE  /\ clients[c] \in ClientRecord /\ clients[c].last \in Ms
           /\ clients[c].idle \in 0 .. W - 1 /\ clients[c].background \in 0 .. W - 1
           /\ clients[c].activity \in Activity /\ quiet[c] \in 0 .. W
           /\ unserved \in 0 .. GAP
    BY DEF ClockInv, TypeOK, Known, ClientRecord, Ms, Since

(* A client's age, as a call sees it that has read the clock since then.   *)
LEMMA AgeIs ==
    ASSUME NEW x \in Ms, NEW now \in Ms, NEW n \in Since, NEW k \in Since, millis \in Ms,
           Tells(x, n), Tells(now, k), k <= n, n < W
    PROVE  (now - x) % W = n - k
<1>1. /\ W \in Nat /\ W > 0 /\ n \in 0 .. W /\ k \in 0 .. W
      /\ x \in 0 .. W - 1 /\ now \in 0 .. W - 1 /\ millis \in 0 .. W - 1
    BY Width DEF Ms, Since
<1>2. Elapsed(x) = IF millis >= x THEN millis - x ELSE millis - x + W
    BY Difference DEF Elapsed
<1>3. Elapsed(now) = IF millis >= now THEN millis - now ELSE millis - now + W
    BY Difference DEF Elapsed
<1>4. (now - x) % W = IF now >= x THEN now - x ELSE now - x + W
    BY Difference
<1> QED
    BY <1>1, <1>2, <1>3, <1>4 DEF Tells

(* What a decay depends on.                                                *)
LEMMA DecayNeeds ==
    ASSUME NEW r \in ClientRecord, NEW age \in Nat
    PROVE  /\ Decayed(r, age) # Idle => r.idle = 0 \/ age < r.idle
           /\ Decayed(r, age) < r.activity =>
                /\ Decayed(r, age) = Idle => r.idle # 0 /\ age >= r.idle
                /\ Decayed(r, age) = Background => r.background # 0 /\ age >= r.background
                /\ Decayed(r, age) \notin {Idle, Background} => age >= BURST_MS
<1>1. /\ r.idle \in Int /\ r.background \in Int /\ r.activity \in 0 .. 3
      /\ BURST_MS \in Int
    BY Width DEF ClientRecord, Ms, Activity, Idle, Burst
<1> QED
    BY <1>1 DEF Decayed, Idle, Background, Active, Burst

(* A refresh at a time read by k before now, with k no more than any       *)
(* client has been quiet.                                                  *)
LEMMA RefreshInTurn ==
    ASSUME ClockInv, NEW now \in Ms, NEW k \in Since, Tells(now, k),
           \A c \in Known : k <= quiet[c], refreshActivities(now),
           NEW c \in Known
    PROVE  /\ quiet[c] < W /\ clients'[c].activity # Idle /\ clients[c].idle # 0
                => quiet[c] < clients[c].idle + k
           /\ Lowered(c) =>
                /\ clients'[c].activity = Idle => LongEnough(c, clients[c].idle)
                /\ clients'[c].activity = Background => LongEnough(c, clients[c].background)
                /\ clients'[c].activity \notin {Idle, Background} => LongEnough(c, BURST_MS)
<1> DEFINE r == clients[c]
           age == (now - r.last) % W
<1>1. /\ r \in ClientRecord /\ r.last \in Ms /\ r.idle \in 0 .. W - 1
      /\ r.background \in 0 .. W - 1 /\ quiet[c] \in 0 .. W /\ millis \in Ms
    BY ClientNumbers DEF ClockInv, TypeOK
<1>2. clients'[c].activity = Decayed(r, age)
    BY RefreshOnlyDecays
<1>3. age \in Nat
    BY <1>1, Difference, Width DEF Ms
<1>4. quiet[c] < W => age = quiet[c] - k
    BY <1>1, AgeIs DEF ClockInv, Stamped, Since
<1>5. /\ k \in 0 .. W /\ W \in Nat /\ BURST_MS \in 1 .. W - 1
    BY Width, ClockConstants DEF Since, Ms
<1>6. /\ Decayed(r, age) # Idle => r.idle = 0 \/ age < r.idle
      /\ Decayed(r, age) < r.activity =>
                /\ Decayed(r, age) = Idle => r.idle # 0 /\ age >= r.idle
                /\ Decayed(r, age) = Background => r.background # 0 /\ age >= r.background
                /\ Decayed(r, age) \notin {Idle, Background} => age >= BURST_MS
    BY <1>1, <1>3, DecayNeeds
<1> HIDE DEF age
<1>7. quiet[c] < W /\ clients'[c].activity # Idle /\ r.idle # 0 => quiet[c] < r.idle + k
    BY <1>1, <1>2, <1>3, <1>4, <1>5, <1>6
<1>8. \A after \in 0 .. W - 1 : after # 0 /\ age >= after => LongEnough(c, after)
    BY <1>1, <1>3, <1>4, <1>5 DEF LongEnough
<1>9. Lowered(c) => Decayed(r, age) < r.activity
    BY <1>2 DEF Lowered
<1> QED
    BY <1>1, <1>2, <1>5, <1>6, <1>7, <1>8, <1>9

(* The clock ticks.                                                        *)
LEMMA TickInTurn ==
    ASSUME AloneInv, Tick
    PROVE  InOrder' /\ Due'
<1>1. ClockInv /\ InOrder /\ Due /\ W \in Nat /\ GAP \in Nat
    BY Width DEF AloneInv
<1>2. /\ unserved' = unserved + 1 /\ clients' = clients
      /\ quiet' = [c \in Client |-> IF c \in Known THEN Older(quiet[c]) ELSE 0]
      /\ call' = [t \in Task |-> IF call[t] = NoCall THEN NoCall
                                 ELSE [call[t] EXCEPT !.lag = Older(@)]]
    BY DEF Tick
<1>3. Known' = Known /\ unserved \in 0 .. GAP
    BY <1>1, <1>2 DEF Known, ClockInv, TypeOK
<1>4. ASSUME NEW c \in Known
      PROVE  /\ quiet'[c] = IF quiet[c] + 1 <= W THEN quiet[c] + 1 ELSE W
             /\ quiet[c] \in 0 .. W
    BY <1>1, <1>2, OlderIs DEF Known, ClockInv, TypeOK, Since
<1>5. ASSUME NEW t \in Task, call'[t] # NoCall
      PROVE  call'[t].lag <= unserved' /\ \A c \in Known' : call'[t].lag <= quiet'[c]
  <2>1. call[t] # NoCall /\ call'[t] = [call[t] EXCEPT !.lag = Older(@)]
      BY <1>2, <1>5
  <2>2. call[t] \in Call /\ call[t].lag \in 0 .. W
      BY <1>1, <2>1, CallOf DEF Since
  <2>3. call'[t].lag = IF call[t].lag + 1 <= W THEN call[t].lag + 1 ELSE W
      BY <2>1, <2>2, OlderIs DEF Call, Since
  <2>4. call[t].lag <= unserved /\ \A c \in Known : call[t].lag <= quiet[c]
      BY <1>1, <2>1 DEF InOrder
  <2> QED
      BY <1>1, <1>2, <1>3, <1>4, <2>2, <2>3, <2>4
<1>6. ASSUME NEW c \in Known, clients[c].idle # 0, quiet'[c] < W, clients[c].activity # Idle
      PROVE  quiet'[c] < clients[c].idle + GAP + unserved'
  <2>1. clients[c].idle \in 0 .. W - 1
      BY <1>1, ClientNumbers
  <2>2. quiet[c] < W /\ quiet'[c] = quiet[c] + 1
      BY <1>1, <1>4, <1>6
  <2>3. quiet[c] < clients[c].idle + GAP + unserved
      BY <1>1, <1>6, <2>2 DEF Due
  <2> QED
      BY <1>1, <1>2, <1>3, <1>4, <2>1, <2>2, <2>3
<1>7. InOrder'
    BY <1>5 DEF InOrder
<1>8. Due'
    BY <1>2, <1>3, <1>6 DEF Due
<1> QED
    BY <1>7, <1>8

(* A call that reads the clock has seen everything.                        *)
LEMMA ReadInTurn ==
    ASSUME AloneInv, NEW t \in Task, NEW o \in Op, Read(t, o)
    PROVE  InOrder' /\ Due'
<1>1. /\ call' = [call EXCEPT ![t] = [op |-> o, now |-> millis, lag |-> 0]]
      /\ clients' = clients /\ quiet' = quiet /\ unserved' = unserved
    BY DEF Read
<1>2. Known' = Known
    BY <1>1 DEF Known
<1>3. ClockInv /\ InOrder /\ Due
    BY DEF AloneInv
<1>4. Due'
    BY <1>1, <1>2, <1>3 DEF Due
<1>5. ASSUME NEW u \in Task, call'[u] # NoCall
      PROVE  call'[u].lag <= unserved' /\ \A c \in Known' : call'[u].lag <= quiet'[c]
  <2>1. CASE u = t
    <3>1. call'[u].lag = 0
        BY <1>1, <1>3, <2>1 DEF ClockInv, TypeOK
    <3>2. unserved \in 0 .. GAP /\ \A c \in Known : quiet[c] \in 0 .. W
        BY <1>3 DEF ClockInv, TypeOK, Known, Since
    <3> QED
        BY <1>1, <1>2, <3>1, <3>2, Width
  <2>2. CASE u # t
    <3>1. call'[u] = call[u]
        BY <1>1, <1>3, <2>2 DEF ClockInv, TypeOK
    <3> QED
        BY <1>1, <1>2, <1>3, <1>5, <3>1 DEF InOrder
  <2> QED
      BY <2>1, <2>2
<1>6. InOrder'
    BY <1>5 DEF InOrder
<1> QED
    BY <1>4, <1>6

(* When the one task returns, no call is under way.                        *)
LEMMA ReturnsAlone ==
    ASSUME Alone, AloneInv, NEW t \in Task, Return(t)
    PROVE  InOrder'
<1>1. \A u \in Task : call'[u] = NoCall
    BY DEF Alone, AloneInv, ClockInv, TypeOK, Return
<1> QED
    BY <1>1 DEF InOrder

(* Each client is as it was, or has just been used.                        *)
LEMMA MarkedInTurn ==
    ASSUME AloneInv, unserved' = unserved,
           \A c \in Known' :
              \/ c \in Known /\ clients'[c] = clients[c] /\ quiet'[c] = quiet[c]
              \/ clients'[c].idle \in Nat /\ quiet'[c] \in Nat /\ quiet'[c] <= unserved
    PROVE  Due'
<1>1. ClockInv /\ Due
    BY DEF AloneInv
<1>2. GAP \in Nat /\ GAP > 0 /\ unserved \in 0 .. GAP
    BY <1>1, ClockConstants DEF ClockInv, TypeOK, Ms
<1>3. SUFFICES ASSUME NEW c \in Known', clients'[c].idle # 0, quiet'[c] < W,
                      clients'[c].activity # Idle
               PROVE  quiet'[c] < clients'[c].idle + GAP + unserved'
    BY DEF Due
<1>4. CASE c \in Known /\ clients'[c] = clients[c] /\ quiet'[c] = quiet[c]
    BY <1>1, <1>3, <1>4 DEF Due
<1>5. CASE clients'[c].idle \in Nat /\ quiet'[c] \in Nat /\ quiet'[c] <= unserved
    BY <1>2, <1>3, <1>5
<1> QED
    BY <1>3, <1>4, <1>5

(* Showing activity, as far as the one client goes.                        *)
LEMMA ShowsInTurn ==
    ASSUME AloneInv, NEW t \in Task, call[t] # NoCall, unserved' = unserved,
           millis' = millis, NEW c \in Known, NEW a \in Activity, Shows(t, c, a)
    PROVE  Due'
<1>1. ClockInv /\ InOrder
    BY DEF AloneInv
<1>2. /\ clients' = [clients EXCEPT ![c].activity = a, ![c].last = call[t].now]
      /\ quiet' = [quiet EXCEPT ![c] = call[t].lag]
    BY DEF Shows
<1>3. Known' = Known
    BY <1>1, ShowsKeeps
<1>4. c \in Client /\ clients[c] \in ClientRecord
    BY <1>1, ClientNumbers DEF Known
<1>5. call[t].lag \in Nat /\ call[t].lag <= unserved
    BY <1>1, CallOf DEF InOrder, Since
<1>6. clients'[c].idle \in Nat /\ quiet'[c] = call[t].lag
  <2>1. clients'[c].idle = clients[c].idle /\ quiet'[c] = call[t].lag
      BY <1>1, <1>2, <1>4 DEF ClockInv, TypeOK, ClientRecord
  <2> QED
      BY <1>1, <2>1, ClientNumbers
<1>7. \A d \in Known' \ {c} : clients'[d] = clients[d] /\ quiet'[d] = quiet[d] /\ d \in Known
    BY <1>1, <1>2, <1>3 DEF ClockInv, TypeOK, Known
<1> QED
    BY <1>5, <1>6, <1>7, MarkedInTurn

(* The calls that mark something used.                                     *)
LEMMA MarksInTurn ==
    ASSUME Alone, AloneInv, NEW t \in Task,
           registerClient(t) \/ setActivity(t) \/ request(t) \/ touch(t)
    PROVE  InOrder' /\ Due'
<1>1. /\ call[t] # NoCall /\ Return(t) /\ unserved' = unserved /\ millis' = millis
      /\ ClockInv /\ InOrder
    BY DEF registerClient, setActivity, request, touch, In, Quick, AloneInv
<1>2. InOrder'
    BY <1>1, ReturnsAlone
<1>3. CASE UNCHANGED <<clients, quiet>>
  <2>1. Known' = Known
      BY <1>3 DEF Known
  <2> QED
      BY <1>1, <1>2, <1>3, <2>1, MarkedInTurn
<1>4. ASSUME ~UNCHANGED <<clients, quiet>>, setActivity(t) PROVE Due'
  <2>1. In(t, "setActivity") /\ call[t].op.client \in Known
        /\ Shows(t, call[t].op.client, call[t].op.activity)
      BY <1>4 DEF setActivity
  <2> QED
      BY <1>1, <2>1, Operands, ShowsInTurn
<1>5. ASSUME ~UNCHANGED <<clients, quiet>>, request(t) \/ touch(t) PROVE Due'
  <2>1. \E c \in Known : Shows(t, c, Active)
    <3>1. CASE request(t)
        BY <1>5, <3>1 DEF request
    <3>2. CASE touch(t)
      <4>1. call[t].op.lease \in Leased /\ Shows(t, leases[call[t].op.lease].client, Active)
          BY <1>5, <3>2 DEF touch
      <4> QED
          BY <1>1, <4>1 DEF ClockInv, Owned
    <3> QED
        BY <1>5, <3>1, <3>2
  <2>2. Active \in Activity
      BY DEF Active, Activity, Idle, Burst
  <2> QED
      BY <1>1, <2>1, <2>2, ShowsInTurn
<1>6. ASSUME ~UNCHANGED <<clients, quiet>>, registerClient(t) PROVE Due'
  <2> DEFINE c == call[t].op.client
             cfg == call[t].op.config
             r == [activity |-> Idle, background |-> cfg[1],
                   idle |-> Max({cfg[1], cfg[2]}), last |-> call[t].now]
  <2>1. /\ In(t, "registerClient") /\ c \notin Known
        /\ clients' = [clients EXCEPT ![c] = r]
        /\ quiet' = [quiet EXCEPT ![c] = call[t].lag]
      BY <1>6 DEF registerClient
  <2>2. /\ c \in Client /\ cfg \in Configs /\ call[t].now \in Ms
        /\ call[t].lag \in Nat /\ call[t].lag <= unserved
      BY <1>1, <2>1, Operands, CallOf DEF InOrder, Since
  <2>3. r \in ClientRecord /\ r.idle \in Nat
    <3>1. r \in ClientRecord
        BY <2>2, NewClient
    <3> HIDE DEF r
    <3> QED
        BY <3>1, Width DEF ClientRecord, Ms
  <2> HIDE DEF r
  <2>4. clients'[c] = r /\ quiet'[c] = call[t].lag
      BY <1>1, <2>1, <2>2 DEF ClockInv, TypeOK
  <2>5. \A d \in Known' \ {c} : clients'[d] = clients[d] /\ quiet'[d] = quiet[d] /\ d \in Known
      BY <1>1, <2>1 DEF ClockInv, TypeOK, Known
  <2> QED
      BY <1>1, <2>2, <2>3, <2>4, <2>5, MarkedInTurn
<1> QED
    BY <1>2, <1>3, <1>4, <1>5, <1>6

(* service(): whoever is not Idle now has been quiet for less than its     *)
(* idleAfterMs when the call read the clock.                               *)
LEMMA ServiceInTurn ==
    ASSUME Alone, AloneInv, NEW t \in Task, service(t)
    PROVE  InOrder' /\ Due'
<1>1. /\ call[t] # NoCall /\ refreshActivities(call[t].now) /\ Return(t)
      /\ unserved' = 0 /\ quiet' = quiet /\ millis' = millis /\ ClockInv /\ InOrder
    BY DEF service, In, AloneInv
<1>2. /\ call[t].now \in Ms /\ call[t].lag \in Since /\ Tells(call[t].now, call[t].lag)
      /\ \A c \in Known : call[t].lag <= quiet[c]
      /\ call[t].lag <= unserved /\ unserved \in 0 .. GAP /\ GAP \in Nat
    BY <1>1, CallOf, Width DEF InOrder, ClockInv, TypeOK
<1>3. ASSUME NEW c \in Known', clients'[c].idle # 0, quiet'[c] < W, clients'[c].activity # Idle
      PROVE  quiet'[c] < clients'[c].idle + GAP + unserved'
  <2>1. c \in Known /\ clients'[c].idle = clients[c].idle
      BY <1>1, <1>2, <1>3, RefreshOnlyDecays
  <2>2. quiet[c] < clients[c].idle + call[t].lag
      BY <1>1, <1>2, <1>3, <2>1, RefreshInTurn
  <2>3. clients[c].idle \in 0 .. W - 1 /\ quiet[c] \in 0 .. W /\ call[t].lag \in 0 .. W
      BY <1>1, <1>2, <2>1, ClientNumbers DEF Since
  <2> QED
      BY <1>1, <1>2, <2>1, <2>2, <2>3, Width
<1>4. Due'
    BY <1>3 DEF Due
<1> QED
    BY <1>1, <1>4, ReturnsAlone

(* reclaimFor(): the same, with the clock read inside.                     *)
LEMMA ReclaimInTurn ==
    ASSUME AloneInv, NEW t \in Task, reclaimFor(t)
    PROVE  InOrder' /\ Due'
<1>1. /\ refreshActivities(millis) /\ call' = call /\ unserved' = unserved
      /\ quiet' = quiet /\ millis' = millis /\ ClockInv /\ InOrder
    BY DEF reclaimFor, Quick, AloneInv
<1>2. millis \in Ms /\ 0 \in Since /\ Tells(millis, 0) /\ GAP \in Nat /\ unserved \in 0 .. GAP
    BY <1>1, Difference, Width DEF ClockInv, TypeOK, Since, Ms, Tells, Elapsed
<1>3. \A c \in Known : 0 <= quiet[c]
    BY <1>1, ClientNumbers
<1>4. Known' = Known
    BY <1>1, <1>2, RefreshOnlyDecays
<1>5. ASSUME NEW c \in Known', clients'[c].idle # 0, quiet'[c] < W, clients'[c].activity # Idle
      PROVE  quiet'[c] < clients'[c].idle + GAP + unserved'
  <2>1. c \in Known /\ clients'[c].idle = clients[c].idle
      BY <1>1, <1>2, <1>5, RefreshOnlyDecays
  <2>2. quiet[c] < clients[c].idle + 0
      BY <1>1, <1>2, <1>3, <1>5, <2>1, RefreshInTurn
  <2>3. clients[c].idle \in 0 .. W - 1 /\ quiet[c] \in 0 .. W
      BY <1>1, <2>1, ClientNumbers
  <2> QED
      BY <1>1, <1>2, <2>1, <2>2, <2>3, Width
<1>6. Due'
    BY <1>5 DEF Due
<1>7. InOrder'
    BY <1>1, <1>4 DEF InOrder
<1> QED
    BY <1>6, <1>7

(* A step that touches no client, no call and no time.                     *)
LEMMA ElsewhereInTurn ==
    ASSUME AloneInv, UNCHANGED <<clients, quiet, call, unserved>>
    PROVE  InOrder' /\ Due'
<1>1. Known' = Known
    BY DEF Known
<1> QED
    BY <1>1 DEF AloneInv, InOrder, Due

(* Every step of one task keeps the invariant.                             *)
LEMMA AloneStep ==
    ASSUME Alone, AloneInv, [Next]_vars
    PROVE  AloneInv'
<1>1. ClockInv'
    BY StepKeeps DEF AloneInv
<1>2. ASSUME NEW t \in Task, Begin(t) \/ BeginService(t) PROVE InOrder' /\ Due'
  <2>1. [op |-> "service"] \in Op
      BY DEF Op
  <2> QED
      BY <1>2, <2>1, ReadInTurn DEF Begin, BeginService
<1>3. ASSUME NEW t \in Task, reclaimElastic(t) PROVE InOrder' /\ Due'
    BY <1>3, ElsewhereInTurn DEF reclaimElastic, Quick
<1>4. ASSUME UNCHANGED vars PROVE InOrder' /\ Due'
    BY <1>4, ElsewhereInTurn DEF vars
<1>5. ASSUME NEW t \in Task, Finish(t) PROVE InOrder' /\ Due'
    BY <1>5, MarksInTurn, ServiceInTurn, Zenon DEF Finish
<1>6. InOrder' /\ Due'
    BY <1>2, <1>3, <1>4, <1>5, TickInTurn, ReclaimInTurn, Zenon DEF Next
<1> QED
    BY <1>1, <1>6 DEF AloneInv

(* The invariant holds at the start.                                       *)
LEMMA AloneStarts ==
    ASSUME Init
    PROVE  AloneInv
<1>1. Known = {} /\ \A t \in Task : call[t] = NoCall
    BY DEF Init, Known
<1> QED
    BY <1>1, ClockStarts DEF AloneInv, InOrder, Due

(* With one task, as the broker is used when service() and the program     *)
(* share the loop, the invariant holds in every reachable state.           *)
THEOREM AloneInOrder ==
    ASSUME Alone
    PROVE  Spec => []AloneInv
<1>1. Init => AloneInv
    BY AloneStarts
<1>2. AloneInv /\ [Next]_vars => AloneInv'
    BY AloneStep
<1> QED
    BY <1>1, <1>2, PTL DEF Spec

(* With one task, a client that nobody has set or used for its idleAfterMs *)
(* and the time of two passes of service() is Idle.                        *)
THEOREM QuietBecomesIdle ==
    ASSUME Alone
    PROVE  Spec => []IdleWhenQuiet
<1>1. ASSUME AloneInv PROVE IdleWhenQuiet
  <2>1. ClockInv /\ Due /\ GAP \in Nat /\ W \in Nat
      BY <1>1, Width DEF AloneInv
  <2>2. ASSUME NEW c \in Known, clients[c].idle # 0,
               quiet[c] >= clients[c].idle + 2 * GAP, quiet[c] < W
        PROVE  clients[c].activity = Idle
    <3>1. /\ clients[c].idle \in 0 .. W - 1 /\ quiet[c] \in 0 .. W /\ unserved \in 0 .. GAP
        BY <2>1, ClientNumbers
    <3>2. clients[c].activity # Idle => quiet[c] < clients[c].idle + GAP + unserved
        BY <2>1, <2>2 DEF Due
    <3> QED
        BY <2>1, <2>2, <3>1, <3>2
  <2> QED
      BY <2>1, <2>2 DEF ClockInv, IdleWhenQuiet, IdleInTime
<1> QED
    BY <1>1, AloneInOrder, PTL

(* With one task, a refresh lowers nobody that has been quiet for less     *)
(* than it was registered with, and of the leases that would do the oldest *)
(* goes first.                                                             *)
THEOREM ProtectedUntilTheirTurn ==
    ASSUME Alone
    PROVE  Spec => NobodyBeforeItsTurn
<1>1. ASSUME NEW now \in Ms, NEW k \in Since, AloneInv, Tells(now, k),
             \A c \in Known : k <= quiet[c], refreshActivities(now)
      PROVE  NotDemotedEarly
  <2>1. ASSUME NEW c \in Known, Lowered(c)
        PROVE  CASE clients'[c].activity = Idle -> LongEnough(c, clients[c].idle)
                 [] clients'[c].activity = Background -> LongEnough(c, clients[c].background)
                 [] OTHER -> LongEnough(c, BURST_MS)
    <3>1. /\ clients'[c].activity = Idle => LongEnough(c, clients[c].idle)
          /\ clients'[c].activity = Background => LongEnough(c, clients[c].background)
          /\ clients'[c].activity \notin {Idle, Background} => LongEnough(c, BURST_MS)
        BY <1>1, <2>1, RefreshInTurn DEF AloneInv
    <3>2. Idle # Background
        BY DEF Idle, Background
    <3> QED
        BY <3>1, <3>2
  <2> QED
      BY <2>1 DEF NotDemotedEarly
<1>2. ASSUME AloneInv, [Next]_vars PROVE [NotDemotedEarly]_vars
  <2>1. ASSUME NEW t \in Task, service(t) PROVE NotDemotedEarly
    <3>1. call[t] # NoCall /\ refreshActivities(call[t].now) /\ ClockInv
        BY <1>2, <2>1 DEF service, In, AloneInv
    <3>2. /\ call[t].now \in Ms /\ call[t].lag \in Since /\ Tells(call[t].now, call[t].lag)
          /\ \A c \in Known : call[t].lag <= quiet[c]
        BY <1>2, <3>1, CallOf DEF AloneInv, InOrder
    <3> QED
        BY <1>1, <1>2, <3>1, <3>2
  <2>2. ASSUME NEW t \in Task, reclaimFor(t) PROVE NotDemotedEarly
    <3>1. refreshActivities(millis) /\ ClockInv
        BY <1>2, <2>2 DEF reclaimFor, AloneInv
    <3>2. millis \in Ms /\ 0 \in Since /\ Tells(millis, 0)
        BY <3>1, Difference, Width DEF ClockInv, TypeOK, Since, Ms, Tells, Elapsed
    <3>3. \A c \in Known : 0 <= quiet[c]
        BY <3>1, ClientNumbers
    <3> QED
        BY <1>1, <1>2, <3>1, <3>2, <3>3
  <2>3. Refreshes => NotDemotedEarly
      BY <2>1, <2>2 DEF Refreshes
  <2> QED
      BY <2>3 DEF NotDemotedEarly
<1>3. Spec => [][NotDemotedEarly]_vars
    BY <1>2, AloneInOrder, PTL DEF Spec
<1>4. [NotDemotedEarly]_vars /\ [OldestElasticFirst]_vars
        => [NotDemotedEarly /\ OldestElasticFirst]_vars
    OBVIOUS
<1> QED
    BY <1>3, <1>4, OldestGoesFirst, PTL DEF NobodyBeforeItsTurn
=============================================================================
