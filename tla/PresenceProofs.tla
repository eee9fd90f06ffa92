--------------------------- MODULE PresenceProofs ---------------------------
(***************************************************************************)
(* Proofs about socket_count and is_online for any number of sockets and   *)
(* restarts.  A disconnect may decrement before the handshake it cuts      *)
(* short has incremented; GREATEST then swallows the decrement.  The       *)
(* invariant therefore counts the sockets the row holds against those it   *)
(* still owes an increment.                                                *)
(***************************************************************************)
EXTENDS Presence, FiniteSetTheorems, TLAPS

\* Counted and not yet discounted; discounted and not yet counted.
Holds(record) == record.step \in {"online", "up"} /\ record.dec # "done"
Owes(record) == record.step = "increment" /\ record.dec = "done"

Held == {s \in Sockets : Holds(sockets[s])}
Owed == {s \in Sockets : Owes(sockets[s])}

\* A handshake that will still write is_online = true.
Rising(record) == record.step \in {"increment", "online"}

\* The updates of a disconnect belong to a closed socket with client.data.
Placed(record) ==
  /\ record.open => record.dec = "none" /\ record.off = "none"
  /\ record.dec # "none" => record.step \in {"increment", "online", "up"}

Covered ==
  /\ \A s \in Sockets : Placed(sockets[s])
  /\ device.count + Cardinality(Owed) >= Cardinality(Held)

Bright ==
  \/ device.online
  \/ Connected = {}
  \/ \E s \in Sockets : Rising(sockets[s])

-----------------------------------------------------------------------------
LEMMA SettleType ==
  ASSUME NEW record \in SocketRecord
  PROVE  /\ Settle(record) \in SocketRecord
         /\ Settle(record) \in {record, IdleSocket}
         /\ Rising(record) => Settle(record) = record
         /\ Settle(record).step = "up" => Settle(record) = record
BY DEF Settle, SocketRecord, IdleSocket, Steps, Statement, Rising

LEMMA SetSocketType ==
  ASSUME TypeOK, NEW s \in Sockets, NEW record \in SocketRecord,
         SetSocket(s, record)
  PROVE  /\ sockets' \in [Sockets -> SocketRecord]
         /\ sockets'[s] = Settle(record)
         /\ \A t \in Sockets \ {s} : sockets'[t] = sockets[t]
BY SettleType DEF SetSocket, TypeOK

\* What every step of a socket leaves in its slot, before settling.
LEMMA RecordTypes ==
  ASSUME TypeOK, NEW s \in Sockets
  PROVE  /\ IdleSocket \in SocketRecord
         /\ sockets[s] \in SocketRecord
         /\ \A step \in Steps : [sockets[s] EXCEPT !.step = step] \in SocketRecord
         /\ [sockets[s] EXCEPT !.dec = "done"] \in SocketRecord
         /\ [sockets[s] EXCEPT !.off = "done"] \in SocketRecord
         /\ [IdleSocket EXCEPT !.step = "lookup", !.open = TRUE] \in SocketRecord
         /\ Disconnected(sockets[s]) \in SocketRecord
         /\ [Disconnected(sockets[s]) EXCEPT !.step = "up"] \in SocketRecord
<1>1. IdleSocket \in SocketRecord /\ sockets[s] \in SocketRecord
  BY DEF IdleSocket, SocketRecord, Steps, Statement, TypeOK
<1>2. Disconnected(sockets[s]) \in SocketRecord
  BY <1>1 DEF Disconnected, SocketRecord, Statement
<1> QED
  BY <1>1, <1>2 DEF SocketRecord, Steps, Statement, IdleSocket

LEMMA RowValues ==
  ASSUME TypeOK
  PROVE  /\ device.online \in BOOLEAN /\ device.count \in Nat
         /\ device.age \in 0 .. OnlineTtl + 1 /\ OnlineTtl \in Nat
         /\ (IF device.count > 0 THEN device.count - 1 ELSE 0) \in Nat
         /\ (IF device.age > OnlineTtl THEN device.age ELSE device.age + 1)
               \in 0 .. OnlineTtl + 1
BY TtlAssumption DEF TypeOK, DeviceRecord

LEMMA RowTypes ==
  ASSUME TypeOK
  PROVE  /\ device.online \in BOOLEAN /\ device.count \in Nat
         /\ device.age \in 0 .. OnlineTtl + 1 /\ OnlineTtl \in Nat
         /\ \A row \in DeviceRecord : \A b \in BOOLEAN : \A n \in Nat :
              /\ Touch(row) \in DeviceRecord
              /\ [row EXCEPT !.online = b] \in DeviceRecord
              /\ [row EXCEPT !.count = n] \in DeviceRecord
              /\ [row EXCEPT !.online = b, !.count = n] \in DeviceRecord
         /\ \A row \in DeviceRecord : \A a \in 0 .. OnlineTtl + 1 :
              [row EXCEPT !.age = a] \in DeviceRecord
         /\ Touch(device).online = device.online
         /\ Touch(device).count = device.count
<1>1. /\ device.online \in BOOLEAN /\ device.count \in Nat
      /\ device.age \in 0 .. OnlineTtl + 1 /\ OnlineTtl \in Nat
  BY RowValues
<1>2. ASSUME NEW row \in DeviceRecord, NEW b \in BOOLEAN, NEW n \in Nat,
             NEW a \in 0 .. OnlineTtl + 1
      PROVE  /\ [row EXCEPT !.online = b] \in DeviceRecord
             /\ [row EXCEPT !.count = n] \in DeviceRecord
             /\ [row EXCEPT !.online = b, !.count = n] \in DeviceRecord
             /\ [row EXCEPT !.age = a] \in DeviceRecord
  BY DEF DeviceRecord
<1>3. 0 \in 0 .. OnlineTtl + 1
  BY <1>1
<1>4. \A row \in DeviceRecord : Touch(row) \in DeviceRecord
  BY <1>3, <1>2 DEF Touch
<1>5. /\ Touch(device).online = device.online
      /\ Touch(device).count = device.count
  BY DEF TypeOK, DeviceRecord, Touch
<1> QED
  BY <1>1, <1>2, <1>3, <1>4, <1>5

\* Which operations a behaviour has is settled at its start.
LEMMA OpsKept == [Next]_vars => ops' = ops
BY DEF Next, vars, Connect, Handle, Join, Reject, Increment, GoOnline,
       Decrement, GoOffline, Close, HandshakeFails, DisconnectFails, Beat,
       LoginFind, LoginSelect, LoginUpdate, SweepSelect, SweepUpdate, Crash,
       Tick

LEMMA StepType == TypeOK /\ [Next]_vars => TypeOK'
<1> SUFFICES ASSUME TypeOK, [Next]_vars PROVE TypeOK'
  OBVIOUS
<1>a. device \in DeviceRecord
  BY DEF TypeOK
<1>1. ASSUME NEW s \in Sockets,
             Connect(s) \/ Handle(s) \/ Close(s) \/ HandshakeFails(s)
               \/ DisconnectFails(s)
      PROVE  TypeOK'
  <2>1. \E record \in SocketRecord : SetSocket(s, record)
    BY <1>1, RecordTypes
    DEF Connect, Handle, Join, Reject, Increment, GoOnline, Decrement,
        GoOffline, Close, HandshakeFails, DisconnectFails, Steps
  <2>2. sockets' \in [Sockets -> SocketRecord]
    BY <2>1, SetSocketType
  <2>3. device' \in DeviceRecord
    <3>1. CASE Increment(s)
      BY <3>1, <1>a, RowValues DEF Increment, DeviceRecord
    <3>2. CASE GoOnline(s)
      BY <3>2, <1>a, RowTypes DEF GoOnline
    <3>3. CASE Decrement(s)
      <4>1. Touch(device) \in DeviceRecord /\ Touch(device).count = device.count
        BY <1>a, RowTypes
      <4> QED
        BY <3>3, <4>1, RowValues DEF Decrement, DeviceRecord
    <3>4. CASE GoOffline(s)
      BY <3>4, <1>a, RowTypes DEF GoOffline
    <3> QED
      BY <1>1, <1>a, <3>1, <3>2, <3>3, <3>4
      DEF Connect, Handle, Join, Reject, Close, HandshakeFails, DisconnectFails
  <2>4. UNCHANGED <<sweep, login, crashes, ops>>
    BY <1>1
    DEF Connect, Handle, Join, Reject, Increment, GoOnline, Decrement,
        GoOffline, Close, HandshakeFails, DisconnectFails
  <2> QED
    BY <2>2, <2>3, <2>4 DEF TypeOK
<1>2. ASSUME Beat \/ SweepSelect \/ SweepUpdate \/ Tick
      PROVE  TypeOK'
  <2>1. CASE Beat
    BY <2>1, <1>a, RowTypes DEF Beat, TypeOK
  <2>2. CASE SweepSelect \/ SweepUpdate
    BY <2>2, <1>a, RowTypes DEF SweepSelect, SweepUpdate, TypeOK
  <2>3. CASE Tick
    BY <2>3, <1>a, RowValues DEF Tick, TypeOK, DeviceRecord
  <2> QED
    BY <1>2, <2>1, <2>2, <2>3
<1>3. ASSUME LoginFind \/ LoginSelect \/ LoginUpdate
      PROVE  TypeOK'
  <2>1. login \in LoginRecord /\ login.count \in Nat
    BY DEF TypeOK, LoginRecord
  <2>2. CASE LoginFind
    BY <2>2, <1>a, RowTypes DEF LoginFind, LoginRecord, TypeOK
  <2>3. CASE LoginSelect
    <3> DEFINE differing == {c \in {"online", "count"} :
                               \/ c = "online" /\ ~device.online
                               \/ c = "count" /\ login.count # device.count}
    <3>1. differing \in SUBSET {"online", "count"}
      OBVIOUS
    <3>2. login' = [login EXCEPT !.step = "update", !.writes = differing]
      BY <2>3 DEF LoginSelect
    <3> HIDE DEF differing
    <3>3. login' \in LoginRecord
      BY <2>1, <3>1, <3>2 DEF LoginRecord
    <3> QED
      BY <2>3, <3>3 DEF LoginSelect, TypeOK
  <2>4. CASE LoginUpdate
    <3> DEFINE online == IF "online" \in login.writes
                         THEN TRUE ELSE Touch(device).online
               count == IF "count" \in login.writes
                        THEN login.count ELSE Touch(device).count
    <3>1. online \in BOOLEAN /\ count \in Nat
      BY <2>1, RowTypes
    <3>2. device' = [Touch(device) EXCEPT !.online = online, !.count = count]
      BY <2>4 DEF LoginUpdate
    <3> HIDE DEF online, count
    <3>3. device' \in DeviceRecord
      BY <1>a, <3>1, <3>2, RowTypes
    <3> QED
      BY <2>4, <3>3 DEF LoginUpdate, TypeOK, IdleLogin, LoginRecord
  <2> QED
    BY <1>3, <2>2, <2>3, <2>4
<1>4. ASSUME Crash PROVE TypeOK'
  BY <1>4, BoundsAssumption
  DEF Crash, TypeOK, IdleSocket, SocketRecord, Steps, Statement, IdleLogin,
      LoginRecord
<1>5. ASSUME UNCHANGED vars PROVE TypeOK'
  BY <1>5 DEF vars, TypeOK
<1> QED
  BY <1>1, <1>2, <1>3, <1>4, <1>5 DEF Next

LEMMA InitType == Init => TypeOK
BY TtlAssumption, BoundsAssumption, ScenariosAssumption
DEF Init, TypeOK, DeviceRecord, IdleSocket, SocketRecord, Steps, Statement,
    IdleLogin, LoginRecord

\* All variables keep their types under every operation: socket_count stays a
\* natural number although disconnects overtake handshakes.
THEOREM PresenceTypeCorrect == Spec => []TypeOK
BY InitType, StepType, PTL DEF Spec

-----------------------------------------------------------------------------
\* A step of one socket moves at most that socket into or out of Held and Owed.
LEMMA Recount ==
  ASSUME TypeOK, Covered, NEW s \in Sockets, NEW record \in SocketRecord,
         SetSocket(s, record), Placed(record), device'.count \in Nat,
         \/ /\ Holds(Settle(record)) => Holds(sockets[s])
            /\ Owes(sockets[s]) => Owes(record)
            /\ device'.count = device.count
         \/ /\ sockets[s].step = "increment"
            /\ record = [sockets[s] EXCEPT !.step = "online"]
            /\ device'.count = device.count + 1
         \/ /\ sockets[s].dec = "issued"
            /\ record = [sockets[s] EXCEPT !.dec = "done"]
            /\ device'.count =
                 IF device.count > 0 THEN device.count - 1 ELSE 0
  PROVE  Covered'
<1>1. /\ sockets'[s] = Settle(record)
      /\ \A t \in Sockets \ {s} : sockets'[t] = sockets[t]
  BY SetSocketType
<1>2. /\ IsFiniteSet(Held) /\ IsFiniteSet(Owed)
      /\ IsFiniteSet(Held') /\ IsFiniteSet(Owed')
      /\ Cardinality(Held) \in Nat /\ Cardinality(Owed) \in Nat
      /\ Cardinality(Held') \in Nat /\ Cardinality(Owed') \in Nat
      /\ device.count \in Nat
  BY SocketsAssumption, FS_Subset, FS_CardinalityType
  DEF Held, Owed, TypeOK, DeviceRecord
<1>3. \A t \in Sockets : Placed(sockets'[t])
  BY <1>1, SettleType DEF Covered, Placed, IdleSocket
<1>4. device.count + Cardinality(Owed) >= Cardinality(Held)
  BY DEF Covered
<1>5. CASE /\ Holds(Settle(record)) => Holds(sockets[s])
           /\ Owes(sockets[s]) => Owes(record)
           /\ device'.count = device.count
  <2>1. Held' \subseteq Held
    BY <1>1, <1>5 DEF Held
  <2>2. Owes(record) => Settle(record) = record
    BY SettleType DEF Owes, Rising
  <2>3. Owed \subseteq Owed'
    BY <1>1, <1>5, <2>2 DEF Owed
  <2>4. Cardinality(Held') <= Cardinality(Held)
        /\ Cardinality(Owed) <= Cardinality(Owed')
    BY <1>2, <2>1, <2>3, FS_Subset
  <2> QED
    BY <1>2, <1>3, <1>4, <1>5, <2>4 DEF Covered
<1>6. CASE /\ sockets[s].step = "increment"
           /\ record = [sockets[s] EXCEPT !.step = "online"]
           /\ device'.count = device.count + 1
  <2>1. /\ sockets[s] \in SocketRecord
        /\ record.step = "online" /\ record.dec = sockets[s].dec
        /\ Settle(record) = record
    BY <1>6, SettleType DEF TypeOK, SocketRecord, Rising
  <2>2. CASE Owes(sockets[s])
    <3>1. Held' = Held
      BY <1>1, <1>6, <2>1, <2>2 DEF Held, Holds, Owes
    <3>a. ~Owes(sockets'[s])
      BY <1>1, <2>1 DEF Owes
    <3>2. Owed' = Owed \ {s} /\ s \in Owed
      BY <1>1, <2>2, <3>a DEF Owed
    <3>3. Cardinality(Owed') = Cardinality(Owed) - 1
      BY <1>2, <3>2, FS_RemoveElement
    <3> QED
      BY <1>2, <1>3, <1>4, <1>6, <3>1, <3>3 DEF Covered
  <2>3. CASE ~Owes(sockets[s])
    <3>a. Holds(sockets'[s]) /\ ~Holds(sockets[s])
      BY <1>1, <1>6, <2>1, <2>3 DEF Holds, Owes
    <3>1. Held' = Held \cup {s} /\ s \notin Held
      BY <1>1, <3>a DEF Held
    <3>2. Owed' = Owed
      BY <1>1, <1>6, <2>1, <2>3 DEF Owed, Owes
    <3>3. Cardinality(Held') = Cardinality(Held) + 1
      BY <1>2, <3>1, FS_AddElement
    <3> QED
      BY <1>2, <1>3, <1>4, <1>6, <3>2, <3>3 DEF Covered
  <2> QED
    BY <2>2, <2>3
<1>7. CASE /\ sockets[s].dec = "issued"
           /\ record = [sockets[s] EXCEPT !.dec = "done"]
           /\ device'.count =
                IF device.count > 0 THEN device.count - 1 ELSE 0
  <2>1. /\ sockets[s] \in SocketRecord
        /\ record.step = sockets[s].step /\ record.dec = "done"
        /\ sockets[s].step \in {"increment", "online", "up"}
    BY <1>7 DEF TypeOK, SocketRecord, Covered, Placed
  <2>2. CASE sockets[s].step = "increment"
    <3>1. Settle(record) = record
      BY <2>1, <2>2, SettleType DEF Rising
    <3>2. Held' = Held
      BY <1>1, <2>1, <2>2, <3>1 DEF Held, Holds
    <3>a. Owes(sockets'[s]) /\ ~Owes(sockets[s])
      BY <1>1, <1>7, <2>1, <2>2, <3>1 DEF Owes
    <3>3. Owed' = Owed \cup {s} /\ s \notin Owed
      BY <1>1, <3>a DEF Owed
    <3>4. Cardinality(Owed') = Cardinality(Owed) + 1
      BY <1>2, <3>3, FS_AddElement
    <3> QED
      BY <1>2, <1>3, <1>4, <1>7, <3>2, <3>4 DEF Covered
  <2>3. CASE sockets[s].step \in {"online", "up"}
    <3>1. ~Holds(Settle(record)) /\ ~Owes(Settle(record))
      BY <2>1, <2>3, SettleType DEF Holds, Owes, IdleSocket
    <3>2. Held' = Held \ {s} /\ s \in Held
      BY <1>1, <1>7, <2>3, <3>1 DEF Held, Holds
    <3>3. Owed' = Owed
      BY <1>1, <2>3, <3>1 DEF Owed, Owes
    <3>4. Cardinality(Held') = Cardinality(Held) - 1
      BY <1>2, <3>2, FS_RemoveElement
    <3> QED
      BY <1>2, <1>3, <1>4, <1>7, <3>3, <3>4 DEF Covered
  <2> QED
    BY <2>1, <2>2, <2>3
<1> QED
  BY <1>5, <1>6, <1>7

\* The login of another tab writes socket_count back, a failed increment is
\* never made up for: the row covers its sockets in instances without them.
LEMMA StepCovered ==
  ASSUME "login" \notin ops, "fail" \notin ops,
         TypeOK, TypeOK', login = IdleLogin, Covered, [Next]_vars
  PROVE  Covered' /\ login' = IdleLogin
<1>1. ASSUME NEW s \in Sockets,
             Connect(s) \/ Handle(s) \/ Close(s) \/ HandshakeFails(s)
               \/ DisconnectFails(s)
      PROVE  Covered' /\ login' = IdleLogin
  <2> USE RecordTypes
  <2>1. /\ Placed(sockets[s]) /\ device'.count \in Nat
        /\ sockets[s] \in SocketRecord
    BY DEF Covered, TypeOK, DeviceRecord
  <2>2. CASE Connect(s)
    <3> DEFINE record == [IdleSocket EXCEPT !.step = "lookup", !.open = TRUE]
    <3>1. /\ record.step = "lookup" /\ record.open /\ record.dec = "none"
          /\ record.off = "none"
      BY DEF IdleSocket
    <3>2. Placed(record) /\ ~Holds(Settle(record)) /\ ~Owes(sockets[s])
      BY <2>2, <3>1 DEF Connect, Placed, Holds, Owes, Settle, IdleSocket
    <3>3. record \in SocketRecord
      OBVIOUS
    <3>4. SetSocket(s, record) /\ device'.count = device.count
      BY <2>2 DEF Connect
    <3> HIDE DEF record
    <3> QED
      BY <2>1, <2>2, <3>2, <3>3, <3>4, Recount DEF Connect
  <2>3. CASE Join(s)
    BY <2>1, <2>3, Recount
    DEF Join, Placed, Holds, Owes, Settle, SocketRecord, Steps, IdleSocket
  <2>4. CASE Reject(s)
    BY <2>1, <2>4, Recount DEF Reject, Placed, Holds, Owes, Settle, IdleSocket
  <2>5. CASE Increment(s)
    <3>1. device'.count = device.count + 1
      BY <2>5 DEF Increment, TypeOK, DeviceRecord
    <3>2. Placed([sockets[s] EXCEPT !.step = "online"])
      BY <2>1 DEF Placed, SocketRecord
    <3>3. [sockets[s] EXCEPT !.step = "online"] \in SocketRecord
      BY DEF Steps
    <3> QED
      BY <2>1, <2>5, <3>1, <3>2, <3>3, Recount DEF Increment
  <2>6. CASE GoOnline(s)
    <3>1. device'.count = device.count
      BY <2>6 DEF GoOnline, Touch, TypeOK, DeviceRecord
    <3> DEFINE record == [sockets[s] EXCEPT !.step = "up"]
    <3>2. record \in SocketRecord
      BY DEF Steps
    <3>3. Placed(record) /\ ~Owes(sockets[s])
      BY <2>1, <2>6 DEF GoOnline, Placed, Owes, SocketRecord
    <3>4. Holds(Settle(record)) => Holds(sockets[s])
      BY <2>1, <2>6 DEF GoOnline, Holds, Settle, SocketRecord, IdleSocket
    <3>5. SetSocket(s, record)
      BY <2>6 DEF GoOnline
    <3> HIDE DEF record
    <3> QED
      BY <2>1, <2>6, <3>1, <3>2, <3>3, <3>4, <3>5, Recount DEF GoOnline
  <2>7. CASE Decrement(s)
    <3>1. device'.count = IF device.count > 0 THEN device.count - 1 ELSE 0
      BY <2>7 DEF Decrement, Touch, TypeOK, DeviceRecord
    <3>2. Placed([sockets[s] EXCEPT !.dec = "done"])
      BY <2>1, <2>7 DEF Decrement, Placed, SocketRecord
    <3> QED
      BY <2>1, <2>7, <3>1, <3>2, Recount DEF Decrement
  <2>8. CASE GoOffline(s)
    <3>1. device'.count = device.count
      BY <2>8 DEF GoOffline, TypeOK, DeviceRecord
    <3> QED
      BY <2>1, <2>8, <3>1, Recount
      DEF GoOffline, Placed, Holds, Owes, Settle, SocketRecord, IdleSocket
  <2>9. CASE Close(s)
    <3> DEFINE record == Disconnected(sockets[s])
    <3>1. Placed(record)
      BY <2>1, <2>9 DEF Close, Disconnected, Placed, SocketRecord, Steps
    <3>a. /\ record.step = sockets[s].step
          /\ sockets[s].dec = "none"
      BY <2>1, <2>9 DEF Close, Disconnected, Placed, SocketRecord
    <3>2. Holds(Settle(record)) => Holds(sockets[s])
      BY <3>a DEF Holds, Settle, IdleSocket
    <3>4. ~Owes(sockets[s])
      BY <3>a DEF Owes
    <3>3. SetSocket(s, record) /\ record \in SocketRecord
      BY <2>9 DEF Close
    <3> HIDE DEF record
    <3> QED
      BY <2>1, <2>9, <3>1, <3>2, <3>3, <3>4, Recount DEF Close
  <2> QED
    BY <1>1, <2>2, <2>3, <2>4, <2>5, <2>6, <2>7, <2>8, <2>9
    DEF Handle, HandshakeFails, DisconnectFails, Connect, Join, Reject,
        Increment, GoOnline, Decrement, GoOffline, Close
<1>2. ASSUME UNCHANGED <<sockets, login>>, device'.count = device.count
      PROVE  Covered' /\ login' = IdleLogin
  BY <1>2 DEF Covered, Held, Owed
<1>3. ASSUME Beat \/ SweepSelect \/ SweepUpdate \/ Tick
      PROVE  UNCHANGED <<sockets, login>> /\ device'.count = device.count
  BY <1>3
  DEF Beat, SweepSelect, SweepUpdate, Tick, Touch, TypeOK, DeviceRecord
<1>4. ASSUME Crash PROVE Covered' /\ login' = IdleLogin
  <2>1. Held' = {} /\ Owed' = {} /\ \A s \in Sockets : Placed(sockets'[s])
    BY <1>4 DEF Crash, Held, Owed, Holds, Owes, Placed, IdleSocket
  <2>2. Cardinality({}) = 0 /\ device'.count \in Nat
    BY FS_EmptySet DEF TypeOK, DeviceRecord
  <2> QED
    BY <1>4, <2>1, <2>2 DEF Crash, Covered
<1>5. ASSUME LoginFind \/ LoginSelect \/ LoginUpdate PROVE FALSE
  BY <1>5 DEF LoginFind, LoginSelect, LoginUpdate, IdleLogin
<1>6. ASSUME UNCHANGED vars
      PROVE  UNCHANGED <<sockets, login>> /\ device'.count = device.count
  BY <1>6 DEF vars
<1> QED
  BY <1>1, <1>2, <1>3, <1>4, <1>5, <1>6 DEF Next

LEMMA InitCovered == Init => Covered /\ login = IdleLogin
<1> SUFFICES ASSUME Init PROVE Covered /\ login = IdleLogin
  OBVIOUS
<1>1. Held = {} /\ Owed = {} /\ \A s \in Sockets : Placed(sockets[s])
  BY DEF Init, Held, Owed, Holds, Owes, Placed, IdleSocket
<1> QED
  BY <1>1, FS_EmptySet DEF Init, Covered

LEMMA ConnectedHeld ==
  ASSUME TypeOK, Covered
  PROVE  /\ Connected \subseteq Held
         /\ IsFiniteSet(Held) /\ IsFiniteSet(Owed) /\ IsFiniteSet(Connected)
         /\ Cardinality(Connected) <= Cardinality(Held)
         /\ Cardinality(Connected) \in Nat /\ Cardinality(Held) \in Nat
         /\ Cardinality(Owed) \in Nat
<1>1. Connected \subseteq Held
  BY DEF Connected, Held, Holds, Covered, Placed
<1> QED
  BY <1>1, SocketsAssumption, FS_Subset, FS_CardinalityType
  DEF Held, Owed, Connected

LEMMA CoveredCounts ==
  TypeOK /\ Covered /\ Quiet => device.count >= Cardinality(Connected)
<1> SUFFICES ASSUME TypeOK, Covered, Quiet
             PROVE  device.count >= Cardinality(Connected)
  OBVIOUS
<1>1. Owed = {}
  BY DEF Quiet, Owed, Owes, Connected, IdleSocket
<1>2. Cardinality(Owed) = 0
  BY <1>1, FS_EmptySet
<1>3. device.count \in Nat
  BY DEF TypeOK, DeviceRecord
<1> QED
  BY <1>2, <1>3, ConnectedHeld DEF Covered

Calm == "login" \notin ops /\ "fail" \notin ops
Calmer == Calm /\ "sweep" \notin ops

\* socket_count never falls below the connected sockets for want of a
\* decrement that hit the count of another tab, with restarts, sweeps,
\* heartbeats and handshakes cut short at any point.
THEOREM CountCorrect == Spec => []CountCovers
<1> DEFINE Inv == TypeOK /\ (Calm => Covered /\ login = IdleLogin)
<1>1. Init => Inv
  BY InitType, InitCovered
<1>2. Inv /\ [Next]_vars => Inv'
  BY StepType, StepCovered, OpsKept DEF Calm
<1>3. Inv => CountCovers
  BY CoveredCounts DEF Calm, CountCovers, Undisturbed
<1> QED
  BY <1>1, <1>2, <1>3, PTL DEF Spec

-----------------------------------------------------------------------------
\* Whoever turns a connected device offline did so because a handshake cut
\* short was discounted first; that handshake turns the device online again.
LEMMA StepBright ==
  ASSUME "sweep" \notin ops, "login" \notin ops, "fail" \notin ops,
         TypeOK, Covered, login = IdleLogin, sweep = "idle", Bright,
         [Next]_vars
  PROVE  Bright' /\ sweep' = "idle"
<1>1. ASSUME NEW s \in Sockets,
             Connect(s) \/ Handle(s) \/ Close(s)
      PROVE  Bright' /\ sweep' = "idle"
  <2> USE RecordTypes
  <2>a. sockets[s] \in SocketRecord /\ device \in DeviceRecord
    BY DEF TypeOK
  <2>9. sweep' = sweep
    BY <1>1
    DEF Connect, Handle, Join, Reject, Increment, GoOnline, Decrement,
        GoOffline, Close
  \* A record put into the slot that rises no less and connects no more.
  <2>b. ASSUME NEW record \in SocketRecord, SetSocket(s, record),
               device'.online = device.online,
               Rising(sockets[s]) => Rising(record),
               (record.open /\ record.step = "up") => s \in Connected
        PROVE  Bright'
    <3>1. /\ sockets'[s] = Settle(record)
          /\ \A t \in Sockets \ {s} : sockets'[t] = sockets[t]
      BY <2>b, SetSocketType
    <3>2. Connected' \subseteq Connected
      BY <2>b, <3>1, SettleType DEF Connected, IdleSocket
    <3>3. \A t \in Sockets : Rising(sockets[t]) => Rising(sockets'[t])
      BY <2>b, <3>1, SettleType
    <3> QED
      BY <2>b, <3>2, <3>3 DEF Bright
  <2>1. CASE Connect(s)
    <3>1. ~Rising(sockets[s])
      BY <2>1 DEF Connect, Rising, IdleSocket
    <3>2. [IdleSocket EXCEPT !.step = "lookup", !.open = TRUE].step # "up"
      BY DEF IdleSocket
    <3>3. device'.online = device.online
      BY <2>1 DEF Connect
    <3>4. Bright'
      BY <2>1, <2>b, <3>1, <3>2, <3>3 DEF Connect
    <3> QED
      BY <2>1, <3>4 DEF Connect
  <2>2. CASE Join(s)
    <3>1. [sockets[s] EXCEPT !.step = "increment"] \in SocketRecord
      BY DEF Steps
    <3> QED
      BY <2>2, <2>a, <2>b, <3>1 DEF Join, Rising, SocketRecord
  <2>3. CASE Reject(s)
    BY <2>3, <2>b DEF Reject, Rising, IdleSocket
  <2>4. CASE Increment(s)
    <3>1. [sockets[s] EXCEPT !.step = "online"] \in SocketRecord
      BY DEF Steps
    <3>2. device'.online = device.online
      BY <2>4, <2>a DEF Increment, DeviceRecord
    <3> QED
      BY <2>4, <2>a, <2>b, <3>1, <3>2 DEF Increment, Rising, SocketRecord
  <2>5. CASE GoOnline(s)
    BY <2>5, <2>a DEF GoOnline, Touch, DeviceRecord, Bright
  <2>6. CASE Decrement(s)
    <3>1. device'.online = device.online
      BY <2>6, <2>a DEF Decrement, Touch, DeviceRecord
    <3>2. sockets[s].dec # "none" => ~sockets[s].open
      BY DEF Covered, Placed
    <3> QED
      BY <2>6, <2>a, <2>b, <3>1, <3>2 DEF Decrement, Rising, SocketRecord
  <2>7. CASE GoOffline(s)
    <3>1. sockets[s].off # "none" => ~sockets[s].open
      BY DEF Covered, Placed
    <3>2. CASE device.count # 0
      <4>1. device'.online = device.online
        BY <2>7, <2>a, <3>2 DEF GoOffline, DeviceRecord
      <4> QED
        BY <2>7, <2>a, <2>b, <3>1, <4>1 DEF GoOffline, Rising, SocketRecord
    <3>3. CASE device.count = 0
      <4>1. /\ sockets'[s] = Settle([sockets[s] EXCEPT !.off = "done"])
            /\ \A t \in Sockets \ {s} : sockets'[t] = sockets[t]
        BY <2>7, SetSocketType DEF GoOffline
      <4>a. ~sockets'[s].open
        BY <2>7, <2>a, <3>1, <4>1
        DEF GoOffline, Settle, IdleSocket, SocketRecord
      <4>2. Connected' \subseteq Connected
        BY <4>1, <4>a DEF Connected
      <4>3. CASE Connected = {}
        <5>1. Connected' = {}
          BY <4>2, <4>3
        <5> QED
          BY <5>1, <2>9 DEF Bright
      <4>4. CASE Connected # {}
        <5>1. Cardinality(Connected) > 0
          BY <4>4, ConnectedHeld, FS_EmptySet
        <5>2. Cardinality(Owed) > 0
          BY <3>3, <5>1, ConnectedHeld DEF Covered
        <5>3. PICK t \in Sockets : Owes(sockets[t])
          BY <5>2, FS_EmptySet DEF Owed
        <5>4. Rising(sockets[t])
          BY <5>3 DEF Owes, Rising
        <5>5. Rising(sockets'[t])
          <6>1. CASE t = s
            <7>1. Rising([sockets[s] EXCEPT !.off = "done"])
              BY <2>a, <5>4, <6>1 DEF Rising, SocketRecord
            <7>2. [sockets[s] EXCEPT !.off = "done"] \in SocketRecord
              BY RecordTypes
            <7> QED
              BY <4>1, <6>1, <7>1, <7>2, SettleType
          <6>2. CASE t # s
            BY <4>1, <5>4, <6>2
          <6> QED
            BY <6>1, <6>2
        <5> QED
          BY <5>5, <2>9 DEF Bright
      <4> QED
        BY <4>3, <4>4
    <3> QED
      BY <3>2, <3>3
  <2>8. CASE Close(s)
    BY <2>8, <2>a, <2>b DEF Close, Disconnected, Rising, SocketRecord
  <2> QED
    BY <1>1, <2>1, <2>2, <2>3, <2>4, <2>5, <2>6, <2>7, <2>8, <2>9 DEF Handle
<1>2. ASSUME Beat PROVE Bright' /\ sweep' = "idle"
  BY <1>2 DEF Beat, Touch, Bright, TypeOK, DeviceRecord
<1>3. ASSUME Tick \/ UNCHANGED vars PROVE Bright' /\ sweep' = "idle"
  BY <1>3 DEF Tick, vars, Bright, Connected, TypeOK, DeviceRecord
<1>4. ASSUME Crash PROVE Bright' /\ sweep' = "idle"
  BY <1>4 DEF Crash, Bright, Connected, IdleSocket
<1>5. ASSUME \/ SweepSelect \/ SweepUpdate
             \/ LoginFind \/ LoginSelect \/ LoginUpdate
             \/ \E s \in Sockets : HandshakeFails(s) \/ DisconnectFails(s)
      PROVE  FALSE
  BY <1>5
  DEF SweepSelect, SweepUpdate, LoginFind, LoginSelect, LoginUpdate, IdleLogin,
      HandshakeFails, DisconnectFails
<1> QED
  BY <1>1, <1>2, <1>3, <1>4, <1>5 DEF Next

\* Of several tabs only the last one to close leaves the device offline, with
\* restarts and handshakes cut short at any point, as long as no sweep, login
\* or failed statement interferes.
THEOREM OnlineCorrect == Spec => []OnlineWhileConnected
<1> DEFINE Inv == /\ TypeOK
                  /\ Calmer => /\ Covered /\ Bright
                               /\ login = IdleLogin /\ sweep = "idle"
<1>1. Init => Inv
  <2>1. Init => Bright /\ sweep = "idle"
    BY DEF Init, Bright, Connected, IdleSocket
  <2> QED
    BY <2>1, InitType, InitCovered
<1>2. Inv /\ [Next]_vars => Inv'
  BY StepType, StepCovered, StepBright, OpsKept DEF Calm, Calmer
<1>3. Inv => OnlineWhileConnected
  BY DEF Calm, Calmer, Bright, OnlineWhileConnected, Undisturbed, Quiet,
         Rising, Connected, IdleSocket
<1> QED
  BY <1>1, <1>2, <1>3, PTL DEF Spec
=============================================================================
