------------------------------ MODULE Presence ------------------------------
(***************************************************************************)
(* The online state of one device: what the gateway writes while its web   *)
(* sockets open and close, the heartbeats and logins of the device, and    *)
(* the sweep that marks silent devices offline.  The row is the only thing *)
(* that survives a restart.  An action is one statement on the row and the *)
(* JavaScript up to the next await.                                        *)
(*                                                                         *)
(* A socket may close while its handshake is still awaiting statements:    *)
(* the handshake goes on regardless.  The two updates of a disconnect are  *)
(* not awaited and run on connections of their own, in either order.       *)
(*                                                                         *)
(* Time is the age of last_active_at, which stops growing once it exceeds  *)
(* OnlineTtl.  Statements take no time worth counting: the instant written *)
(* is that of the statement.                                               *)
(***************************************************************************)
EXTENDS Integers, FiniteSets

CONSTANTS
  Sockets,    \* slots for web sockets of the device
  OnlineTtl,  \* ONLINE_TTL_SECONDS
  MaxCount,   \* bound: clients connect only below this socket_count
  MaxCrashes, \* bound: restarts of the process
  Scenarios   \* sets of operations that occur together in a behaviour

AllOps == {"earlyClose", "fail", "beat", "sweep", "login", "crash"}

ASSUME SocketsAssumption == IsFiniteSet(Sockets)
ASSUME TtlAssumption == OnlineTtl \in Nat
ASSUME BoundsAssumption == MaxCount \in Nat /\ MaxCrashes \in Nat
ASSUME ScenariosAssumption == Scenarios \subseteq SUBSET AllOps

VARIABLES
  device,   \* the row: is_online, socket_count, age of last_active_at
  sockets,  \* handshake and disconnect of every socket
  sweep,    \* a run of sweepOffline: "idle" or "selected" the device
  login,    \* a repeated login on the device
  crashes,  \* restarts so far
  ops       \* the operations of this behaviour

vars == <<device, sockets, sweep, login, crashes, ops>>

Steps == {"idle", "lookup", "increment", "online", "up"}
Statement == {"none", "issued", "done"}

\* step is the statement the handshake awaits, "up" once it has returned;
\* dec and off are the two updates of handleDisconnect.
SocketRecord ==
  [step: Steps, open: BOOLEAN, dec: Statement, off: Statement]

DeviceRecord == [online: BOOLEAN, count: Nat, age: 0 .. OnlineTtl + 1]

\* count is the socket_count of the entity found, writes the columns that
\* save found to differ.
LoginRecord ==
  [step: {"idle", "select", "update"}, count: Nat,
   writes: SUBSET {"online", "count"}]

TypeOK ==
  /\ device \in DeviceRecord
  /\ sockets \in [Sockets -> SocketRecord]
  /\ sweep \in {"idle", "selected"}
  /\ login \in LoginRecord
  /\ crashes \in 0 .. MaxCrashes
  /\ ops \subseteq AllOps

IdleSocket == [step |-> "idle", open |-> FALSE, dec |-> "none", off |-> "none"]
IdleLogin == [step |-> "idle", count |-> 0, writes |-> {}]

\* A device nobody uses: what the migration that added the columns leaves of
\* every row, and what the sweep leads back to.
Init ==
  /\ device = [online |-> FALSE, count |-> 0, age |-> OnlineTtl + 1]
  /\ sockets = [s \in Sockets |-> IdleSocket]
  /\ sweep = "idle"
  /\ login = IdleLogin
  /\ crashes = 0
  /\ ops \in Scenarios

Touch(row) == [row EXCEPT !.age = 0]

\* A slot is free again when the socket is closed and nothing is in flight.
Settle(record) ==
  IF /\ ~record.open
     /\ record.step \in {"idle", "up"}
     /\ "issued" \notin {record.dec, record.off}
  THEN IdleSocket ELSE record

SetSocket(s, record) == sockets' = [sockets EXCEPT ![s] = Settle(record)]

-----------------------------------------------------------------------------
\* EventsGateway.handleConnection

\* A client connects with a valid token; account and device are looked up.
Connect(s) ==
  /\ sockets[s] = IdleSocket
  /\ device.count < MaxCount
  /\ SetSocket(s, [IdleSocket EXCEPT !.step = "lookup", !.open = TRUE])
  /\ UNCHANGED <<device, sweep, login, crashes, ops>>

\* Both were found: client.data is set, the rooms are joined.
Join(s) ==
  /\ sockets[s].step = "lookup"
  /\ SetSocket(s, [sockets[s] EXCEPT !.step = "increment"])
  /\ UNCHANGED <<device, sweep, login, crashes, ops>>

\* The lookup was refused: client.disconnect(true) with client.data unset.
Reject(s) ==
  /\ sockets[s].step = "lookup"
  /\ SetSocket(s, IdleSocket)
  /\ UNCHANGED <<device, sweep, login, crashes, ops>>

\* Mutant: any tab sets socket_count to 1.
IncrementSets(s) ==
  /\ sockets[s].step = "increment"
  /\ device' = [device EXCEPT !.count = 1]
  /\ SetSocket(s, [sockets[s] EXCEPT !.step = "online"])
  /\ UNCHANGED <<sweep, login, crashes, ops>>

Increment(s) ==
  /\ sockets[s].step = "increment"
  /\ device' = [device EXCEPT !.count = @ + 1]
  /\ SetSocket(s, [sockets[s] EXCEPT !.step = "online"])
  /\ UNCHANGED <<sweep, login, crashes, ops>>

GoOnline(s) ==
  /\ sockets[s].step = "online"
  /\ device' = [Touch(device) EXCEPT !.online = TRUE]
  /\ SetSocket(s, [sockets[s] EXCEPT !.step = "up"])
  /\ UNCHANGED <<sweep, login, crashes, ops>>

\* handleDisconnect issues its two updates if client.data is set.
Disconnected(record) ==
  IF record.step \in {"idle", "lookup"}
  THEN [record EXCEPT !.open = FALSE]
  ELSE [record EXCEPT !.open = FALSE, !.dec = "issued", !.off = "issued"]

\* The client, or the network, closes the socket.
Close(s) ==
  /\ sockets[s].open
  /\ "earlyClose" \in ops \/ sockets[s].step = "up"
  /\ SetSocket(s, Disconnected(sockets[s]))
  /\ UNCHANGED <<device, sweep, login, crashes, ops>>

\* A statement of the handshake fails: the catch disconnects the client.
HandshakeFails(s) ==
  /\ "fail" \in ops
  /\ sockets[s].step \in {"increment", "online"}
  /\ SetSocket(s, [IF sockets[s].open THEN Disconnected(sockets[s])
                                      ELSE sockets[s] EXCEPT !.step = "up"])
  /\ UNCHANGED <<device, sweep, login, crashes, ops>>

-----------------------------------------------------------------------------
\* EventsGateway.handleDisconnect: GREATEST(socket_count - 1, 0), and offline
\* where socket_count = 0

\* Mutant: socket_count - 1 without GREATEST.
DecrementUnbounded(s) ==
  /\ sockets[s].dec = "issued"
  /\ device' = [Touch(device) EXCEPT !.count = @ - 1]
  /\ SetSocket(s, [sockets[s] EXCEPT !.dec = "done"])
  /\ UNCHANGED <<sweep, login, crashes, ops>>

Decrement(s) ==
  /\ sockets[s].dec = "issued"
  /\ device' = [Touch(device) EXCEPT !.count = IF @ > 0 THEN @ - 1 ELSE 0]
  /\ SetSocket(s, [sockets[s] EXCEPT !.dec = "done"])
  /\ UNCHANGED <<sweep, login, crashes, ops>>

\* Mutant: offline with any disconnect.
GoOfflineAnyway(s) ==
  /\ sockets[s].off = "issued"
  /\ device' = [device EXCEPT !.online = FALSE]
  /\ SetSocket(s, [sockets[s] EXCEPT !.off = "done"])
  /\ UNCHANGED <<sweep, login, crashes, ops>>

GoOffline(s) ==
  /\ sockets[s].off = "issued"
  /\ device' = [device EXCEPT !.online = IF device.count = 0 THEN FALSE ELSE @]
  /\ SetSocket(s, [sockets[s] EXCEPT !.off = "done"])
  /\ UNCHANGED <<sweep, login, crashes, ops>>

\* A failed update of a disconnect is only logged.
DisconnectFails(s) ==
  /\ "fail" \in ops
  /\ \/ /\ sockets[s].dec = "issued"
        /\ SetSocket(s, [sockets[s] EXCEPT !.dec = "done"])
     \/ /\ sockets[s].off = "issued"
        /\ SetSocket(s, [sockets[s] EXCEPT !.off = "done"])
  /\ UNCHANGED <<device, sweep, login, crashes, ops>>

-----------------------------------------------------------------------------
\* AuthService.heartbeat: its check only looks whether the row exists.
Beat ==
  /\ "beat" \in ops
  /\ device' = [Touch(device) EXCEPT !.online = TRUE]
  /\ UNCHANGED <<sockets, sweep, login, crashes, ops>>

\* AuthService.login on a known device finds the entity, sets is_online and
\* saves it: save reads the row again and writes every column in which entity
\* and row differ, socket_count included.
LoginFind ==
  /\ "login" \in ops
  /\ login.step = "idle"
  /\ login' = [step |-> "select", count |-> device.count, writes |-> {}]
  /\ UNCHANGED <<device, sockets, sweep, crashes, ops>>

LoginSelect ==
  /\ login.step = "select"
  /\ login' = [login EXCEPT
       !.step = "update",
       !.writes = {c \in {"online", "count"} :
                     \/ c = "online" /\ ~device.online
                     \/ c = "count" /\ login.count # device.count}]
  /\ UNCHANGED <<device, sockets, sweep, crashes, ops>>

LoginUpdate ==
  /\ login.step = "update"
  /\ device' = [Touch(device) EXCEPT
       !.online = IF "online" \in login.writes THEN TRUE ELSE @,
       !.count = IF "count" \in login.writes THEN login.count ELSE @]
  /\ login' = IdleLogin
  /\ UNCHANGED <<sockets, sweep, crashes, ops>>

\* PresenceScheduler.sweepOffline
\* Mutant: the sweep skips socket_count = 0.
SilentBelowZero(row) == row.online /\ row.count < 0 /\ row.age > OnlineTtl

Silent(row) == row.online /\ row.count <= 0 /\ row.age > OnlineTtl

SweepSelect ==
  /\ "sweep" \in ops
  /\ sweep = "idle"
  /\ Silent(device)
  /\ sweep' = "selected"
  /\ UNCHANGED <<device, sockets, login, crashes, ops>>

\* The update names the ids selected and no other condition.
SweepUpdate ==
  /\ sweep = "selected"
  /\ device' = [device EXCEPT !.online = FALSE]
  /\ sweep' = "idle"
  /\ UNCHANGED <<sockets, login, crashes, ops>>

-----------------------------------------------------------------------------
\* The process stops: sockets and handlers are gone, the row stays.
Crash ==
  /\ "crash" \in ops
  /\ crashes < MaxCrashes
  /\ crashes' = crashes + 1
  /\ sockets' = [s \in Sockets |-> IdleSocket]
  /\ sweep' = "idle"
  /\ login' = IdleLogin
  /\ UNCHANGED <<device, ops>>

Tick ==
  /\ device' = [device EXCEPT !.age = IF @ > OnlineTtl THEN @ ELSE @ + 1]
  /\ UNCHANGED <<sockets, sweep, login, crashes, ops>>

\* The statements of socket s that were issued and will return.
Handle(s) ==
  \/ Join(s) \/ Reject(s) \/ Increment(s) \/ GoOnline(s)
  \/ Decrement(s) \/ GoOffline(s)

Next ==
  \/ \E s \in Sockets : Connect(s) \/ Handle(s) \/ Close(s)
                          \/ HandshakeFails(s) \/ DisconnectFails(s)
  \/ Beat
  \/ LoginFind \/ LoginSelect \/ LoginUpdate
  \/ SweepSelect \/ SweepUpdate
  \/ Crash
  \/ Tick

Spec == Init /\ [][Next]_vars

\* Time passes, statements return and the cron job runs every minute.
Fairness ==
  /\ WF_vars(Tick)
  /\ \A s \in Sockets : WF_vars(Handle(s))
  /\ WF_vars(LoginSelect \/ LoginUpdate)
  /\ WF_vars(SweepSelect \/ SweepUpdate)

FairSpec == Spec /\ Fairness

-----------------------------------------------------------------------------
Connected == {s \in Sockets : sockets[s].open /\ sockets[s].step = "up"}

\* No statement on the row is in flight.
Quiet ==
  /\ \A s \in Sockets : sockets[s] = IdleSocket \/ s \in Connected
  /\ sweep = "idle"
  /\ login = IdleLogin

Unused == \A s \in Sockets : sockets[s] = IdleSocket

\* A login of another tab writes socket_count back, a failed increment is
\* discounted all the same, and the sweep names ids it read before.
Undisturbed(hazards) == Quiet /\ ops \cap hazards = {}

\* With nothing in flight, socket_count is at least the number of connected
\* sockets, whichever handshakes were cut short and whenever the process was
\* restarted: the decrement, bounded by GREATEST, never eats the count of
\* another tab.
CountCovers ==
  Undisturbed({"login", "fail"}) => device.count >= Cardinality(Connected)

\* With nothing in flight, a device with a connected socket is online: of
\* several tabs only the last one to close marks the device offline.
OnlineWhileConnected ==
  (Undisturbed({"login", "fail", "sweep"}) /\ Connected # {}) => device.online

\* The sweep: a device that nobody uses, whose socket_count is 0 and whose
\* last activity is older than ONLINE_TTL_SECONDS, goes offline.
UncountedGoesOffline ==
  ("sweep" \in ops /\ <>[](Unused /\ device.age > OnlineTtl /\ device.count = 0))
    => <>[](~device.online)

\* The same of any device that nobody uses: the sweep covers lost disconnects.
UnusedGoesOffline ==
  ("sweep" \in ops /\ <>[](Unused /\ device.age > OnlineTtl))
    => <>[](~device.online)
=============================================================================
