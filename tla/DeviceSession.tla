---------------------------- MODULE DeviceSession ----------------------------
(***************************************************************************)
(* The device rows of one account and the authentication cache: logins     *)
(* under a session policy (auth.service.ts), the guard of every request    *)
(* (jwt-auth.guard.ts, auth-cache.service.ts), a user who removes devices, *)
(* and administrators who force devices offline or close the account       *)
(* (admin-message.service.ts, account.service.ts).                         *)
(*                                                                         *)
(* A token is accepted while its device row exists and the account is      *)
(* active, as far as the guard or its cache knows.  The cache lives in the *)
(* process and is shared by all handlers, so a statement and the           *)
(* JavaScript after it are separate steps wherever that code touches the   *)
(* cache.  A save() of a known device is a SELECT, then an UPDATE of other *)
(* columns or an INSERT under the same id.                                 *)
(*                                                                         *)
(* Time is counted in ages that stop growing at Forever.                   *)
(***************************************************************************)
EXTENDS Integers, FiniteSets

CONSTANTS
  Fingerprints,  \* device_id values the clients send
  MaxIds,        \* bound: device rows ever inserted
  RequestIds,    \* the same, where requests are made and time passes
  Logins,        \* slots for logins in flight
  Guards,        \* slots for requests whose guard missed the cache
  Admins,        \* slots for removals and account changes in flight
  Policies,      \* values of SESSION_POLICY, "notify" standing for "allow" too
  MaxDevices,    \* MAX_DEVICES_PER_USER
  CacheTtl,      \* AUTH_CACHE_TTL_MS
  Latency,       \* bound: time between a guard's first read and its last step
  Scenarios      \* sets of operations that occur together in a behaviour

AllOps == {"concurrent", "request", "remove", "force", "disable", "enable",
           "delete", "fail", "crash"}

ASSUME IdsAssumption == MaxIds \in Nat /\ RequestIds \in Nat
ASSUME PoliciesAssumption == Policies \subseteq {"notify", "single"}
ASSUME LimitAssumption == MaxDevices \in Nat \ {0}
ASSUME TimesAssumption == CacheTtl \in Nat \ {0} /\ Latency \in Nat
ASSUME ScenariosAssumption == Scenarios \subseteq SUBSET AllOps

Ids == 1 .. MaxIds
Forever == CacheTtl + Latency + 1
NoId == 0
NoPrint == "none"

VARIABLES
  status,  \* of the account; "deleted" is deleted_at, whatever the status
  rows,    \* ids in devices
  print,   \* device_id of the row with this id
  issued,  \* ids used so far
  tokens,  \* devices for which tokens were handed out
  cache,   \* age of the cache entry; above CacheTtl there is none
  login, guard, admin,   \* handlers in flight
  policy,  \* SESSION_POLICY of this deployment
  ops,     \* what happens besides logins
  gone,    \* history: time since the row was deleted
  closed,  \* history: time since the account was closed
  torn     \* history: a login died since the policy was last applied

settings == <<policy, ops>>
handlers == <<login, guard, admin>>
store == <<status, rows, print, issued, tokens>>
history == <<gone, closed, torn>>
vars == <<status, rows, print, issued, tokens, cache, login, guard, admin,
          policy, ops, gone, closed, torn>>

LoginRecord ==
  [step: {"idle", "find", "select", "write", "policy", "evict", "invalidate"},
   print: Fingerprints \cup {NoPrint}, id: Ids \cup {NoId}, todo: SUBSET Ids,
   victim: Ids \cup {NoId}]

\* A login has an id once it has found or written its row.
Named(record) ==
  record.step \in {"select", "policy", "evict", "invalidate"} =>
    record.id # NoId

GuardRecord ==
  [step: {"idle", "user", "device", "set"}, id: Ids \cup {NoId},
   age: 0 .. Latency]

AdminRecord ==
  [step: {"idle", "status", "devices", "invalidate", "invalidateAll"},
   op: {"none", "remove", "disable", "enable", "delete"}, id: Ids \cup {NoId}]

\* A change of the account's status knows which.
Ordered(record) ==
  record.step = "status" => record.op \in {"disable", "enable", "delete"}

IdleLogin ==
  [step |-> "idle", print |-> NoPrint, id |-> NoId, todo |-> {},
   victim |-> NoId]
IdleGuard == [step |-> "idle", id |-> NoId, age |-> 0]
IdleAdmin == [step |-> "idle", op |-> "none", id |-> NoId]

\* The last conjunct is the unique key (user_id, device_id).
TypeOK ==
  /\ status \in {"active", "disabled", "deleted"}
  /\ rows \subseteq Ids
  /\ print \in [Ids -> Fingerprints \cup {NoPrint}]
  /\ issued \in 0 .. MaxIds
  /\ tokens \subseteq Ids
  /\ cache \in [Ids -> 0 .. CacheTtl + 1]
  /\ login \in [Logins -> LoginRecord]
  /\ \A p \in Logins : Named(login[p])
  /\ guard \in [Guards -> GuardRecord]
  /\ admin \in [Admins -> AdminRecord]
  /\ \A a \in Admins : Ordered(admin[a])
  /\ policy \in Policies
  /\ ops \subseteq AllOps
  /\ gone \in [Ids -> 0 .. Forever]
  /\ closed \in 0 .. Forever
  /\ torn \in BOOLEAN
  /\ \A x, y \in rows : print[x] = print[y] => x = y

Init ==
  /\ status = "active"
  /\ rows = {}
  /\ print = [id \in Ids |-> NoPrint]
  /\ issued = 0
  /\ tokens = {}
  /\ cache = [id \in Ids |-> CacheTtl + 1]
  /\ login = [p \in Logins |-> IdleLogin]
  /\ guard = [g \in Guards |-> IdleGuard]
  /\ admin = [a \in Admins |-> IdleAdmin]
  /\ policy \in Policies
  /\ ops \in Scenarios
  /\ gone = [id \in Ids |-> Forever]
  /\ closed = 0
  /\ torn = FALSE
-----------------------------------------------------------------------------
Grown(age, limit) == IF age >= limit THEN limit ELSE age + 1

\* AuthCache.get: does the next request of this device pass without a query?
Cached(id) == cache[id] <= CacheTtl

\* AuthCache.set and invalidate, seen from the entries.
Put(id) == cache' = [cache EXCEPT ![id] = 0]
Drop(ids) ==
  cache' = [id \in Ids |-> IF id \in ids THEN CacheTtl + 1 ELSE cache[id]]

\* DELETE FROM devices WHERE id IN ids
Delete(ids) ==
  /\ rows' = rows \ ids
  /\ gone' = [id \in Ids |-> IF id \in rows \cap ids THEN 0 ELSE gone[id]]

SetLogin(p, record) == login' = [login EXCEPT ![p] = record]
SetAdmin(a, record) == admin' = [admin EXCEPT ![a] = record]
SetGuard(g, record) == guard' = [guard EXCEPT ![g] = record]
-----------------------------------------------------------------------------
(* AuthService.login *)

\* The account was found active and the password is right.
LoginStart(p, f) ==
  /\ login[p].step = "idle"
  /\ "concurrent" \in ops \/ \A q \in Logins : login[q].step = "idle"
  /\ status = "active"
  /\ SetLogin(p, [IdleLogin EXCEPT !.step = "find", !.print = f])
  /\ UNCHANGED <<store, cache, guard, admin, settings, history>>

\* Is the device known?
LoginFind(p) ==
  /\ login[p].step = "find"
  /\ \/ \E id \in rows :
          /\ print[id] = login[p].print
          /\ SetLogin(p, [login[p] EXCEPT !.step = "select", !.id = id])
     \/ /\ \A id \in rows : print[id] # login[p].print
        /\ SetLogin(p, [login[p] EXCEPT !.step = "write"])
  /\ UNCHANGED <<store, cache, guard, admin, settings, history>>

\* save() looks the known device up again: an UPDATE of columns that do not
\* matter here if it is there, an INSERT under its old id if it is gone.
LoginSelect(p) ==
  /\ login[p].step = "select"
  /\ SetLogin(p, [login[p] EXCEPT
       !.step = IF login[p].id \in rows THEN "policy" ELSE "write"])
  /\ UNCHANGED <<store, cache, guard, admin, settings, history>>

\* Bound: fewer devices where time passes.
Fits(id) == "request" \in ops => id <= RequestIds

Insert(id, f) ==
  /\ rows' = rows \cup {id}
  /\ print' = [print EXCEPT ![id] = f]
  /\ issued' = IF id > issued THEN id ELSE issued

\* Mutant of LoginWrite: devices has no unique key.
LoginWriteDuplicates(p) ==
  /\ login[p].step = "write"
  /\ LET id == IF login[p].id = NoId THEN issued + 1 ELSE login[p].id
     IN /\ id \in Ids \ rows
        /\ Fits(id)
        /\ Insert(id, login[p].print)
        /\ SetLogin(p, [login[p] EXCEPT !.step = "policy", !.id = id])
  /\ UNCHANGED <<status, tokens, cache, guard, admin, settings, history>>

\* INSERT; a row with the same key, or the same id, makes the login fail.
LoginWrite(p) ==
  /\ login[p].step = "write"
  /\ LET id == IF login[p].id = NoId THEN issued + 1 ELSE login[p].id
     IN IF \E x \in rows : x = id \/ print[x] = login[p].print
        THEN SetLogin(p, IdleLogin) /\ UNCHANGED <<rows, print, issued>>
        ELSE /\ id \in Ids
             /\ Fits(id)
             /\ Insert(id, login[p].print)
             /\ SetLogin(p, [login[p] EXCEPT !.step = "policy", !.id = id])
  /\ UNCHANGED <<status, tokens, cache, guard, admin, settings, history>>

\* Mutant of Excess: one device too many is kept.
ExcessKeepsOne(others) ==
  IF policy = "single" THEN {others}
  ELSE {out \in SUBSET others :
          Cardinality(others \ out) =
            IF Cardinality(others) > MaxDevices THEN MaxDevices
                                                ELSE Cardinality(others)}

\* applySessionPolicy: all other devices, or those that exceed the limit; the
\* order by last_active_at is left open.
Excess(others) ==
  IF policy = "single" THEN {others}
  ELSE {out \in SUBSET others :
          Cardinality(others \ out) =
            IF Cardinality(others) > MaxDevices - 1
            THEN MaxDevices - 1 ELSE Cardinality(others)}

\* The other devices are read and those to go are fixed.
LoginPolicy(p) ==
  /\ login[p].step = "policy"
  /\ \E out \in Excess(rows \ {login[p].id}) :
       SetLogin(p, [login[p] EXCEPT !.step = "evict", !.todo = out])
  /\ torn' = FALSE
  /\ UNCHANGED <<store, cache, guard, admin, settings, gone, closed>>

LoginEvict(p) ==
  /\ login[p].step = "evict"
  /\ \E d \in login[p].todo :
       /\ Delete({d})
       /\ SetLogin(p, [login[p] EXCEPT !.step = "invalidate", !.victim = d,
                                       !.todo = @ \ {d}])
  /\ UNCHANGED <<status, print, issued, tokens, cache, guard, admin, settings,
                 closed, torn>>

LoginInvalidate(p) ==
  /\ login[p].step = "invalidate"
  /\ Drop({login[p].victim})
  /\ SetLogin(p, [login[p] EXCEPT !.step = "evict", !.victim = NoId])
  /\ UNCHANGED <<store, guard, admin, settings, history>>

\* The tokens are handed out.
LoginDone(p) ==
  /\ login[p].step = "evict"
  /\ login[p].todo = {}
  /\ tokens' = tokens \cup {login[p].id}
  /\ SetLogin(p, IdleLogin)
  /\ UNCHANGED <<status, rows, print, issued, cache, guard, admin, settings,
                 history>>

\* A statement of the login fails; what was written stays.
LoginFails(p) ==
  /\ "fail" \in ops
  /\ login[p].step \in {"find", "select", "write", "policy", "evict"}
  /\ SetLogin(p, IdleLogin)
  /\ torn' = TRUE
  /\ UNCHANGED <<store, cache, guard, admin, settings, gone, closed>>
-----------------------------------------------------------------------------
(* JwtAuthGuard.canActivate; a hit in the cache changes nothing. *)

GuardStart(g, id) ==
  /\ "request" \in ops
  /\ guard[g] = IdleGuard
  /\ ~Cached(id)
  /\ SetGuard(g, [IdleGuard EXCEPT !.step = "user", !.id = id])
  /\ UNCHANGED <<store, cache, login, admin, settings, history>>

\* A closed account is turned away.
GuardUser(g) ==
  /\ guard[g].step = "user"
  /\ SetGuard(g, IF status = "active"
                 THEN [guard[g] EXCEPT !.step = "device", !.age = 0]
                 ELSE IdleGuard)
  /\ UNCHANGED <<store, cache, login, admin, settings, history>>

\* Mutant of GuardDevice: the device is not looked for.
GuardDeviceUnchecked(g) ==
  /\ guard[g].step = "device"
  /\ SetGuard(g, [guard[g] EXCEPT !.step = "set"])
  /\ UNCHANGED <<store, cache, login, admin, settings, history>>

GuardDevice(g) ==
  /\ guard[g].step = "device"
  /\ SetGuard(g, IF guard[g].id \in rows
                 THEN [guard[g] EXCEPT !.step = "set"] ELSE IdleGuard)
  /\ UNCHANGED <<store, cache, login, admin, settings, history>>

\* The request passes and the cache remembers it.
GuardSet(g) ==
  /\ guard[g].step = "set"
  /\ Put(guard[g].id)
  /\ SetGuard(g, IdleGuard)
  /\ UNCHANGED <<store, login, admin, settings, history>>
-----------------------------------------------------------------------------
(* AuthService.removeDevice; AdminMessageService.forceOfflineDevice *)

RemoveDevice(a, id) ==
  /\ "remove" \in ops
  /\ admin[a] = IdleAdmin
  /\ id <= issued
  /\ Delete({id})
  /\ SetAdmin(a, [step |-> "invalidate", op |-> "remove", id |-> id])
  /\ UNCHANGED <<status, print, issued, tokens, cache, login, guard, settings,
                 closed, torn>>

RemoveInvalidate(a) ==
  /\ admin[a].step = "invalidate"
  /\ Drop({admin[a].id})
  /\ SetAdmin(a, IdleAdmin)
  /\ UNCHANGED <<store, login, guard, settings, history>>

\* The cache is not told.
ForceOffline(id) ==
  /\ "force" \in ops
  /\ id \in rows
  /\ Delete({id})
  /\ UNCHANGED <<status, print, issued, tokens, cache, handlers, settings,
                 closed, torn>>
-----------------------------------------------------------------------------
(* AccountService.toggleAccountStatus, softDeleteAccount *)

AdminStart(a, op) ==
  /\ op \in ops \cap {"disable", "enable", "delete"}
  /\ admin[a] = IdleAdmin
  /\ status # "deleted"
  /\ SetAdmin(a, [step |-> "status", op |-> op, id |-> NoId])
  /\ UNCHANGED <<store, cache, login, guard, settings, history>>

\* deleted_at is never taken back.
AdminStatus(a) ==
  /\ admin[a].step = "status"
  /\ LET new == [disable |-> "disabled", enable |-> "active",
                 delete |-> "deleted"][admin[a].op]
     IN status' = IF status = "deleted" THEN status ELSE new
  /\ closed' = IF "active" \in {status, status'} THEN 0 ELSE closed
  /\ SetAdmin(a, [admin[a] EXCEPT
       !.step = IF admin[a].op = "enable" THEN "invalidateAll" ELSE "devices"])
  /\ UNCHANGED <<rows, print, issued, tokens, cache, login, guard, settings,
                 gone, torn>>

AdminDevices(a) ==
  /\ admin[a].step = "devices"
  /\ Delete(Ids)
  /\ SetAdmin(a, [admin[a] EXCEPT !.step = "invalidateAll"])
  /\ UNCHANGED <<status, print, issued, tokens, cache, login, guard, settings,
                 closed, torn>>

AdminInvalidate(a) ==
  /\ admin[a].step = "invalidateAll"
  /\ Drop(Ids)
  /\ SetAdmin(a, IdleAdmin)
  /\ UNCHANGED <<store, login, guard, settings, history>>
-----------------------------------------------------------------------------
\* The process dies: handlers and cache are gone, the rows stay.
Crash ==
  /\ "crash" \in ops
  /\ torn' = TRUE
  /\ Drop(Ids)
  /\ login' = [p \in Logins |-> IdleLogin]
  /\ guard' = [g \in Guards |-> IdleGuard]
  /\ admin' = [a \in Admins |-> IdleAdmin]
  /\ UNCHANGED <<store, settings, gone, closed>>

\* Time matters to the cache only; no request waits longer than Latency for
\* its guard.
Tick ==
  /\ "request" \in ops
  /\ \A g \in Guards : guard[g].step = "idle" \/ guard[g].age < Latency
  /\ cache' = [id \in Ids |-> Grown(cache[id], CacheTtl + 1)]
  /\ guard' = [g \in Guards |-> IF guard[g].step = "idle" THEN guard[g]
                                ELSE [guard[g] EXCEPT !.age = @ + 1]]
  /\ gone' = [id \in Ids |-> IF id \in rows THEN gone[id]
                             ELSE Grown(gone[id], Forever)]
  /\ closed' = IF status = "active" THEN closed ELSE Grown(closed, Forever)
  /\ UNCHANGED <<store, login, admin, settings, torn>>

Next ==
  \/ \E p \in Logins :
       \/ \E f \in Fingerprints : LoginStart(p, f)
       \/ LoginFind(p) \/ LoginSelect(p) \/ LoginWrite(p) \/ LoginPolicy(p)
       \/ LoginEvict(p) \/ LoginInvalidate(p) \/ LoginDone(p) \/ LoginFails(p)
  \/ \E g \in Guards :
       \/ \E id \in tokens : GuardStart(g, id)
       \/ GuardUser(g) \/ GuardDevice(g) \/ GuardSet(g)
  \/ \E a \in Admins :
       \/ \E id \in Ids : RemoveDevice(a, id)
       \/ RemoveInvalidate(a)
       \/ \E op \in AllOps : AdminStart(a, op)
       \/ AdminStatus(a) \/ AdminDevices(a) \/ AdminInvalidate(a)
  \/ \E id \in Ids : ForceOffline(id)
  \/ Crash
  \/ Tick

Spec == Init /\ [][Next]_vars
-----------------------------------------------------------------------------
Quiet ==
  /\ \A p \in Logins : login[p].step = "idle"
  /\ \A g \in Guards : guard[g].step = "idle"
  /\ \A a \in Admins : admin[a].step = "idle"

Allowed == IF policy = "single" THEN 1 ELSE MaxDevices

\* Logins that ran at the same time leave no more devices than the policy
\* allows, although each judges rows read before the deletions of the others;
\* what a login that died left behind lasts until the next login.
AtMostAllowed == (Quiet /\ ~torn) => Cardinality(rows) <= Allowed

\* auth-cache.service.ts: whatever the guards in flight read, a removed device
\* and a closed account are refused once the lifetime of the cache (and of
\* one guard) has passed.
RefusedAfterTtl ==
  \A id \in Ids : Cached(id) =>
    /\ id \notin rows => gone[id] <= CacheTtl + Latency
    /\ status # "active" => closed <= CacheTtl + Latency
-----------------------------------------------------------------------------
(* What comments promise and the code does not keep. *)

\* admin-message.service.ts, header of forceOfflineDevice: the token is void
\* at once.  The cache is not invalidated.
ForcedIsRefused == Quiet => \A id \in Ids : Cached(id) => id \in rows

\* auth.service.ts, header of applySessionPolicy: "single" drops the other
\* devices.  Two logins at the same time drop each other.
SomeoneStaysLoggedIn == (Quiet /\ tokens # {} /\ ~torn) => rows # {}
=============================================================================
