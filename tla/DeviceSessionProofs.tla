-------------------------- MODULE DeviceSessionProofs --------------------------
(***************************************************************************)
(* Proofs about device rows and the authentication cache, for any number   *)
(* of devices, logins, requests and administrators.                        *)
(*                                                                         *)
(* The limit: logins delete rows one at a time from a list read earlier,   *)
(* so the bound holds of the rows no login has condemned yet, from the     *)
(* moment no login stands between writing its row and reading the others.  *)
(* The cache: an entry is at most as much younger than the facts behind it *)
(* as a guard takes from its first read to its last step.                  *)
(***************************************************************************)
EXTENDS DeviceSession, FiniteSetTheorems, TLAPS

LEMMA Constants ==
  /\ MaxIds \in Nat /\ NoId \notin Ids
  /\ CacheTtl \in Nat /\ Latency \in Nat /\ Forever \in Nat
  /\ CacheTtl + 1 \in 0 .. CacheTtl + 1 /\ 0 \in 0 .. CacheTtl + 1
  /\ 0 \in 0 .. Latency /\ 0 \in 0 .. Forever
BY IdsAssumption, TimesAssumption DEF Ids, NoId, Forever

LEMMA SetLoginType ==
  ASSUME TypeOK, NEW p \in Logins, NEW record \in LoginRecord,
         SetLogin(p, record), Named(record)
  PROVE  /\ login' \in [Logins -> LoginRecord]
         /\ \A q \in Logins : Named(login'[q])
         /\ login'[p] = record
         /\ \A q \in Logins : q # p => login'[q] = login[q]
BY DEF SetLogin, TypeOK

LEMMA SetGuardType ==
  ASSUME TypeOK, NEW g \in Guards, NEW record \in GuardRecord,
         SetGuard(g, record)
  PROVE  /\ guard' \in [Guards -> GuardRecord]
         /\ guard'[g] = record
         /\ \A h \in Guards : h # g => guard'[h] = guard[h]
BY DEF SetGuard, TypeOK

LEMMA SetAdminType ==
  ASSUME TypeOK, NEW a \in Admins, NEW record \in AdminRecord,
         SetAdmin(a, record), Ordered(record)
  PROVE  /\ admin' \in [Admins -> AdminRecord]
         /\ \A q \in Admins : Ordered(admin'[q])
BY DEF SetAdmin, TypeOK

LEMMA DeleteType ==
  ASSUME TypeOK, NEW ids, Delete(ids)
  PROVE  /\ rows' \subseteq rows
         /\ gone' \in [Ids -> 0 .. Forever]
         /\ \A id \in Ids : id \notin rows' =>
              gone'[id] = IF id \in rows THEN 0 ELSE gone[id]
BY Constants DEF Delete, TypeOK

LEMMA DropType ==
  ASSUME TypeOK, NEW ids, Drop(ids)
  PROVE  /\ cache' \in [Ids -> 0 .. CacheTtl + 1]
         /\ \A id \in Ids : cache'[id] \in {cache[id], CacheTtl + 1}
BY Constants DEF Drop, TypeOK

\* Records that the steps put into the slots.
LEMMA IdleTypes ==
  /\ IdleLogin \in LoginRecord /\ Named(IdleLogin) /\ IdleGuard \in GuardRecord
  /\ IdleAdmin \in AdminRecord /\ Ordered(IdleAdmin)
BY Constants
DEF IdleLogin, LoginRecord, Named, IdleGuard, GuardRecord, IdleAdmin,
    AdminRecord, Ordered

LEMMA GrownType ==
  ASSUME NEW limit \in Nat, NEW age \in 0 .. limit
  PROVE  Grown(age, limit) \in 0 .. limit /\ Grown(age, limit) <= age + 1
BY DEF Grown

LEMMA InitType == Init => TypeOK
<1> SUFFICES ASSUME Init PROVE TypeOK
  OBVIOUS
<1>1. /\ login \in [Logins -> LoginRecord]
      /\ \A p \in Logins : Named(login[p])
      /\ guard \in [Guards -> GuardRecord]
      /\ admin \in [Admins -> AdminRecord]
      /\ \A a \in Admins : Ordered(admin[a])
  BY IdleTypes DEF Init
<1>2. /\ cache \in [Ids -> 0 .. CacheTtl + 1]
      /\ gone \in [Ids -> 0 .. Forever] /\ closed \in 0 .. Forever
      /\ issued \in 0 .. MaxIds
  BY Constants DEF Init
<1> QED
  BY <1>1, <1>2, ScenariosAssumption DEF Init, TypeOK
-----------------------------------------------------------------------------
LEMMA LoginType ==
  ASSUME TypeOK, NEW p \in Logins,
         \/ \E f \in Fingerprints : LoginStart(p, f)
         \/ LoginFind(p) \/ LoginSelect(p) \/ LoginWrite(p) \/ LoginPolicy(p)
         \/ LoginEvict(p) \/ LoginInvalidate(p) \/ LoginDone(p)
         \/ LoginFails(p)
  PROVE  TypeOK'
<1>0. login[p] \in LoginRecord /\ Named(login[p])
  BY DEF TypeOK
<1>1. ASSUME NEW f \in Fingerprints, LoginStart(p, f) PROVE TypeOK'
  <2> DEFINE record == [IdleLogin EXCEPT !.step = "find", !.print = f]
  <2>1. record \in LoginRecord /\ Named(record)
    BY IdleTypes DEF LoginRecord, IdleLogin, Named
  <2> QED
    BY <1>1, <2>1, SetLoginType
    DEF LoginStart, TypeOK, store, settings, history
<1>2. CASE LoginFind(p)
  <2>1. ASSUME NEW id \in Ids
        PROVE  /\ [login[p] EXCEPT !.step = "select", !.id = id] \in LoginRecord
               /\ Named([login[p] EXCEPT !.step = "select", !.id = id])
    BY <1>0, Constants DEF LoginRecord, Named
  <2>2. /\ [login[p] EXCEPT !.step = "write"] \in LoginRecord
        /\ Named([login[p] EXCEPT !.step = "write"])
    BY <1>0 DEF LoginRecord, Named
  <2>3. /\ login' \in [Logins -> LoginRecord]
        /\ \A q \in Logins : Named(login'[q])
    BY <1>2, <2>1, <2>2, SetLoginType DEF LoginFind, TypeOK
  <2> QED
    BY <1>2, <2>3 DEF LoginFind, TypeOK, store, settings, history
<1>3. CASE LoginSelect(p)
  <2> DEFINE record == [login[p] EXCEPT
        !.step = IF login[p].id \in rows THEN "policy" ELSE "write"]
  <2>1. record \in LoginRecord /\ Named(record)
    BY <1>0, <1>3 DEF LoginRecord, Named, LoginSelect
  <2> QED
    BY <1>3, <2>1, SetLoginType
    DEF LoginSelect, TypeOK, store, settings, history
<1>4. CASE LoginWrite(p)
  <2> DEFINE id == IF login[p].id = NoId THEN issued + 1 ELSE login[p].id
  <2>1. CASE SetLogin(p, IdleLogin) /\ UNCHANGED <<rows, print, issued>>
    BY <1>4, <2>1, SetLoginType, IdleTypes
    DEF LoginWrite, TypeOK, settings, history
  <2>2. CASE /\ id \in Ids /\ \A x \in rows : print[x] # login[p].print
             /\ Insert(id, login[p].print) /\ id \notin rows
             /\ SetLogin(p, [login[p] EXCEPT !.step = "policy", !.id = id])
    <3> HIDE DEF id
    <3>1. /\ [login[p] EXCEPT !.step = "policy", !.id = id] \in LoginRecord
          /\ Named([login[p] EXCEPT !.step = "policy", !.id = id])
      BY <1>0, <2>2, Constants DEF LoginRecord, Named
    <3>2. /\ login' \in [Logins -> LoginRecord]
          /\ \A q \in Logins : Named(login'[q])
      BY <2>2, <3>1, SetLoginType
    <3>3. /\ rows' \subseteq Ids /\ issued' \in 0 .. MaxIds
          /\ print' \in [Ids -> Fingerprints \cup {NoPrint}]
      BY <1>0, <2>2, Constants DEF Insert, TypeOK, LoginRecord, Ids
    <3>4. \A x, y \in rows' : print'[x] = print'[y] => x = y
      BY <2>2 DEF Insert, TypeOK
    <3> QED
      BY <1>4, <3>2, <3>3, <3>4 DEF LoginWrite, TypeOK, settings, history
  <2> QED
    BY <1>4, <2>1, <2>2 DEF LoginWrite
<1>5. CASE LoginPolicy(p)
  <2>1. PICK out \in Excess(rows \ {login[p].id}) :
          SetLogin(p, [login[p] EXCEPT !.step = "evict", !.todo = out])
    BY <1>5 DEF LoginPolicy
  <2>2. out \subseteq rows
    BY DEF Excess
  <2>3. /\ [login[p] EXCEPT !.step = "evict", !.todo = out] \in LoginRecord
        /\ Named([login[p] EXCEPT !.step = "evict", !.todo = out])
    BY <1>0, <1>5, <2>2 DEF LoginRecord, Named, LoginPolicy, TypeOK
  <2> QED
    BY <1>5, <2>1, <2>3, SetLoginType DEF LoginPolicy, TypeOK, store, settings
<1>6. CASE LoginEvict(p)
  <2>1. PICK d \in login[p].todo :
          /\ Delete({d})
          /\ SetLogin(p, [login[p] EXCEPT !.step = "invalidate", !.victim = d,
                                          !.todo = @ \ {d}])
    BY <1>6 DEF LoginEvict
  <2> DEFINE record == [login[p] EXCEPT !.step = "invalidate", !.victim = d,
                                        !.todo = @ \ {d}]
  <2>2. record \in LoginRecord /\ Named(record)
    BY <1>0, <1>6 DEF LoginRecord, Named, LoginEvict
  <2>3. /\ login' \in [Logins -> LoginRecord]
        /\ \A q \in Logins : Named(login'[q])
    BY <2>1, <2>2, SetLoginType
  <2>4. rows' \subseteq rows /\ gone' \in [Ids -> 0 .. Forever]
    BY <2>1, DeleteType
  <2> QED
    BY <1>6, <2>3, <2>4 DEF LoginEvict, TypeOK, settings
<1>7. CASE LoginInvalidate(p)
  <2>1. /\ [login[p] EXCEPT !.step = "evict", !.victim = NoId] \in LoginRecord
        /\ Named([login[p] EXCEPT !.step = "evict", !.victim = NoId])
    BY <1>0, <1>7 DEF LoginRecord, Named, LoginInvalidate
  <2>2. /\ login' \in [Logins -> LoginRecord]
        /\ \A q \in Logins : Named(login'[q])
    BY <1>7, <2>1, SetLoginType DEF LoginInvalidate
  <2>3. cache' \in [Ids -> 0 .. CacheTtl + 1]
    BY <1>7, DropType DEF LoginInvalidate
  <2> QED
    BY <1>7, <2>2, <2>3 DEF LoginInvalidate, TypeOK, store, settings, history
<1>8. CASE LoginDone(p)
  <2>1. login[p].step = "evict" => tokens \cup {login[p].id} \subseteq Ids
    BY <1>0 DEF LoginRecord, Named, TypeOK
  <2> QED
    BY <1>8, <2>1, SetLoginType, IdleTypes
    DEF LoginDone, TypeOK, settings, history
<1>9. CASE LoginFails(p)
  BY <1>9, SetLoginType, IdleTypes DEF LoginFails, TypeOK, store, settings
<1> QED
  BY <1>1, <1>2, <1>3, <1>4, <1>5, <1>6, <1>7, <1>8, <1>9

LEMMA GuardType ==
  ASSUME TypeOK, NEW g \in Guards,
         \/ \E id \in tokens : GuardStart(g, id)
         \/ GuardUser(g) \/ GuardDevice(g) \/ GuardSet(g)
  PROVE  TypeOK'
<1>0. guard[g] \in GuardRecord
  BY DEF TypeOK
<1>1. ASSUME NEW id \in tokens, GuardStart(g, id) PROVE TypeOK'
  <2>1. [IdleGuard EXCEPT !.step = "user", !.id = id] \in GuardRecord
    BY IdleTypes DEF GuardRecord, TypeOK
  <2> QED
    BY <1>1, <2>1, SetGuardType DEF GuardStart, TypeOK, store, settings, history
<1>2. CASE GuardUser(g)
  <2> DEFINE record == IF status = "active"
                       THEN [guard[g] EXCEPT !.step = "device", !.age = 0]
                       ELSE IdleGuard
  <2>1. record \in GuardRecord
    BY <1>0, IdleTypes, Constants DEF GuardRecord
  <2> QED
    BY <1>2, <2>1, SetGuardType DEF GuardUser, TypeOK, store, settings, history
<1>3. CASE GuardDevice(g)
  <2> DEFINE record == IF guard[g].id \in rows
                       THEN [guard[g] EXCEPT !.step = "set"] ELSE IdleGuard
  <2>1. record \in GuardRecord
    BY <1>0, IdleTypes DEF GuardRecord
  <2> QED
    BY <1>3, <2>1, SetGuardType DEF GuardDevice, TypeOK, store, settings, history
<1>4. CASE GuardSet(g)
  <2>1. cache' \in [Ids -> 0 .. CacheTtl + 1]
    BY <1>4, Constants DEF GuardSet, Put, TypeOK
  <2> QED
    BY <1>4, <2>1, SetGuardType, IdleTypes
    DEF GuardSet, TypeOK, store, settings, history
<1> QED
  BY <1>1, <1>2, <1>3, <1>4

LEMMA AdminType ==
  ASSUME TypeOK, NEW a \in Admins,
         \/ \E id \in Ids : RemoveDevice(a, id)
         \/ RemoveInvalidate(a)
         \/ \E op \in AllOps : AdminStart(a, op)
         \/ AdminStatus(a) \/ AdminDevices(a) \/ AdminInvalidate(a)
  PROVE  TypeOK'
<1>0. admin[a] \in AdminRecord /\ Ordered(admin[a])
  BY DEF TypeOK
<1>1. ASSUME NEW id \in Ids, RemoveDevice(a, id) PROVE TypeOK'
  <2>1. [step |-> "invalidate", op |-> "remove", id |-> id] \in AdminRecord
        /\ Ordered([step |-> "invalidate", op |-> "remove", id |-> id])
    BY DEF AdminRecord, Ordered
  <2>2. rows' \subseteq rows /\ gone' \in [Ids -> 0 .. Forever]
    BY <1>1, DeleteType DEF RemoveDevice
  <2>3. /\ admin' \in [Admins -> AdminRecord]
       /\ \A q \in Admins : Ordered(admin'[q])
    BY <1>1, <2>1, SetAdminType DEF RemoveDevice
  <2> QED
    BY <1>1, <2>2, <2>3 DEF RemoveDevice, TypeOK, settings
<1>2. CASE RemoveInvalidate(a) \/ AdminInvalidate(a)
  <2>1. cache' \in [Ids -> 0 .. CacheTtl + 1]
    BY <1>2, DropType DEF RemoveInvalidate, AdminInvalidate
  <2>2. /\ admin' \in [Admins -> AdminRecord]
       /\ \A q \in Admins : Ordered(admin'[q])
    BY <1>2, IdleTypes, SetAdminType DEF RemoveInvalidate, AdminInvalidate
  <2> QED
    BY <1>2, <2>1, <2>2
    DEF RemoveInvalidate, AdminInvalidate, TypeOK, store, settings, history
<1>3. ASSUME NEW op \in AllOps, AdminStart(a, op) PROVE TypeOK'
  <2>1. [step |-> "status", op |-> op, id |-> NoId] \in AdminRecord
        /\ Ordered([step |-> "status", op |-> op, id |-> NoId])
    BY <1>3 DEF AdminStart, AdminRecord, Ordered
  <2>2. /\ admin' \in [Admins -> AdminRecord]
       /\ \A q \in Admins : Ordered(admin'[q])
    BY <1>3, <2>1, SetAdminType DEF AdminStart
  <2> QED
    BY <1>3, <2>2 DEF AdminStart, TypeOK, store, settings, history
<1>4. CASE AdminStatus(a)
  <2> DEFINE record == [admin[a] EXCEPT
        !.step = IF admin[a].op = "enable" THEN "invalidateAll" ELSE "devices"]
  <2>1. record \in AdminRecord /\ Ordered(record)
    BY <1>0 DEF AdminRecord, Ordered
  <2>2. /\ admin' \in [Admins -> AdminRecord]
       /\ \A q \in Admins : Ordered(admin'[q])
    BY <1>4, <2>1, SetAdminType DEF AdminStatus
  <2>3. status' \in {"active", "disabled", "deleted"}
    BY <1>0, <1>4 DEF AdminStatus, TypeOK, Ordered
  <2>4. closed' \in 0 .. Forever
    BY <1>4, Constants DEF AdminStatus, TypeOK
  <2> QED
    BY <1>4, <2>2, <2>3, <2>4 DEF AdminStatus, TypeOK, settings
<1>5. CASE AdminDevices(a)
  <2>1. /\ [admin[a] EXCEPT !.step = "invalidateAll"] \in AdminRecord
        /\ Ordered([admin[a] EXCEPT !.step = "invalidateAll"])
    BY <1>0 DEF AdminRecord, Ordered
  <2>2. rows' \subseteq rows /\ gone' \in [Ids -> 0 .. Forever]
    BY <1>5, DeleteType DEF AdminDevices
  <2>3. /\ admin' \in [Admins -> AdminRecord]
       /\ \A q \in Admins : Ordered(admin'[q])
    BY <1>5, <2>1, SetAdminType DEF AdminDevices
  <2> QED
    BY <1>5, <2>2, <2>3 DEF AdminDevices, TypeOK, settings
<1> QED
  BY <1>1, <1>2, <1>3, <1>4, <1>5

LEMMA TickType == TypeOK /\ Tick => TypeOK'
<1> SUFFICES ASSUME TypeOK, Tick PROVE TypeOK'
  OBVIOUS
<1>1. /\ cache' \in [Ids -> 0 .. CacheTtl + 1]
      /\ gone' \in [Ids -> 0 .. Forever]
      /\ closed' \in 0 .. Forever
  BY GrownType, Constants DEF Tick, TypeOK
<1>2. guard' \in [Guards -> GuardRecord]
  <2>1. ASSUME NEW g \in Guards PROVE guard'[g] \in GuardRecord
    BY <2>1, Constants DEF Tick, TypeOK, GuardRecord
  <2> QED
    BY <2>1 DEF Tick
<1> QED
  BY <1>1, <1>2 DEF Tick, TypeOK, store, settings

LEMMA StepType == TypeOK /\ [Next]_vars => TypeOK'
<1> SUFFICES ASSUME TypeOK, [Next]_vars PROVE TypeOK'
  OBVIOUS
<1>1. ASSUME NEW id \in Ids, ForceOffline(id) PROVE TypeOK'
  <2>1. rows' \subseteq rows /\ gone' \in [Ids -> 0 .. Forever]
    BY <1>1, DeleteType DEF ForceOffline
  <2> QED
    BY <1>1, <2>1 DEF ForceOffline, TypeOK, settings, handlers
<1>2. CASE Crash
  BY <1>2, DropType, IdleTypes DEF Crash, TypeOK, store, settings
<1>3. CASE UNCHANGED vars
  BY <1>3 DEF TypeOK, vars
<1> QED
  BY <1>1, <1>2, <1>3, LoginType, GuardType, AdminType, TickType DEF Next

\* The store keeps the types and the unique key of (user_id, device_id),
\* whatever logins, requests, removals and crashes come between two statements.
THEOREM SessionTypeCorrect == Spec => []TypeOK
BY InitType, StepType, PTL DEF Spec
-----------------------------------------------------------------------------
\* How much older than an observation the fact may be that refutes it: a guard
\* about to fill the cache, and an entry of the cache.
Fresh ==
  /\ \A g \in Guards :
       /\ (guard[g].step \in {"device", "set"} /\ status # "active") =>
            closed <= guard[g].age
       /\ \A id \in Ids :
            (guard[g].step = "set" /\ guard[g].id = id /\ id \notin rows) =>
              gone[id] <= guard[g].age
  /\ \A id \in Ids : Cached(id) =>
       /\ id \notin rows => gone[id] <= cache[id] + Latency
       /\ status # "active" => closed <= cache[id] + Latency

LEMMA InitFresh == Init => Fresh
BY Constants DEF Init, Fresh, Cached, IdleGuard

\* Steps that only add facts: no new observation, and what turns false turns
\* false now.
LEMMA FactsAdded ==
  ASSUME TypeOK, Fresh,
         \A g \in Guards : guard'[g] \in {guard[g], IdleGuard},
         \A id \in Ids : cache'[id] \in {cache[id], CacheTtl + 1},
         \A id \in Ids : id \notin rows' =>
           gone'[id] = IF id \in rows THEN 0 ELSE gone[id],
         status' # "active" =>
           closed' = IF status = "active" THEN 0 ELSE closed
  PROVE  Fresh'
<1>0. \A id \in Ids : cache[id] \in Nat
  BY Constants DEF TypeOK
<1>1. ASSUME NEW g \in Guards
      PROVE  /\ guard'[g].step \in {"device", "set"} => guard'[g] = guard[g]
             /\ guard[g].age \in Nat
  BY Constants DEF IdleGuard, TypeOK, GuardRecord
<1>2. ASSUME NEW g \in Guards, guard'[g].step \in {"device", "set"},
             status' # "active"
      PROVE  closed' <= guard'[g].age
  BY <1>1, <1>2 DEF Fresh
<1>3. ASSUME NEW g \in Guards, NEW id \in Ids, guard'[g].step = "set",
             guard'[g].id = id, id \notin rows'
      PROVE  gone'[id] <= guard'[g].age
  BY <1>1, <1>3 DEF Fresh
<1>4. ASSUME NEW id \in Ids, Cached(id)'
      PROVE  cache'[id] = cache[id] /\ Cached(id)
  BY <1>4, Constants DEF Cached
<1>5. ASSUME NEW id \in Ids, Cached(id)', id \notin rows'
      PROVE  gone'[id] <= cache'[id] + Latency
  BY <1>0, <1>4, <1>5, Constants DEF Fresh
<1>6. ASSUME NEW id \in Ids, Cached(id)', status' # "active"
      PROVE  closed' <= cache'[id] + Latency
  BY <1>0, <1>4, <1>6, Constants DEF Fresh
<1> QED
  BY <1>2, <1>3, <1>5, <1>6 DEF Fresh

LEMMA LoginFresh ==
  ASSUME TypeOK, Fresh, NEW p \in Logins,
         \/ \E f \in Fingerprints : LoginStart(p, f)
         \/ LoginFind(p) \/ LoginSelect(p) \/ LoginWrite(p) \/ LoginPolicy(p)
         \/ LoginEvict(p) \/ LoginInvalidate(p) \/ LoginDone(p)
         \/ LoginFails(p)
  PROVE  Fresh'
<1>1. CASE LoginWrite(p)
  <2>1. rows \subseteq rows' /\ UNCHANGED <<gone, closed, status, cache, guard>>
    BY <1>1 DEF LoginWrite, Insert, settings, history
  <2> QED
    BY <2>1, FactsAdded
<1>2. CASE LoginEvict(p)
  <2>1. /\ \A id \in Ids : id \notin rows' =>
             gone'[id] = IF id \in rows THEN 0 ELSE gone[id]
        /\ UNCHANGED <<closed, status, cache, guard>>
    BY <1>2, DeleteType DEF LoginEvict, settings
  <2> QED
    BY <2>1, FactsAdded
<1>3. CASE LoginInvalidate(p)
  <2>1. /\ \A id \in Ids : cache'[id] \in {cache[id], CacheTtl + 1}
        /\ UNCHANGED <<rows, gone, closed, status, guard>>
    BY <1>3, DropType DEF LoginInvalidate, store, settings, history
  <2> QED
    BY <2>1, FactsAdded
<1>4. CASE \/ \E f \in Fingerprints : LoginStart(p, f)
           \/ LoginFind(p) \/ LoginSelect(p) \/ LoginPolicy(p) \/ LoginDone(p)
           \/ LoginFails(p)
  <2>1. UNCHANGED <<rows, gone, closed, status, cache, guard>>
    BY <1>4
    DEF LoginStart, LoginFind, LoginSelect, LoginPolicy, LoginDone, LoginFails,
        store, settings, history
  <2> QED
    BY <2>1, FactsAdded
<1> QED
  BY <1>1, <1>2, <1>3, <1>4

LEMMA GuardFresh ==
  ASSUME TypeOK, Fresh, NEW g \in Guards,
         \/ \E id \in tokens : GuardStart(g, id)
         \/ GuardUser(g) \/ GuardDevice(g) \/ GuardSet(g)
  PROVE  Fresh'
<1>0. guard[g] \in GuardRecord /\ \A h \in Guards : guard[h].age \in Nat
  BY Constants DEF TypeOK, GuardRecord
<1>1. CASE (\E id \in tokens : GuardStart(g, id)) \/ GuardUser(g)
  <2>1. /\ \A h \in Guards : h # g => guard'[h] = guard[h]
        /\ guard'[g].step # "set"
        /\ guard'[g].step = "device" => status = "active"
    <3>1. CASE \E id \in tokens : GuardStart(g, id)
      BY <3>1 DEF GuardStart, SetGuard, IdleGuard, TypeOK
    <3>2. CASE GuardUser(g)
      <4> DEFINE record == IF status = "active"
                           THEN [guard[g] EXCEPT !.step = "device", !.age = 0]
                           ELSE IdleGuard
      <4>1. /\ record.step # "set"
            /\ record.step = "device" => status = "active"
        BY <1>0 DEF IdleGuard, GuardRecord
      <4>2. SetGuard(g, record)
        BY <3>2 DEF GuardUser
      <4> QED
        BY <4>1, <4>2 DEF SetGuard, TypeOK
    <3> QED
      BY <1>1, <3>1, <3>2
  <2>2. UNCHANGED <<rows, gone, closed, status, cache>>
    BY <1>1 DEF GuardStart, GuardUser, store, history
  <2> QED
    BY <2>1, <2>2 DEF Fresh, Cached
<1>2. CASE GuardDevice(g)
  <2>1. /\ \A h \in Guards : h # g => guard'[h] = guard[h]
        /\ \/ guard'[g] = IdleGuard
           \/ /\ guard[g].step = "device" /\ guard[g].id \in rows
              /\ guard'[g].id = guard[g].id /\ guard'[g].age = guard[g].age
        /\ UNCHANGED <<rows, gone, closed, status, cache>>
    BY <1>0, <1>2
    DEF GuardDevice, SetGuard, TypeOK, GuardRecord, store, history
  <2> QED
    BY <2>1 DEF Fresh, Cached, IdleGuard
<1>3. CASE GuardSet(g)
  <2>1. /\ \A h \in Guards : guard'[h] \in {guard[h], IdleGuard}
        /\ UNCHANGED <<rows, gone, closed, status>>
        /\ guard[g].step = "set"
    BY <1>3 DEF GuardSet, SetGuard, TypeOK, store, history
  <2>2. guard[g].age \in 0 .. Latency
    BY <1>0 DEF GuardRecord
  <2>3. ASSUME NEW h \in Guards, guard'[h].step \in {"device", "set"}
        PROVE  guard'[h] = guard[h]
    BY <2>1, <2>3 DEF IdleGuard
  <2>4. ASSUME NEW id \in Ids
        PROVE  cache'[id] = IF id = guard[g].id THEN 0 ELSE cache[id]
    BY <1>3 DEF GuardSet, Put, TypeOK
  <2>5. ASSUME NEW id \in Ids, id = guard[g].id
        PROVE  /\ id \notin rows => gone[id] <= Latency
               /\ status # "active" => closed <= Latency
    BY <2>1, <2>2, <2>5, Constants DEF Fresh, TypeOK
  <2>6. ASSUME NEW id \in Ids, Cached(id)'
        PROVE  /\ id \notin rows' => gone'[id] <= cache'[id] + Latency
               /\ status' # "active" => closed' <= cache'[id] + Latency
    <3>1. CASE id = guard[g].id
      BY <2>1, <2>4, <2>5, <3>1, Constants
    <3>2. CASE id # guard[g].id
      BY <2>1, <2>4, <2>6, <3>2 DEF Fresh, Cached
    <3> QED
      BY <3>1, <3>2
  <2> QED
    BY <2>1, <2>3, <2>6 DEF Fresh
<1> QED
  BY <1>1, <1>2, <1>3

LEMMA AdminFresh ==
  ASSUME TypeOK, Fresh, NEW a \in Admins,
         \/ \E id \in Ids : RemoveDevice(a, id)
         \/ RemoveInvalidate(a)
         \/ \E op \in AllOps : AdminStart(a, op)
         \/ AdminStatus(a) \/ AdminDevices(a) \/ AdminInvalidate(a)
  PROVE  Fresh'
<1>1. CASE (\E id \in Ids : RemoveDevice(a, id)) \/ AdminDevices(a)
  <2>1. /\ \A id \in Ids : id \notin rows' =>
             gone'[id] = IF id \in rows THEN 0 ELSE gone[id]
        /\ UNCHANGED <<closed, status, cache, guard>>
    BY <1>1, DeleteType DEF RemoveDevice, AdminDevices, settings
  <2> QED
    BY <2>1, FactsAdded
<1>2. CASE RemoveInvalidate(a) \/ AdminInvalidate(a)
  <2>1. /\ \A id \in Ids : cache'[id] \in {cache[id], CacheTtl + 1}
        /\ UNCHANGED <<rows, gone, closed, status, guard>>
    BY <1>2, DropType DEF RemoveInvalidate, AdminInvalidate, store, history
  <2> QED
    BY <2>1, FactsAdded
<1>3. CASE \E op \in AllOps : AdminStart(a, op)
  <2>1. UNCHANGED <<rows, gone, closed, status, cache, guard>>
    BY <1>3 DEF AdminStart, store, history
  <2> QED
    BY <2>1, FactsAdded
<1>4. CASE AdminStatus(a)
  <2>1. /\ UNCHANGED <<rows, gone, cache, guard>>
        /\ status' # "active" =>
             closed' = IF status = "active" THEN 0 ELSE closed
    BY <1>4 DEF AdminStatus
  <2> QED
    BY <2>1, FactsAdded
<1> QED
  BY <1>1, <1>2, <1>3, <1>4

LEMMA TickFresh == TypeOK /\ Fresh /\ Tick => Fresh'
<1> SUFFICES ASSUME TypeOK, Fresh, Tick PROVE Fresh'
  OBVIOUS
<1>0. UNCHANGED <<rows, status>>
  BY DEF Tick, store
<1>1. /\ \A id \in Ids : gone[id] \in Nat /\ gone'[id] \in Nat
      /\ \A id \in Ids : gone'[id] <= gone[id] + 1
      /\ closed \in Nat /\ closed' \in Nat /\ closed' <= closed + 1
  BY Constants, GrownType DEF Tick, TypeOK
<1>2. ASSUME NEW g \in Guards, guard'[g].step \in {"device", "set"}
      PROVE  /\ guard[g].step = guard'[g].step /\ guard[g].id = guard'[g].id
             /\ guard[g].age \in Nat /\ guard'[g].age = guard[g].age + 1
  BY <1>2, Constants DEF Tick, TypeOK, GuardRecord
<1>3. ASSUME NEW id \in Ids, Cached(id)'
      PROVE  /\ Cached(id) /\ cache[id] \in Nat
             /\ cache'[id] = cache[id] + 1
  BY <1>3, Constants DEF Tick, TypeOK, Cached, Grown
<1>4. ASSUME NEW g \in Guards, guard'[g].step \in {"device", "set"},
             status' # "active"
      PROVE  closed' <= guard'[g].age
  BY <1>0, <1>1, <1>2, <1>4 DEF Fresh
<1>5. ASSUME NEW g \in Guards, NEW id \in Ids, guard'[g].step = "set",
             guard'[g].id = id, id \notin rows'
      PROVE  gone'[id] <= guard'[g].age
  BY <1>0, <1>1, <1>2, <1>5 DEF Fresh
<1>6. ASSUME NEW id \in Ids, Cached(id)', id \notin rows'
      PROVE  gone'[id] <= cache'[id] + Latency
  BY <1>0, <1>1, <1>3, <1>6, Constants DEF Fresh
<1>7. ASSUME NEW id \in Ids, Cached(id)', status' # "active"
      PROVE  closed' <= cache'[id] + Latency
  BY <1>0, <1>1, <1>3, <1>7, Constants DEF Fresh
<1> QED
  BY <1>4, <1>5, <1>6, <1>7 DEF Fresh

LEMMA StepFresh == TypeOK /\ Fresh /\ [Next]_vars => Fresh'
<1> SUFFICES ASSUME TypeOK, Fresh, [Next]_vars PROVE Fresh'
  OBVIOUS
<1>1. ASSUME NEW id \in Ids, ForceOffline(id) PROVE Fresh'
  <2>1. /\ \A x \in Ids : x \notin rows' =>
             gone'[x] = IF x \in rows THEN 0 ELSE gone[x]
        /\ UNCHANGED <<closed, status, cache, guard>>
    BY <1>1, DeleteType DEF ForceOffline, handlers
  <2> QED
    BY <2>1, FactsAdded
<1>2. CASE Crash
  <2>1. /\ \A g \in Guards : guard'[g] = IdleGuard
        /\ \A id \in Ids : cache'[id] \in {cache[id], CacheTtl + 1}
        /\ UNCHANGED <<rows, gone, closed, status>>
    BY <1>2, DropType DEF Crash, store
  <2> QED
    BY <2>1, FactsAdded
<1>3. CASE UNCHANGED vars
  BY <1>3 DEF Fresh, Cached, vars
<1> QED
  BY <1>1, <1>2, <1>3, LoginFresh, GuardFresh, AdminFresh, TickFresh DEF Next

\* A token whose device was removed, or whose account was closed, is refused
\* at the latest a cache lifetime and one guard later, however the guard's
\* reads and its write to the cache interleave with the removal and its
\* invalidation.
THEOREM RefusalCorrect == Spec => []RefusedAfterTtl
<1>1. TypeOK /\ Fresh => RefusedAfterTtl
  <2> SUFFICES ASSUME TypeOK, Fresh, NEW id \in Ids, Cached(id)
               PROVE  /\ id \notin rows => gone[id] <= CacheTtl + Latency
                      /\ status # "active" => closed <= CacheTtl + Latency
    BY DEF RefusedAfterTtl
  <2>1. cache[id] \in 0 .. CacheTtl + 1 /\ cache[id] <= CacheTtl
    BY DEF TypeOK, Cached
  <2>2. gone[id] \in 0 .. Forever /\ closed \in 0 .. Forever
    BY DEF TypeOK
  <2> QED
    BY <2>1, <2>2, Constants DEF Fresh
<1> QED
  BY <1>1, InitType, InitFresh, StepType, StepFresh, PTL DEF Spec
-----------------------------------------------------------------------------
\* Rows that no login is about to delete.
Kept == {id \in rows : \A p \in Logins : id \notin login[p].todo}

\* Once a login has applied the policy, and while none is about to, the limit
\* holds of the rows that will stay.
Bounded ==
  /\ \A p \in Logins :
       login[p].step \notin {"evict", "invalidate"} => login[p].todo = {}
  /\ (~torn /\ \A p \in Logins : login[p].step # "policy") =>
       Cardinality(Kept) <= Allowed

LEMMA RowsFinite ==
  ASSUME NEW S \in SUBSET Ids
  PROVE  IsFiniteSet(S) /\ Cardinality(S) \in Nat
<1>1. IsFiniteSet(Ids)
  BY Constants, FS_Interval DEF Ids
<1>2. IsFiniteSet(S)
  BY <1>1, FS_Subset
<1> QED
  BY <1>2, FS_CardinalityType

LEMMA AllowedType == policy \in Policies => Allowed \in Nat
BY LimitAssumption DEF Allowed

LEMMA InitBounded == Init => Bounded
<1> SUFFICES ASSUME Init PROVE Bounded
  OBVIOUS
<1>1. Kept = {} /\ Cardinality({}) = 0
  BY FS_EmptySet DEF Init, Kept
<1>2. 0 <= Allowed
  BY AllowedType DEF Init
<1> QED
  BY <1>1, <1>2 DEF Init, Bounded, IdleLogin

\* Steps that insert no row and condemn none.
LEMMA NothingAdded ==
  ASSUME TypeOK, Bounded, rows' \subseteq rows, policy' = policy,
         torn' \/ torn' = torn,
         \A p \in Logins :
           /\ login'[p].step \notin {"evict", "invalidate"} =>
                login'[p].todo = {}
           /\ login[p].step = "policy" => torn' \/ login'[p].step = "policy"
           /\ \A id \in login[p].todo :
                torn' \/ id \notin rows' \/ id \in login'[p].todo
  PROVE  Bounded'
<1> SUFFICES ASSUME torn' = FALSE,
                    \A p \in Logins : login'[p].step # "policy"
             PROVE  Cardinality(Kept)' <= Allowed'
  BY DEF Bounded, TypeOK
<1>1. Cardinality(Kept) <= Allowed
  BY DEF Bounded
<1>2. Kept' \subseteq Kept
  BY DEF Kept
<1>3. Cardinality(Kept') <= Cardinality(Kept)
  <2>1. Kept \subseteq Ids
    BY DEF Kept, TypeOK
  <2> QED
    BY <1>2, <2>1, RowsFinite, FS_Subset
<1>4. Cardinality(Kept) \in Nat /\ Cardinality(Kept') \in Nat
  <2>1. Kept \subseteq Ids /\ Kept' \subseteq Ids
    BY <1>2 DEF Kept, TypeOK
  <2> QED
    BY <2>1, RowsFinite
<1>5. Allowed' = Allowed /\ Allowed \in Nat
  BY AllowedType DEF Allowed, TypeOK
<1> QED
  BY <1>1, <1>3, <1>4, <1>5

\* A login that reads the other devices leaves room for its own.
LEMMA PolicyBounded ==
  ASSUME TypeOK, Bounded, NEW p \in Logins, LoginPolicy(p)
  PROVE  Bounded'
<1> DEFINE others == rows \ {login[p].id}
<1>1. PICK out \in Excess(others) :
        SetLogin(p, [login[p] EXCEPT !.step = "evict", !.todo = out])
  BY DEF LoginPolicy
<1>2. /\ login'[p].step = "evict" /\ login'[p].todo = out
      /\ \A q \in Logins : q # p => login'[q] = login[q]
      /\ rows' = rows /\ policy' = policy
  BY <1>1 DEF SetLogin, TypeOK, LoginRecord, LoginPolicy, store, settings
<1>3. \A q \in Logins :
        login'[q].step \notin {"evict", "invalidate"} => login'[q].todo = {}
  BY <1>2 DEF Bounded
<1>4. /\ others \ out \subseteq Ids /\ others \subseteq Ids
      /\ IsFiniteSet(others \ out)
  <2>1. others \ out \subseteq Ids /\ others \subseteq Ids
    BY DEF TypeOK
  <2> QED
    BY <2>1, RowsFinite
<1>5. Cardinality(others \ out) <= Allowed - 1
  <2>1. CASE policy = "single"
    <3>1. others \ out = {}
      BY <1>1, <2>1 DEF Excess
    <3> QED
      BY <2>1, <3>1, FS_EmptySet DEF Allowed
  <2>2. CASE policy # "single"
    <3>1. Cardinality(others \ out) =
            IF Cardinality(others) > MaxDevices - 1
            THEN MaxDevices - 1 ELSE Cardinality(others)
      BY <1>1, <2>2 DEF Excess
    <3>2. Cardinality(others) \in Nat
      BY <1>4, RowsFinite
    <3> QED
      BY <2>2, <3>1, <3>2, LimitAssumption DEF Allowed
  <2> QED
    BY <2>1, <2>2
<1>6. Kept' \subseteq (others \ out) \cup {login[p].id}
  BY <1>2 DEF Kept
<1>7. /\ IsFiniteSet((others \ out) \cup {login[p].id})
      /\ Cardinality((others \ out) \cup {login[p].id})
           = Cardinality(others \ out) + 1
  <2>1. login[p].id \notin others \ out
    OBVIOUS
  <2> QED
    BY <1>4, <2>1, FS_AddElement
<1>8. Cardinality(Kept') <= Cardinality((others \ out) \cup {login[p].id})
  BY <1>6, <1>7, FS_Subset
<1>9. Cardinality(Kept') \in Nat /\ Cardinality(others \ out) \in Nat
  <2>1. Kept' \subseteq Ids
    BY <1>2 DEF Kept, TypeOK
  <2> QED
    BY <1>4, <2>1, RowsFinite
<1>10. Allowed \in Nat /\ Allowed' = Allowed
  BY <1>2, AllowedType DEF Allowed, TypeOK
<1>11. Cardinality(Kept') <= Allowed'
  BY <1>5, <1>7, <1>8, <1>9, <1>10
<1> QED
  BY <1>3, <1>11 DEF Bounded

LEMMA LoginBounded ==
  ASSUME TypeOK, Bounded, NEW p \in Logins,
         \/ \E f \in Fingerprints : LoginStart(p, f)
         \/ LoginFind(p) \/ LoginSelect(p) \/ LoginWrite(p) \/ LoginPolicy(p)
         \/ LoginEvict(p) \/ LoginInvalidate(p) \/ LoginDone(p)
         \/ LoginFails(p)
  PROVE  Bounded'
<1>0. /\ login[p] \in LoginRecord
      /\ login[p].step \notin {"evict", "invalidate"} => login[p].todo = {}
  BY DEF TypeOK, Bounded
<1>1. CASE LoginPolicy(p)
  BY <1>1, PolicyBounded
<1>2. CASE LoginFails(p)
  <2>1. /\ torn' = TRUE /\ UNCHANGED <<rows, policy>>
        /\ login'[p] = IdleLogin
        /\ \A q \in Logins : q # p => login'[q] = login[q]
    BY <1>2 DEF LoginFails, SetLogin, TypeOK, store, settings
  <2> QED
    BY <2>1 DEF Bounded, IdleLogin
<1>3. CASE LoginWrite(p)
  <2>1. /\ \A q \in Logins : q # p => login'[q] = login[q]
        /\ login[p].step = "write"
        /\ UNCHANGED <<policy, torn>>
    BY <1>3 DEF LoginWrite, SetLogin, TypeOK, settings, history
  <2>2. CASE SetLogin(p, IdleLogin) /\ rows' = rows
    <3>1. login'[p] = IdleLogin
      BY <2>2 DEF SetLogin, TypeOK
    <3> QED
      BY <1>0, <2>1, <2>2, <3>1, NothingAdded DEF Bounded, IdleLogin
  <2>3. ASSUME NEW id,
               SetLogin(p, [login[p] EXCEPT !.step = "policy", !.id = id])
        PROVE  Bounded'
    <3>1. login'[p].step = "policy" /\ login'[p].todo = {}
      BY <1>0, <2>1, <2>3 DEF SetLogin, TypeOK, LoginRecord
    <3> QED
      BY <2>1, <3>1 DEF Bounded
  <2> QED
    BY <1>3, <2>2, <2>3 DEF LoginWrite
<1>4. CASE LoginEvict(p)
  <2>1. PICK d \in login[p].todo :
          /\ Delete({d})
          /\ SetLogin(p, [login[p] EXCEPT !.step = "invalidate", !.victim = d,
                                          !.todo = @ \ {d}])
    BY <1>4 DEF LoginEvict
  <2>2. /\ login'[p].step = "invalidate" /\ login'[p].todo = login[p].todo \ {d}
        /\ \A q \in Logins : q # p => login'[q] = login[q]
    BY <1>0, <2>1 DEF SetLogin, TypeOK, LoginRecord
  <2>3. rows' = rows \ {d} /\ UNCHANGED <<policy, torn>>
    BY <1>4, <2>1 DEF LoginEvict, Delete, settings
  <2>4. login[p].step = "evict"
    BY <1>4 DEF LoginEvict
  <2> QED
    BY <2>2, <2>3, <2>4, NothingAdded DEF Bounded
<1>5. CASE \/ \E f \in Fingerprints : LoginStart(p, f)
           \/ LoginFind(p) \/ LoginSelect(p) \/ LoginInvalidate(p)
           \/ LoginDone(p)
  <2>1. UNCHANGED <<rows, policy, torn>>
    BY <1>5
    DEF LoginStart, LoginFind, LoginSelect, LoginInvalidate, LoginDone, store,
        settings, history
  <2>2. \A q \in Logins : q # p => login'[q] = login[q]
    BY <1>5
    DEF LoginStart, LoginFind, LoginSelect, LoginInvalidate, LoginDone,
        SetLogin, TypeOK
  <2>3. /\ login[p].step # "policy" /\ login'[p].todo = login[p].todo
        /\ login'[p].step \notin {"evict", "invalidate"} => login'[p].todo = {}
    <3>1. CASE \E f \in Fingerprints : LoginStart(p, f)
      BY <1>0, <3>1 DEF LoginStart, SetLogin, TypeOK, IdleLogin
    <3>2. CASE LoginFind(p)
      <4>1. ASSUME NEW id,
                   SetLogin(p, [login[p] EXCEPT !.step = "select", !.id = id])
            PROVE  /\ login'[p].step = "select"
                   /\ login'[p].todo = login[p].todo
        BY <1>0, <4>1 DEF SetLogin, TypeOK, LoginRecord
      <4>2. ASSUME SetLogin(p, [login[p] EXCEPT !.step = "write"])
            PROVE  /\ login'[p].step = "write"
                   /\ login'[p].todo = login[p].todo
        BY <1>0, <4>2 DEF SetLogin, TypeOK, LoginRecord
      <4> QED
        BY <1>0, <3>2, <4>1, <4>2 DEF LoginFind
    <3>3. CASE LoginSelect(p)
      BY <1>0, <3>3 DEF LoginSelect, SetLogin, TypeOK, LoginRecord
    <3>4. CASE LoginInvalidate(p)
      BY <1>0, <3>4 DEF LoginInvalidate, SetLogin, TypeOK, LoginRecord
    <3>5. CASE LoginDone(p)
      BY <1>0, <3>5 DEF LoginDone, SetLogin, TypeOK, IdleLogin
    <3> QED
      BY <1>5, <3>1, <3>2, <3>3, <3>4, <3>5
  <2> QED
    BY <2>1, <2>2, <2>3, NothingAdded DEF Bounded
<1> QED
  BY <1>1, <1>2, <1>3, <1>4, <1>5

LEMMA StepBounded == TypeOK /\ Bounded /\ [Next]_vars => Bounded'
<1> SUFFICES ASSUME TypeOK, Bounded, [Next]_vars PROVE Bounded'
  OBVIOUS
<1>1. CASE Crash
  <2>1. torn' = TRUE /\ \A p \in Logins : login'[p] = IdleLogin
    BY <1>1 DEF Crash
  <2> QED
    BY <2>1 DEF Bounded, IdleLogin
<1>2. CASE rows' \subseteq rows /\ UNCHANGED <<login, policy, torn>>
  BY <1>2, NothingAdded DEF Bounded
<1>3. ASSUME NEW g \in Guards,
             \/ \E id \in tokens : GuardStart(g, id)
             \/ GuardUser(g) \/ GuardDevice(g) \/ GuardSet(g)
      PROVE  rows' \subseteq rows /\ UNCHANGED <<login, policy, torn>>
  BY <1>3
  DEF GuardStart, GuardUser, GuardDevice, GuardSet, store, settings, history
<1>4. ASSUME NEW a \in Admins,
             \/ \E id \in Ids : RemoveDevice(a, id)
             \/ RemoveInvalidate(a)
             \/ \E op \in AllOps : AdminStart(a, op)
             \/ AdminStatus(a) \/ AdminDevices(a) \/ AdminInvalidate(a)
      PROVE  rows' \subseteq rows /\ UNCHANGED <<login, policy, torn>>
  BY <1>4
  DEF RemoveDevice, RemoveInvalidate, AdminStart, AdminStatus, AdminDevices,
      AdminInvalidate, Delete, store, settings, history
<1>5. ASSUME NEW id \in Ids, ForceOffline(id)
      PROVE  rows' \subseteq rows /\ UNCHANGED <<login, policy, torn>>
  BY <1>5 DEF ForceOffline, Delete, settings, handlers
<1>6. CASE Tick \/ UNCHANGED vars
  <2>1. UNCHANGED <<rows, login, policy, torn>>
    BY <1>6 DEF Tick, vars, store, settings
  <2> QED
    BY <1>2, <2>1
<1> QED
  BY <1>1, <1>2, <1>3, <1>4, <1>5, <1>6, LoginBounded DEF Next

\* When no login is in flight, and none died since the policy was last applied,
\* the account has no more devices than the policy allows: any number of logins
\* may have judged rows that the others were deleting.
THEOREM LimitCorrect == Spec => []AtMostAllowed
<1>1. TypeOK /\ Bounded => AtMostAllowed
  <2> SUFFICES ASSUME TypeOK, Bounded, Quiet, ~torn
               PROVE  Cardinality(rows) <= Allowed
    BY DEF AtMostAllowed
  <2>1. \A p \in Logins : login[p].todo = {} /\ login[p].step # "policy"
    BY DEF Quiet, Bounded
  <2>2. Kept = rows
    BY <2>1 DEF Kept
  <2> QED
    BY <2>1, <2>2 DEF Bounded
<1> QED
  BY <1>1, InitType, InitBounded, StepType, StepBounded, PTL DEF Spec
=============================================================================
