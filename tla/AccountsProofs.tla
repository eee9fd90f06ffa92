--------------------------- MODULE AccountsProofs ---------------------------
(***************************************************************************)
(* Proofs about Accounts for any number of accounts, passwords and         *)
(* requests, and any MaxFails, LockTime and clock.                         *)
(*                                                                         *)
(* A login writes back the count of failures it read, which other logins   *)
(* may have changed since.  The count therefore says little by itself; the *)
(* invariant relates it, in the row and in every login in flight, to the   *)
(* wrong passwords written down (never fewer) and to those no other login  *)
(* came between (never more than the row says).                            *)
(***************************************************************************)
EXTENDS Accounts, TLAPS

\* A login that has compared the password.
Compared(record) == record.step \in {"wrong", "right"}

\* What a request has read is still true of the rows; times are the wrong
\* passwords written down, t is the time.
Fetched(record, rows, times, t) ==
  /\ record.step \in {"insert", "wrong", "right", "change", "reset"} =>
       record.phone \in Phones
  /\ record.step \in {"insert", "change", "reset"} =>
       record.password \in Passwords
  /\ Compared(record) =>
       /\ rows[record.phone].password # None
       /\ record.fails <= times[record.phone]
       /\ record.alone => /\ record.fails = rows[record.phone].fails
                          /\ rows[record.phone].until <= t

Fetches == \A r \in Requests : Fetched(loc[r], account, wrong, now)

Counted ==
  \A p \in Phones : /\ ~Exists(p) => account[p] = NoAccount
                    /\ streak[p] <= account[p].fails
                    /\ account[p].fails <= wrong[p]
                    /\ account[p].until # 0 => wrong[p] = MaxFails

\* Every password a request or an administrator knows opens the account.
Given(p, w, rows, gone) == ~gone[p] => rows[p].password = w

Opens ==
  /\ \A p \in Phones, w \in Passwords :
       <<p, w>> \in reported => Given(p, w, account, replaced)
  /\ \A r \in Requests, p \in Phones, w \in Passwords :
       <<p, w>> \in loc[r].done => Given(p, w, account, replaced)

Inv == TypeOK /\ Fetches /\ Counted /\ Opens

USE PasswordsAssumption, LockAssumption, TimeAssumption

-----------------------------------------------------------------------------
\* The empty records are well typed.
LEMMA EmptyTyped ==
  /\ NoAccount \in Account
  /\ NoLocal \in Local
BY DEF NoAccount, Account, NoLocal, Local, Passwords

\* A request that only changes its own record keeps the invariant if the new
\* record is well typed, true of the rows and reports nothing new.
LEMMA OwnRecord ==
  ASSUME Inv, NEW r \in Requests, NEW record \in Local,
         Goto(r, record),
         UNCHANGED <<account, now, reported, history, ops>>,
         Fetched(record, account, wrong, now),
         record.done \subseteq loc[r].done
  PROVE  Inv'
<1> USE DEF Inv, history
<1>1. loc' \in [Requests -> Local] /\ loc'[r] = record
  BY DEF Goto, TypeOK
<1>2. \A q \in Requests \ {r} : loc'[q] = loc[q]
  BY DEF Goto, TypeOK
<1>3. TypeOK'
  BY <1>1 DEF TypeOK
<1>4. Fetches'
  BY <1>1, <1>2 DEF Fetches, Fetched, Compared
<1>5. Counted'
  BY DEF Counted, Exists
<1>6. Opens'
  BY <1>1, <1>2 DEF Opens, Given
<1> QED
  BY <1>3, <1>4, <1>5, <1>6

\* What is read first: a list of phones, the row of an account.
LEMMA Reads ==
  ASSUME Inv, NEW r \in Requests, NEW p \in Phones,
         \/ \E phones \in (SUBSET Phones) \ {{}} : CreateStart(r, phones)
         \/ CreateFind(r, p)
         \/ \E w \in Passwords : LoginFind(r, p, w)
         \/ \E w \in Chosen : ChangeFind(r, p, w)
         \/ \E w \in Issued : ResetFind(r, p, w)
  PROVE  Inv'
<1> USE DEF Inv
<1>a. /\ loc[r] \in Local /\ account[p] \in Account
      /\ NoLocal \in Local /\ NoLocal.done = {}
  BY EmptyTyped DEF TypeOK, NoLocal
<1>1. ASSUME NEW phones \in SUBSET Phones, CreateStart(r, phones) PROVE Inv'
  <2> DEFINE record == [NoLocal EXCEPT !.step = "next", !.todo = phones]
  <2>1. record \in Local /\ record.done = {} /\ record.step = "next"
    BY <1>a DEF Local
  <2>2. Fetched(record, account, wrong, now)
    BY <2>1 DEF Fetched, Compared
  <2>3. Goto(r, record) /\ UNCHANGED <<account, now, reported, history, ops>>
    BY <1>1 DEF CreateStart, Begin
  <2> HIDE DEF record, Inv
  <2> QED
    BY <2>1, <2>2, <2>3, OwnRecord
<1>2. CASE CreateFind(r, p)
  <2>1. CASE Goto(r, [loc[r] EXCEPT !.todo = @ \ {p}])
    <3> DEFINE record == [loc[r] EXCEPT !.todo = @ \ {p}]
    <3>1. record \in Local /\ record.done = loc[r].done
      BY <1>a DEF Local
    <3>2. Fetched(record, account, wrong, now)
      BY <1>2, <1>a DEF Fetched, Compared, CreateFind, At, Local
    <3>3. UNCHANGED <<account, now, reported, history, ops>>
      BY <1>2 DEF CreateFind
    <3> HIDE DEF record, Inv
    <3> QED
      BY <2>1, <3>1, <3>2, <3>3, OwnRecord DEF record
  <2>2. ASSUME NEW w \in Issued,
               Goto(r, [loc[r] EXCEPT !.todo = @ \ {p}, !.step = "insert",
                                      !.phone = p, !.password = w])
        PROVE  Inv'
    <3> DEFINE record == [loc[r] EXCEPT !.todo = @ \ {p}, !.step = "insert",
                                        !.phone = p, !.password = w]
    <3>1. record \in Local /\ record.done = loc[r].done
      BY <1>a DEF Local, Passwords
    <3>2. record.step = "insert" /\ record.phone = p /\ record.password = w
      BY <1>a DEF Local
    <3>3. Fetched(record, account, wrong, now)
      BY <3>2 DEF Fetched, Compared, Passwords
    <3>4. UNCHANGED <<account, now, reported, history, ops>>
      BY <1>2 DEF CreateFind
    <3> HIDE DEF record, Inv
    <3> QED
      BY <2>2, <3>1, <3>3, <3>4, OwnRecord DEF record
  <2> QED
    BY <1>2, <2>1, <2>2 DEF CreateFind
<1>3. ASSUME NEW w \in Passwords, LoginFind(r, p, w) PROVE Inv'
  <2> DEFINE step == IF w = account[p].password THEN "right" ELSE "wrong"
             record == [NoLocal EXCEPT !.step = step, !.phone = p,
                          !.fails = account[p].fails, !.alone = TRUE]
  <2>1. record \in Local /\ record.done = {}
    BY <1>a DEF NoLocal, Local, Account
  <2>2. /\ record.step \in {"right", "wrong"} /\ record.phone = p
        /\ record.fails = account[p].fails
    BY DEF NoLocal
  <2>3. Exists(p) /\ account[p].until <= now
    <3>1. Exists(p) /\ ~Locked(p)
      BY <1>3 DEF LoginFind
    <3>2. account[p].until \in Int /\ now \in Int
      BY <1>a DEF TypeOK, Account
    <3> QED
      BY <3>1, <3>2 DEF Locked
  <2>4. account[p].fails <= wrong[p]
    BY DEF Counted
  <2>5. Fetched(record, account, wrong, now)
    BY <2>2, <2>3, <2>4 DEF Fetched, Compared, Exists
  <2>6. Goto(r, record) /\ UNCHANGED <<account, now, reported, history, ops>>
    BY <1>3 DEF LoginFind, Begin
  <2> HIDE DEF record, Inv
  <2> QED
    BY <2>1, <2>5, <2>6, OwnRecord
<1>4. ASSUME NEW w \in Chosen, ChangeFind(r, p, w) PROVE Inv'
  <2> DEFINE record == [NoLocal EXCEPT !.step = "change", !.phone = p,
                          !.password = w, !.old = account[p].password]
  <2>1. record \in Local /\ record.done = {}
    BY <1>a DEF NoLocal, Local, Account, Passwords
  <2>2. Fetched(record, account, wrong, now)
    BY DEF Fetched, Compared, NoLocal, Passwords
  <2>3. Goto(r, record) /\ UNCHANGED <<account, now, reported, history, ops>>
    BY <1>4 DEF ChangeFind, Begin
  <2> HIDE DEF record, Inv
  <2> QED
    BY <2>1, <2>2, <2>3, OwnRecord
<1>5. ASSUME NEW w \in Issued, ResetFind(r, p, w) PROVE Inv'
  <2> DEFINE record == [NoLocal EXCEPT !.step = "reset", !.phone = p,
                          !.password = w]
  <2>1. record \in Local /\ record.done = {}
    BY <1>a DEF NoLocal, Local, Passwords
  <2>2. Fetched(record, account, wrong, now)
    BY DEF Fetched, Compared, NoLocal, Passwords
  <2>3. Goto(r, record) /\ UNCHANGED <<account, now, reported, history, ops>>
    BY <1>5 DEF ResetFind, Begin
  <2> HIDE DEF record, Inv
  <2> QED
    BY <2>1, <2>2, <2>3, OwnRecord
<1> QED
  BY <1>1, <1>2, <1>3, <1>4, <1>5

\* A row is added only where there is none: nobody has read it, and nobody knows
\* a password for it that an older row still had.
LEMMA Inserts ==
  ASSUME Inv, NEW r \in Requests, CreateInsert(r)
  PROVE  Inv'
<1> USE DEF Inv
<1> DEFINE p == loc[r].phone
           w == loc[r].password
           row == [NoAccount EXCEPT !.password = w, !.force = TRUE]
           record == [loc[r] EXCEPT !.step = "next", !.done = @ \cup {<<p, w>>}]
<1>1. p \in Phones /\ w \in Passwords /\ loc[r] \in Local
  BY DEF CreateInsert, At, Fetches, Fetched, TypeOK
<1>2. CASE Exists(p)
  <2> DEFINE skipped == [loc[r] EXCEPT !.step = "next"]
  <2>1. skipped \in Local /\ skipped.done = loc[r].done /\ skipped.step = "next"
    BY <1>1 DEF Local
  <2>2. Fetched(skipped, account, wrong, now)
    BY <2>1 DEF Fetched, Compared
  <2>3. /\ Goto(r, skipped)
        /\ UNCHANGED <<account, now, reported, history, ops>>
    BY <1>2 DEF CreateInsert
  <2> HIDE DEF skipped, Inv
  <2> QED
    BY <2>1, <2>2, <2>3, OwnRecord
<1>3. CASE ~Exists(p)
  <2>1. /\ account' = [account EXCEPT ![p] = row]
        /\ Goto(r, record)
        /\ UNCHANGED <<now, reported, history, ops>>
    BY <1>3 DEF CreateInsert
  <2>2. /\ row \in Account
        /\ row.password = w /\ row.fails = 0 /\ row.until = 0
    BY <1>1, EmptyTyped DEF Account, NoAccount
  <2>3. /\ record \in Local
        /\ record.done = loc[r].done \cup {<<p, w>>} /\ record.step = "next"
    <3> DEFINE done == loc[r].done \cup {<<p, w>>}
    <3>1. done \in SUBSET (Phones \X Passwords)
      BY <1>1 DEF Local
    <3> HIDE DEF done
    <3>2. /\ [loc[r] EXCEPT !.step = "next", !.done = done] \in Local
          /\ [loc[r] EXCEPT !.step = "next", !.done = done].done = done
          /\ [loc[r] EXCEPT !.step = "next", !.done = done].step = "next"
      BY <1>1, <3>1 DEF Local
    <3> QED
      BY <3>2 DEF done
  <2> HIDE DEF row, record
  <2>4. /\ account' \in [Phones -> Account] /\ account'[p] = row
        /\ \A x \in Phones \ {p} : account'[x] = account[x]
    BY <1>1, <2>1, <2>2 DEF TypeOK
  <2>5. /\ loc' \in [Requests -> Local] /\ loc'[r] = record
        /\ \A q \in Requests \ {r} : loc'[q] = loc[q]
    BY <2>1, <2>3 DEF TypeOK, Goto
  <2>6. TypeOK'
    BY <2>1, <2>4, <2>5 DEF TypeOK, history
  <2>7. Fetches'
    <3> SUFFICES ASSUME NEW q \in Requests
                 PROVE  Fetched(loc'[q], account', wrong', now')
      BY DEF Fetches
    <3>1. CASE q = r
      BY <2>3, <2>5, <3>1 DEF Fetched, Compared
    <3>2. CASE q # r
      <4>1. Fetched(loc[q], account, wrong, now) /\ loc'[q] = loc[q]
        BY <2>5, <3>2 DEF Fetches
      <4>2. Compared(loc[q]) => loc[q].phone \in Phones \ {p}
        BY <1>3, <4>1 DEF Fetched, Compared, Exists
      <4> QED
        BY <2>1, <2>4, <4>1, <4>2 DEF Fetched, history
    <3> QED
      BY <3>1, <3>2
  <2>8. Counted'
    <3>1. streak[p] <= 0 /\ wrong[p] \in Nat /\ streak[p] \in Nat
      BY <1>1, <1>3 DEF Counted, NoAccount, TypeOK
    <3>2. row.password # None
      BY <1>1, <2>2 DEF Passwords
    <3> QED
      BY <1>1, <2>1, <2>2, <2>4, <3>1, <3>2 DEF Counted, Exists, history
  <2>9. Opens'
    <3>1. \A x \in Phones, v \in Passwords :
            Given(x, v, account, replaced) => Given(x, v, account', replaced')
      <4>1. account[p].password \notin Passwords
        BY <1>3 DEF Exists, Passwords
      <4> QED
        BY <1>1, <2>1, <2>4, <4>1 DEF Given, history
    <3>2. Given(p, w, account', replaced')
      BY <2>2, <2>4 DEF Given
    <3>3. ASSUME NEW q \in Requests, NEW x \in Phones, NEW v \in Passwords,
                 <<x, v>> \in loc'[q].done
          PROVE  Given(x, v, account', replaced')
      <4>1. <<x, v>> \in loc[q].done \/ (x = p /\ v = w)
        BY <2>3, <2>5, <3>3
      <4> HIDE DEF p, w
      <4> QED
        BY <3>1, <3>2, <4>1 DEF Opens
    <3>4. reported' = reported
      BY <2>1
    <3> QED
      BY <3>1, <3>3, <3>4 DEF Opens
  <2> QED
    BY <2>6, <2>7, <2>8, <2>9
<1> QED
  BY <1>2, <1>3

\* The administrator learns what the request already knew.
LEMMA Reports ==
  ASSUME Inv, NEW r \in Requests, CreateReport(r)
  PROVE  Inv'
<1> USE DEF Inv, CreateReport, history
<1>1. /\ loc' \in [Requests -> Local] /\ loc'[r] = NoLocal
      /\ \A q \in Requests \ {r} : loc'[q] = loc[q]
  BY EmptyTyped DEF TypeOK, Goto
<1>2. NoLocal.step = "idle" /\ NoLocal.done = {}
  BY DEF NoLocal
<1>3. TypeOK'
  BY <1>1 DEF TypeOK, Local
<1>4. Fetches'
  BY <1>1, <1>2 DEF Fetches, Fetched, Compared
<1>5. Counted'
  BY DEF Counted, Exists
<1>6. Opens'
  BY <1>1, <1>2 DEF Opens, Given
<1> QED
  BY <1>3, <1>4, <1>5, <1>6

\* A login writes columns of the lock and leaves the password alone.
LEMMA Counts ==
  ASSUME Inv, NEW r \in Requests, Compared(loc[r]),
         NEW columns \in Account, NEW unlocked \in 0 .. MaxFails,
         NEW total \in 0 .. MaxFails,
         Count(r, columns, unlocked, total),
         columns.password = account[loc[r].phone].password,
         wrong[loc[r].phone] <= total,
         columns.fails <= total,
         columns.until # 0 => total = MaxFails,
         columns.until = account[loc[r].phone].until => unlocked <= columns.fails
  PROVE  Inv'
<1> USE DEF Inv
<1> DEFINE p == loc[r].phone
<1>1. p \in Phones /\ Exists(p) /\ account[p] \in Account
  BY DEF Fetches, Fetched, Compared, Exists, TypeOK
<1>2. /\ account' \in [Phones -> Account] /\ account'[p] = columns
      /\ \A x \in Phones \ {p} : account'[x] = account[x]
  BY <1>1 DEF Count, TypeOK
<1>3. /\ wrong' \in [Phones -> 0 .. MaxFails] /\ wrong'[p] = total
      /\ \A x \in Phones \ {p} : wrong'[x] = wrong[x]
  BY <1>1 DEF Count, TypeOK
<1>4. /\ streak' \in [Phones -> 0 .. MaxFails]
      /\ streak'[p] = IF columns.until # account[p].until THEN 0 ELSE unlocked
      /\ \A x \in Phones \ {p} : streak'[x] = streak[x]
  BY <1>1, <1>2 DEF Count, TypeOK
<1>5. /\ loc' \in [Requests -> Local] /\ loc'[r] = NoLocal
      /\ \A q \in Requests \ {r} :
           loc'[q] = [loc[q] EXCEPT !.alone = @ /\ loc[q].phone # p]
  <2>1. ASSUME NEW q \in Requests
        PROVE  [loc[q] EXCEPT !.alone = @ /\ loc[q].phone # p] \in Local
    <3>1. loc[q] \in Local /\ (loc[q].alone /\ loc[q].phone # p) \in BOOLEAN
      BY DEF TypeOK
    <3> QED
      BY <3>1 DEF Local
  <2> QED
    BY <2>1, EmptyTyped DEF Count
<1>6. \A q \in Requests \ {r} :
        /\ loc'[q].step = loc[q].step /\ loc'[q].phone = loc[q].phone
        /\ loc'[q].password = loc[q].password /\ loc'[q].done = loc[q].done
        /\ loc'[q].fails = loc[q].fails
        /\ loc'[q].alone => loc[q].alone /\ loc[q].phone # p
  BY <1>5 DEF TypeOK, Local
<1>7. UNCHANGED <<now, reported, replaced, ops>>
  BY DEF Count
<1>8. NoLocal.step = "idle" /\ NoLocal.done = {}
  BY DEF NoLocal
<1> HIDE DEF p
<1>9. TypeOK'
  BY <1>2, <1>3, <1>4, <1>5, <1>7 DEF TypeOK
<1>10. Fetches'
  <2> SUFFICES ASSUME NEW q \in Requests
               PROVE  Fetched(loc'[q], account', wrong', now')
    BY DEF Fetches
  <2>1. CASE q = r
    BY <1>5, <1>8, <2>1 DEF Fetched, Compared
  <2>2. CASE q # r
    <3>1. Fetched(loc[q], account, wrong, now)
      BY DEF Fetches
    <3>2. /\ loc[q].fails \in Int /\ total \in Int
          /\ \A x \in Phones : wrong[x] \in Int
      BY DEF TypeOK, Local
    <3>3. \A x \in Phones : /\ wrong[x] <= wrong'[x]
                            /\ account'[x].password = account[x].password
      BY <1>1, <1>2, <1>3, <3>2 DEF p
    <3>4. wrong'[loc[q].phone] \in Int \/ loc[q].phone \notin Phones
      BY <1>3
    <3> QED
      BY <1>2, <1>6, <1>7, <2>2, <3>1, <3>2, <3>3, <3>4 DEF Fetched, Compared
  <2> QED
    BY <2>1, <2>2
<1>11. Counted'
  <2>1. /\ columns.password # None
        /\ columns.fails \in Nat /\ streak'[p] <= columns.fails
    BY <1>1, <1>4 DEF Account, Exists, p
  <2> QED
    BY <1>1, <1>2, <1>3, <1>4, <2>1 DEF Counted, Exists
<1>12. Opens'
  <2>1. \A x \in Phones : account'[x].password = account[x].password
    BY <1>1, <1>2 DEF p
  <2> QED
    BY <1>5, <1>6, <1>7, <1>8, <2>1 DEF Opens, Given
<1> QED
  BY <1>9, <1>10, <1>11, <1>12

\* The count a login writes is at most one more than the wrong passwords so far,
\* and reaches MaxFails only if these do; what no other login came between is
\* the count of the row, and a lock it sets was not there before.
LEMMA Logins ==
  ASSUME Inv, NEW r \in Requests, LoginWrong(r) \/ LoginRight(r)
  PROVE  Inv'
<1> USE DEF Inv
<1> DEFINE p == loc[r].phone
           count == loc[r].fails + 1
           total == IF wrong[p] < MaxFails THEN wrong[p] + 1 ELSE wrong[p]
           run == IF loc[r].alone THEN streak[p] + 1 ELSE 0
<1>1. Compared(loc[r])
  BY DEF LoginWrong, LoginRight, At, Compared
<1>2. /\ p \in Phones /\ account[p] \in Account /\ loc[r] \in Local
      /\ wrong[p] \in 0 .. MaxFails /\ streak[p] \in 0 .. MaxFails
      /\ now \in 0 .. MaxTime
  BY <1>1 DEF Fetches, Fetched, Compared, TypeOK
<1>3. /\ loc[r].fails <= wrong[p]
      /\ loc[r].alone => /\ loc[r].fails = account[p].fails
                         /\ account[p].until <= now
      /\ streak[p] <= account[p].fails
      /\ account[p].until # 0 => wrong[p] = MaxFails
  BY <1>1, <1>2 DEF Fetches, Fetched, Counted
<1>4. /\ loc[r].fails \in 0 .. MaxFails - 1
      /\ account[p].fails \in 0 .. MaxFails - 1
      /\ account[p].until \in 0 .. MaxTime + LockTime
  BY <1>2 DEF Local, Account
<1>5. /\ total \in 0 .. MaxFails /\ wrong[p] <= total
      /\ count <= total
      /\ run \in 0 .. MaxFails
  BY <1>2, <1>3, <1>4
<1>6. CASE LoginWrong(r) /\ count >= MaxFails
  <2> DEFINE columns == [account[p] EXCEPT !.fails = 0, !.until = now + LockTime]
  <2>1. Count(r, columns, run, total)
    BY <1>6 DEF LoginWrong, Failed
  <2>2. now + LockTime \in 0 .. MaxTime + LockTime /\ 0 \in 0 .. MaxFails - 1
    BY <1>2
  <2>3. /\ columns \in Account /\ columns.password = account[p].password
        /\ columns.fails = 0 /\ columns.until = now + LockTime
    BY <1>2, <2>2 DEF Account
  <2>4. total = MaxFails
    BY <1>2, <1>4, <1>5, <1>6
  <2>5. columns.until = account[p].until => run <= columns.fails
    BY <1>2, <1>3, <1>4, <2>3
  <2>6. columns.fails <= total /\ wrong[p] <= total /\ total \in 0 .. MaxFails
    BY <1>5, <2>3
  <2> HIDE DEF columns, total, run, Inv
  <2> QED
    BY <1>1, <1>5, <2>1, <2>3, <2>4, <2>5, <2>6, Counts
<1>7. CASE LoginWrong(r) /\ ~(count >= MaxFails)
  <2> DEFINE columns == [account[p] EXCEPT !.fails = count]
  <2>1. Count(r, columns, run, total)
    BY <1>7 DEF LoginWrong, Failed
  <2>2. count \in 0 .. MaxFails - 1
    BY <1>4, <1>7
  <2>3. /\ columns \in Account /\ columns.password = account[p].password
        /\ columns.fails = count /\ columns.until = account[p].until
    BY <1>2, <2>2 DEF Account
  <2>4. columns.until # 0 => total = MaxFails
    BY <1>2, <1>3, <2>3
  <2>5. run <= columns.fails
    BY <1>2, <1>3, <1>4, <2>3
  <2>6. columns.fails <= total /\ wrong[p] <= total /\ total \in 0 .. MaxFails
    BY <1>5, <2>3
  <2> HIDE DEF columns, total, run, Inv
  <2> QED
    BY <1>1, <1>5, <2>1, <2>3, <2>4, <2>5, <2>6, Counts
<1>8. CASE LoginRight(r)
  <2> DEFINE columns == [account[p] EXCEPT !.fails = 0, !.until = 0]
  <2>1. Count(r, columns, 0, wrong[p])
    BY <1>8 DEF LoginRight
  <2>2. 0 \in 0 .. MaxFails - 1 /\ 0 \in 0 .. MaxTime + LockTime
        /\ 0 \in 0 .. MaxFails
    OBVIOUS
  <2>3. /\ columns \in Account /\ columns.password = account[p].password
        /\ columns.fails = 0 /\ columns.until = 0
    BY <1>2, <2>2 DEF Account
  <2>4. 0 <= columns.fails /\ columns.fails <= wrong[p] /\ wrong[p] <= wrong[p]
    BY <1>2, <2>3
  <2> HIDE DEF columns, Inv
  <2> QED
    BY <1>1, <1>2, <2>1, <2>2, <2>3, <2>4, Counts
<1> QED
  BY <1>6, <1>7, <1>8

\* A password is written over a row somebody has read, hence a row that is there.
LEMMA Replaces ==
  ASSUME Inv, NEW r \in Requests, ChangeWrite(r) \/ ResetWrite(r)
  PROVE  Inv'
<1> USE DEF Inv
<1> DEFINE p == loc[r].phone
           w == loc[r].password
<1>1. PICK force \in BOOLEAN : Replace(r, force)
  BY DEF ChangeWrite, ResetWrite
<1>2. p \in Phones /\ w \in Passwords /\ account[p] \in Account
  BY DEF ChangeWrite, ResetWrite, At, Fetches, Fetched, TypeOK
<1>3. /\ account' = [account EXCEPT ![p] =
                       [account[p] EXCEPT !.password = w, !.force = force]]
      /\ replaced' = [replaced EXCEPT ![p] = TRUE]
      /\ Goto(r, NoLocal)
      /\ UNCHANGED <<now, reported, wrong, streak, ops>>
  <2>1. account' = [account EXCEPT ![p].password = w, ![p].force = force]
    BY <1>1 DEF Replace
  <2> QED
    BY <1>1, <1>2, <2>1 DEF Replace, TypeOK, Account
<1>4. /\ account' \in [Phones -> Account]
      /\ account'[p].password = w
      /\ account'[p].fails = account[p].fails
      /\ account'[p].until = account[p].until
      /\ \A x \in Phones \ {p} : account'[x] = account[x]
  BY <1>2, <1>3 DEF TypeOK, Account
<1>5. /\ loc' \in [Requests -> Local] /\ loc'[r] = NoLocal
      /\ \A q \in Requests \ {r} : loc'[q] = loc[q]
      /\ NoLocal.step = "idle" /\ NoLocal.done = {}
  BY <1>3, EmptyTyped DEF TypeOK, Goto, NoLocal
<1>6. TypeOK'
  BY <1>3, <1>4, <1>5 DEF TypeOK
<1>7. w # None
  BY <1>2 DEF Passwords
<1> HIDE DEF p, w
<1>8. Fetches'
  BY <1>2, <1>3, <1>4, <1>5, <1>7 DEF Fetches, Fetched, Compared
<1>9. Counted'
  BY <1>2, <1>3, <1>4, <1>7 DEF Counted, Exists
<1>10. Opens'
  <2>1. \A x \in Phones, v \in Passwords :
          Given(x, v, account, replaced) => Given(x, v, account', replaced')
    BY <1>2, <1>3, <1>4 DEF Given, TypeOK
  <2> QED
    BY <1>3, <1>5, <2>1 DEF Opens
<1> QED
  BY <1>6, <1>8, <1>9, <1>10

\* Time passes, or the process ends; both only forget.
LEMMA Others ==
  ASSUME Inv, Tick \/ Crash \/ UNCHANGED vars
  PROVE  Inv'
<1> USE DEF Inv, history
<1>1. CASE Tick
  <2>1. TypeOK'
    BY <1>1 DEF Tick, TypeOK
  <2>2. \A x \in Phones : account[x].until \in Int
    BY DEF TypeOK, Account
  <2>3. Fetches'
    BY <1>1, <2>2 DEF Tick, Fetches, Fetched, Compared, TypeOK
  <2> QED
    BY <1>1, <2>1, <2>3 DEF Tick, Counted, Exists, Opens, Given
<1>2. CASE Crash
  <2>1. \A r \in Requests : loc'[r] = NoLocal
    BY <1>2 DEF Crash
  <2>2. NoLocal.step = "idle" /\ NoLocal.done = {}
    BY DEF NoLocal
  <2>3. TypeOK'
    BY <1>2, EmptyTyped DEF Crash, TypeOK
  <2>4. Fetches' /\ Opens'
    BY <1>2, <2>1, <2>2 DEF Crash, Fetches, Fetched, Compared, Opens, Given
  <2> QED
    BY <1>2, <2>3, <2>4 DEF Crash, Counted, Exists
<1>3. CASE UNCHANGED vars
  BY <1>3 DEF vars, TypeOK, Fetches, Fetched, Compared, Counted, Exists,
              Opens, Given
<1> QED
  BY <1>1, <1>2, <1>3

\* Nobody has tried a password yet, and nobody has been refused one.
LEMMA InitInv == Init => Inv
<1> SUFFICES ASSUME Init PROVE Inv
  OBVIOUS
<1>1. PICK there \in SUBSET Phones, w \in Issued :
        /\ account = [p \in Phones |-> IF p \in there
             THEN [NoAccount EXCEPT !.password = w, !.force = TRUE]
             ELSE NoAccount]
        /\ reported = there \X {w}
  BY DEF Init
<1>2. [NoAccount EXCEPT !.password = w, !.force = TRUE] \in Account
  BY EmptyTyped DEF Account, Passwords
<1>3. \A p \in Phones :
        /\ account[p] \in Account
        /\ account[p].password = IF p \in there THEN w ELSE None
        /\ account[p].fails = 0 /\ account[p].until = 0
        /\ account[p].password = None => account[p] = NoAccount
  BY <1>1, <1>2, EmptyTyped DEF NoAccount, Passwords
<1>4. TypeOK
  BY <1>1, <1>3, EmptyTyped, ScenariosAssumption DEF Init, TypeOK, Passwords
<1>5. Fetches /\ Opens
  BY <1>1, <1>3
  DEF Init, NoLocal, Fetches, Fetched, Compared, Opens, Given
<1>6. Counted
  BY <1>3 DEF Init, Counted, Exists
<1> QED
  BY <1>4, <1>5, <1>6 DEF Inv

LEMMA StepInv == Inv /\ [Next]_vars => Inv'
<1> SUFFICES ASSUME Inv, [Next]_vars PROVE Inv'
  OBVIOUS
<1>1. CASE UNCHANGED vars \/ Tick \/ Crash
  BY <1>1, Others
<1>2. CASE \E r \in Requests :
             \/ \E phones \in (SUBSET Phones) \ {{}} : CreateStart(r, phones)
             \/ \E p \in Phones : CreateFind(r, p)
             \/ CreateInsert(r) \/ CreateReport(r)
             \/ \E p \in Phones, w \in Passwords : LoginFind(r, p, w)
             \/ LoginWrong(r) \/ LoginRight(r)
             \/ \E p \in Phones, w \in Chosen : ChangeFind(r, p, w)
             \/ \E p \in Phones, w \in Issued : ResetFind(r, p, w)
             \/ ChangeWrite(r) \/ ResetWrite(r)
  BY <1>2, Reads, Inserts, Reports, Logins, Replaces
<1> QED
  BY <1>1, <1>2 DEF Next

\* What the proofs rest on holds in every reachable state.
LEMMA Invariance == Spec => []Inv
BY InitInv, StepInv, PTL DEF Spec

-----------------------------------------------------------------------------
\* Accounts stay well typed; in particular the count of failures never reaches
\* MaxFails, whatever stale counts concurrent logins write back.
THEOREM AccountsTyped == Spec => []TypeOK
<1>1. Inv => TypeOK
  BY DEF Inv
<1> QED
  BY <1>1, Invariance, PTL

\* A password the administrator saw in the answer to a creation or an import
\* opens the account until somebody replaces it: the unique key lets only one of
\* several requests for the same phone report a password.
THEOREM ReportedOpensAlways == Spec => []ReportedOpens
<1>1. Inv => ReportedOpens
  BY DEF Inv, Opens, Given, ReportedOpens
<1> QED
  BY <1>1, Invariance, PTL

\* No account is locked by fewer than MaxFails wrong passwords, and MaxFails in a
\* row that no other login came between do lock it.
THEOREM LocksAfterFailuresAlways == Spec => []LocksAfterFailures
<1>1. Inv => LocksAfterFailures
  <2> SUFFICES ASSUME Inv, NEW p \in Phones
               PROVE  /\ account[p].until # 0 => wrong[p] = MaxFails
                      /\ streak[p] < MaxFails
    BY DEF LocksAfterFailures
  <2>1. /\ streak[p] <= account[p].fails
        /\ account[p].until # 0 => wrong[p] = MaxFails
    BY DEF Inv, Counted
  <2>2. account[p].fails \in 0 .. MaxFails - 1 /\ streak[p] \in Int
    BY DEF Inv, TypeOK, Account
  <2> QED
    BY <2>1, <2>2
<1> QED
  BY <1>1, Invariance, PTL
=============================================================================
