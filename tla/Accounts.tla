------------------------------ MODULE Accounts ------------------------------
(***************************************************************************)
(* Accounts and their passwords: administrators create accounts one by one *)
(* or from a list and reset passwords (account.service.ts), users log in   *)
(* and change theirs (auth.service.ts).                                    *)
(*                                                                         *)
(* An action is one statement with the JavaScript that runs until the next *)
(* statement.  Hashing and verifying a password take long but touch only   *)
(* what the handler holds, so they belong to the statement before them.    *)
(* Sessions, devices and the end of an account are in DeviceSession.       *)
(***************************************************************************)
EXTENDS Integers, FiniteSets

CONSTANTS
  Phones,     \* the unique app_users.phone
  Issued,     \* passwords administrators hand out
  Chosen,     \* passwords users choose
  None,       \* no password
  MaxFails,   \* MAX_LOGIN_FAILS
  LockTime,   \* LOCK_DURATION_MINUTES
  MaxTime,    \* bound: the clock
  Requests,   \* slots for requests in flight
  Scenarios   \* sets of operations that occur together in a behaviour

AllOps == {"create", "login", "change", "reset", "crash"}

ASSUME PasswordsAssumption ==
  Issued \cap Chosen = {} /\ None \notin Issued \cup Chosen
ASSUME LockAssumption == MaxFails \in Nat \ {0} /\ LockTime \in Nat \ {0}
ASSUME TimeAssumption == MaxTime \in Nat
ASSUME ScenariosAssumption == Scenarios \subseteq SUBSET AllOps

Passwords == Issued \cup Chosen

VARIABLES
  account,   \* app_users; no password: there is no row
  now,       \* the clock
  reported,  \* external: the passwords administrators were told
  wrong,     \* history: wrong passwords ever written down, up to MaxFails
  streak,    \* history: the last of these, undisturbed and without a lock
  replaced,  \* history: the first password was replaced
  loc,       \* requests in flight
  ops        \* the operations of this behaviour

history == <<wrong, streak, replaced>>
vars == <<account, now, reported, wrong, streak, replaced, loc, ops>>

\* until: locked_until, 0 if it is NULL.
Account == [password: Passwords \cup {None}, force: BOOLEAN,
            fails: 0 .. MaxFails - 1, until: 0 .. MaxTime + LockTime]
NoAccount == [password |-> None, force |-> FALSE, fails |-> 0, until |-> 0]

\* phone is the account a request works on and password what it will write;
\* todo and done belong to a list of accounts to create, fails and old are
\* what a login and a change have read.  History: alone, no other login has
\* written since this one read.
Local ==
  [step: {"idle", "next", "insert", "wrong", "right", "change", "reset"},
   phone: Phones \cup {None}, password: Passwords \cup {None},
   todo: SUBSET Phones, done: SUBSET (Phones \X Passwords),
   fails: 0 .. MaxFails - 1, old: Passwords \cup {None}, alone: BOOLEAN]
NoLocal ==
  [step |-> "idle", phone |-> None, password |-> None, todo |-> {},
   done |-> {}, fails |-> 0, old |-> None, alone |-> FALSE]

TypeOK ==
  /\ account \in [Phones -> Account]
  /\ now \in 0 .. MaxTime
  /\ reported \subseteq Phones \X Passwords
  /\ wrong \in [Phones -> 0 .. MaxFails]
  /\ streak \in [Phones -> 0 .. MaxFails]
  /\ replaced \in [Phones -> BOOLEAN]
  /\ loc \in [Requests -> Local]
  /\ ops \subseteq AllOps

\* Some accounts are there, as an administrator has left them.
Init ==
  /\ \E there \in SUBSET Phones, w \in Issued :
       /\ account = [p \in Phones |-> IF p \in there
            THEN [NoAccount EXCEPT !.password = w, !.force = TRUE] ELSE NoAccount]
       /\ reported = there \X {w}
  /\ now = 0
  /\ wrong = [p \in Phones |-> 0]
  /\ streak = [p \in Phones |-> 0]
  /\ replaced = [p \in Phones |-> FALSE]
  /\ loc = [r \in Requests |-> NoLocal]
  /\ ops \in Scenarios

At(r, step) == loc[r].step = step
Goto(r, record) == loc' = [loc EXCEPT ![r] = record]
Exists(p) == account[p].password # None

\* A request that reads first and then goes on.
Begin(r, op, record) ==
  /\ op \in ops
  /\ At(r, "idle")
  /\ Goto(r, record)
  /\ UNCHANGED <<account, now, reported, history, ops>>
-----------------------------------------------------------------------------
(* AccountService.createAccount; batchCreateAccounts calls it for each of a  *)
(* list and goes on when one fails.  A single account is a list of one.      *)

CreateStart(r, phones) ==
  Begin(r, "create", [NoLocal EXCEPT !.step = "next", !.todo = phones])

\* A phone that is taken is an error in the result; otherwise a password is
\* made up for it.
CreateFind(r, p) ==
  /\ At(r, "next")
  /\ p \in loc[r].todo
  /\ \/ Exists(p) /\ Goto(r, [loc[r] EXCEPT !.todo = @ \ {p}])
     \/ /\ ~Exists(p)
        /\ \E w \in Issued :
             Goto(r, [loc[r] EXCEPT !.todo = @ \ {p}, !.step = "insert",
                                    !.phone = p, !.password = w])
  /\ UNCHANGED <<account, now, reported, history, ops>>

\* Mutant of CreateInsert: phones need not be unique, and the last row counts.
CreateInsertAgain(r) ==
  /\ At(r, "insert")
  /\ LET p == loc[r].phone  w == loc[r].password
     IN /\ account' = [account EXCEPT ![p] =
                         [NoAccount EXCEPT !.password = w, !.force = TRUE]]
        /\ Goto(r, [loc[r] EXCEPT !.step = "next", !.done = @ \cup {<<p, w>>}])
  /\ UNCHANGED <<now, reported, history, ops>>

\* The unique key refuses a phone that was taken meanwhile.
CreateInsert(r) ==
  /\ At(r, "insert")
  /\ LET p == loc[r].phone  w == loc[r].password
     IN IF Exists(p)
        THEN Goto(r, [loc[r] EXCEPT !.step = "next"]) /\ UNCHANGED account
        ELSE /\ account' = [account EXCEPT ![p] =
                              [NoAccount EXCEPT !.password = w, !.force = TRUE]]
             /\ Goto(r, [loc[r] EXCEPT !.step = "next",
                                       !.done = @ \cup {<<p, w>>}])
  /\ UNCHANGED <<now, reported, history, ops>>

\* The administrator sees the passwords only now.
CreateReport(r) ==
  /\ At(r, "next") /\ loc[r].todo = {}
  /\ reported' = reported \cup loc[r].done
  /\ Goto(r, NoLocal)
  /\ UNCHANGED <<account, now, history, ops>>
-----------------------------------------------------------------------------
(* AuthService.login, up to the session                                      *)

Locked(p) == account[p].until > now

\* Neither unknown nor locked; the password is compared with the hash just read.
LoginFind(r, p, w) ==
  /\ Exists(p) /\ ~Locked(p)
  /\ Begin(r, "login", [NoLocal EXCEPT
       !.step = IF w = account[p].password THEN "right" ELSE "wrong",
       !.phone = p, !.fails = account[p].fails, !.alone = TRUE])

\* The columns of the lock change; other logins have read what they were.
Count(r, columns, unlocked, total) ==
  LET p == loc[r].phone
  IN /\ account' = [account EXCEPT ![p] = columns]
     /\ loc' = [q \in Requests |->
          IF q = r THEN NoLocal
          ELSE [loc[q] EXCEPT !.alone = @ /\ loc[q].phone # p]]
     /\ streak' = [streak EXCEPT ![p] = IF account'[p].until # account[p].until
                                     THEN 0 ELSE unlocked]
     /\ wrong' = [wrong EXCEPT ![p] = total]
     /\ UNCHANGED <<now, reported, replaced, ops>>

Failed(r, limit) ==
  LET p == loc[r].phone  count == loc[r].fails + 1
  IN Count(r, IF count >= limit
              THEN [account[p] EXCEPT !.fails = 0, !.until = now + LockTime]
              ELSE [account[p] EXCEPT !.fails = count],
           IF loc[r].alone THEN streak[p] + 1 ELSE 0,
           IF wrong[p] < MaxFails THEN wrong[p] + 1 ELSE wrong[p])

\* Mutant of LoginWrong: the account is locked one attempt early.
LoginWrongEarly(r) ==
  /\ At(r, "wrong")
  /\ Failed(r, MaxFails - 1)

\* Mutant of LoginWrong: the account is locked one attempt late.
LoginWrongLate(r) ==
  /\ At(r, "wrong")
  /\ Failed(r, MaxFails + 1)

\* The count that was read, plus one, is written; the last one allowed locks.
LoginWrong(r) ==
  /\ At(r, "wrong")
  /\ Failed(r, MaxFails)

LoginRight(r) ==
  /\ At(r, "right")
  /\ LET p == loc[r].phone
     IN Count(r, [account[p] EXCEPT !.fails = 0, !.until = 0], 0, wrong[p])

Tick ==
  /\ "login" \in ops
  /\ now < MaxTime
  /\ now' = now + 1
  /\ UNCHANGED <<account, reported, history, loc, ops>>
-----------------------------------------------------------------------------
(* AuthService.changePassword, AccountService.resetPassword                  *)

\* The old password is compared with the hash just read.
ChangeFind(r, p, new) ==
  /\ Exists(p)
  /\ Begin(r, "change", [NoLocal EXCEPT
       !.step = "change", !.phone = p, !.password = new,
       !.old = account[p].password])

ResetFind(r, p, new) ==
  /\ Exists(p)
  /\ Begin(r, "reset", [NoLocal EXCEPT
       !.step = "reset", !.phone = p, !.password = new])

\* Both columns in one statement.
Replace(r, force) ==
  /\ account' = [account EXCEPT ![loc[r].phone].password = loc[r].password,
                                ![loc[r].phone].force = force]
  /\ replaced' = [replaced EXCEPT ![loc[r].phone] = TRUE]
  /\ Goto(r, NoLocal)
  /\ UNCHANGED <<now, reported, wrong, streak, ops>>

ChangeWrite(r) == At(r, "change") /\ Replace(r, FALSE)

\* The answer carries the new password.
ResetWrite(r) == At(r, "reset") /\ Replace(r, TRUE)

\* The process ends, and the requests in flight with it.
Crash ==
  /\ "crash" \in ops
  /\ loc' = [r \in Requests |-> NoLocal]
  /\ UNCHANGED <<account, now, reported, history, ops>>

Next ==
  \/ Tick \/ Crash
  \/ \E r \in Requests :
       \/ \E phones \in (SUBSET Phones) \ {{}} : CreateStart(r, phones)
       \/ \E p \in Phones : CreateFind(r, p)
       \/ CreateInsert(r) \/ CreateReport(r)
       \/ \E p \in Phones, w \in Passwords : LoginFind(r, p, w)
       \/ LoginWrong(r) \/ LoginRight(r)
       \/ \E p \in Phones, w \in Chosen : ChangeFind(r, p, w)
       \/ \E p \in Phones, w \in Issued : ResetFind(r, p, w)
       \/ ChangeWrite(r) \/ ResetWrite(r)

Spec == Init /\ [][Next]_vars
-----------------------------------------------------------------------------
\* A password an administrator was told opens the account until it is replaced,
\* whoever else had the same phone in his list at the same time.
ReportedOpens ==
  \A p \in Phones, w \in Passwords :
    <<p, w>> \in reported /\ ~replaced[p] => account[p].password = w

\* An account is locked by MaxFails wrong passwords and never by fewer: logins
\* at the same time may make the count too small, not too large; and MaxFails in
\* a row that no other login comes between do lock it.
LocksAfterFailures ==
  \A p \in Phones : /\ account[p].until # 0 => wrong[p] = MaxFails
                    /\ streak[p] < MaxFails
-----------------------------------------------------------------------------
(* What the comments promise and the code does not keep. *)

\* account.service.ts, resetPassword: after a reset the user is held to choose
\* anew; but a change that has verified the password before it undoes it.
ResetStands ==
  [][\A p \in Phones :
       account[p].force /\ ~account'[p].force =>
         \E r \in Requests : /\ At(r, "change") /\ loc[r].phone = p
                             /\ loc[r].old = account[p].password]_vars
=============================================================================
