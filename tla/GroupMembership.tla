--------------------------- MODULE GroupMembership ---------------------------
(***************************************************************************)
(* One group or channel: its row in conversations, the rows of its members *)
(* and every handler of group.service.ts and channel.service.ts that       *)
(* writes them, with the deletion of accounts (account.service.ts), which  *)
(* dissolves the groups an account owns.                                   *)
(*                                                                         *)
(* A request arrives when its token has been checked.  Then an action is   *)
(* one statement, or one transaction, and the JavaScript up to the next    *)
(* await.  The member routes of groups ask for no type of conversation and *)
(* work on channels as well.  The save() of a channel's data is a SELECT,  *)
(* which fixes the columns that differ from the entity read before, and an *)
(* UPDATE of these.                                                        *)
(***************************************************************************)
EXTENDS Integers, FiniteSets

CONSTANTS
  Users,     \* accounts that are no administrators
  Nobody,    \* owner_id of a conversation that does not exist yet
  Requests,  \* slots for requests in flight
  MaxJoins,  \* bound: member rows ever inserted for one user
  Scenarios  \* sets of operations that occur together in a behaviour

\* "channel" says what the conversation is; the rest are requests, and "fail",
\* the failure of a statement.
Routes == {"add", "remove", "transfer", "dissolve", "close", "subscribe",
           "unsubscribe", "update"}
AllOps == Routes \cup {"channel", "fail"}

ASSUME UsersAssumption == IsFiniteSet(Users) /\ Nobody \notin Users
ASSUME RequestsAssumption == IsFiniteSet(Requests)
ASSUME JoinsAssumption == MaxJoins \in Nat
ASSUME ScenariosAssumption == Scenarios \subseteq SUBSET AllOps

VARIABLES
  owner,    \* owner_id
  count,    \* member_count
  state,    \* "active", or "dissolved": dissolved_at is set
  role,     \* the member rows
  joins,    \* rows inserted for each user, which tell a row from its successor
  closed,   \* accounts that were deleted
  handler,  \* requests in flight
  ops,      \* the operations of this behaviour
  seat,     \* history: the owner's row is "held", or was "lost" to a removal
  heir      \* history: was the account of the owner open when he became it?

conversation == <<owner, count, state>>
members == <<role, joins>>
history == <<seat, heir>>
vars == <<owner, count, state, role, joins, closed, handler, ops, seat, heir>>

\* The statement a request is about to execute; a route is its first one.
Steps ==
  Routes \cup
  {"idle", "create", "createMembers", "createCount",
   "addFind", "addSave", "addCount",
   "removeFind", "removeDelete", "removeCount", "removeUpdate",
   "transferFind", "transferTx", "dissolveTx", "closeWrite", "cascadeFind",
   "subFind", "subSave", "subCount", "unsubFind", "unsubRemove", "unsubCount",
   "updateSelect", "updateWrite"}

\* who asks (Nobody: an administrator), whom it is about; the users to insert,
\* a number read or computed (a count, or which row of a user was found), the
\* columns a save will write.
Handler ==
  [step: Steps, who: Users \cup {Nobody}, whom: Users \cup {Nobody},
   set: SUBSET Users, size: Int, writes: SUBSET {"count", "state"}]

Idle ==
  [step |-> "idle", who |-> Nobody, whom |-> Nobody, set |-> {}, size |-> 0,
   writes |-> {}]

TypeOK ==
  /\ owner \in Users \cup {Nobody}
  /\ count \in Int
  /\ state \in {"active", "dissolved"}
  /\ role \in [Users -> {"none", "member", "owner"}]
  /\ joins \in [Users -> 0 .. MaxJoins]
  /\ closed \subseteq Users
  /\ handler \in [Requests -> Handler]
  /\ \A p \in Requests :
       handler[p].step \in {"close", "closeWrite"} => handler[p].whom \in Users
  /\ ops \subseteq AllOps
  /\ seat \in {"none", "held", "lost"}
  /\ heir \in {"open", "closed"}

Init ==
  /\ owner = Nobody
  /\ count = 0
  /\ state = "active"
  /\ role = [u \in Users |-> "none"]
  /\ joins = [u \in Users |-> 0]
  /\ closed = {}
  /\ ops \in Scenarios
  /\ \E p \in Requests, u \in Users, set \in SUBSET Users :
       /\ "channel" \in ops => set = {}
       /\ handler = [q \in Requests |->
            IF q = p THEN [Idle EXCEPT !.step = "create", !.who = u,
                                       !.set = set \cup {u}]
            ELSE Idle]
  /\ seat = "none"
  /\ heir = "open"
-----------------------------------------------------------------------------
Exists == owner # Nobody
IsChannel == "channel" \in ops
Members == {u \in Users : role[u] # "none"}

At(p, step) == handler[p].step = step
Goto(p, record) == handler' = [handler EXCEPT ![p] = record]
Advance(p, step) == Goto(p, [handler[p] EXCEPT !.step = step])
Done(p) == Goto(p, Idle)
Proceed(p, allowed, step) == IF allowed THEN Advance(p, step) ELSE Done(p)

\* A handler reads, and goes on or returns.
Reads == UNCHANGED <<conversation, members, closed, ops, history>>
Decide(p, allowed, step) == Proceed(p, allowed, step) /\ Reads

\* The request of u for a route, about v or a set of users.  The account is
\* open when the token is checked; Nobody stands for an administrator.
Arrive(p, route, u, v, set) ==
  /\ At(p, "idle")
  /\ route \in ops
  /\ Exists
  /\ u \notin closed
  /\ Goto(p, [Idle EXCEPT !.step = route, !.who = u, !.whom = v, !.set = set])
  /\ Reads

\* idx_conv_members_unique: an insert for a member fails.
Taken(set) == set \cap Members # {}

\* INSERT INTO conversation_members
Insert(set) ==
  /\ \A u \in set : joins[u] < MaxJoins
  /\ joins' = [u \in Users |-> IF u \in set THEN joins[u] + 1 ELSE joins[u]]

\* DELETE FROM conversation_members
Delete(u) ==
  /\ role' = [role EXCEPT ![u] = "none"]
  /\ UNCHANGED joins

\* Removals that have judged u to be no owner.
Condemned(u) ==
  \E q \in Requests : At(q, "removeDelete") /\ handler[q].whom = u
Seat(u) == IF Condemned(u) THEN "lost" ELSE "held"
-----------------------------------------------------------------------------
(* createGroup, createChannel: three statements *)

CreateConversation(p) ==
  /\ At(p, "create")
  /\ owner' = handler[p].who
  /\ count' = IF IsChannel THEN 1 ELSE 0
  /\ heir' = IF handler[p].who \in closed THEN "closed" ELSE "open"
  /\ Advance(p, "createMembers")
  /\ UNCHANGED <<state, members, closed, ops, seat>>

\* Who subscribed to the channel before his own row was there makes it fail.
CreateMembers(p) ==
  /\ At(p, "createMembers")
  /\ IF Taken(handler[p].set) THEN Done(p) /\ UNCHANGED <<members, seat>>
     ELSE /\ Insert(handler[p].set)
          /\ role' = [u \in Users |->
                        IF u = handler[p].who THEN "owner"
                        ELSE IF u \in handler[p].set THEN "member" ELSE role[u]]
          /\ seat' = Seat(owner)
          /\ Proceed(p, ~IsChannel, "createCount")
  /\ UNCHANGED <<conversation, closed, ops, heir>>

CreateCount(p) ==
  /\ At(p, "createCount")
  /\ count' = Cardinality(handler[p].set)
  /\ Done(p)
  /\ UNCHANGED <<owner, state, members, closed, ops, history>>
-----------------------------------------------------------------------------
(* addMembers *)

AddCheck(p) ==
  /\ At(p, "add")
  /\ Decide(p, role[handler[p].who] = "owner", "addFind")

AddFind(p) ==
  /\ At(p, "addFind")
  /\ LET new == handler[p].set \ Members
     IN IF new = {} THEN Done(p)
        ELSE Goto(p, [handler[p] EXCEPT
               !.step = "addSave", !.set = new,
               !.size = Cardinality(Members) + Cardinality(new)])
  /\ Reads

\* One transaction: a member who joined meanwhile makes all of it fail.
AddSave(p) ==
  /\ At(p, "addSave")
  /\ IF Taken(handler[p].set) THEN Done(p) /\ UNCHANGED members
     ELSE /\ Insert(handler[p].set)
          /\ role' = [u \in Users |->
                        IF u \in handler[p].set THEN "member" ELSE role[u]]
          /\ Advance(p, "addCount")
  /\ UNCHANGED <<conversation, closed, ops, history>>

AddCount(p) ==
  /\ At(p, "addCount")
  /\ count' = handler[p].size
  /\ Done(p)
  /\ UNCHANGED <<owner, state, members, closed, ops, history>>
-----------------------------------------------------------------------------
(* removeMember: oneself, by the owner, or by an administrator *)

RemoveCheck(p) ==
  /\ At(p, "remove")
  /\ LET u == handler[p].who
         allowed == \/ u = Nobody
                    \/ u = handler[p].whom /\ role[u] = "member"
                    \/ u # handler[p].whom /\ role[u] = "owner"
     IN Decide(p, allowed, "removeFind")

\* Mutant of RemoveFind: the role of the target is not looked at.
RemoveFindUnchecked(p) ==
  /\ At(p, "removeFind")
  /\ Advance(p, "removeDelete")
  /\ Reads

RemoveFind(p) ==
  /\ At(p, "removeFind")
  /\ Decide(p, role[handler[p].whom] # "owner", "removeDelete")

RemoveDelete(p) ==
  /\ At(p, "removeDelete")
  /\ Delete(handler[p].whom)
  /\ Advance(p, "removeCount")
  /\ UNCHANGED <<conversation, closed, ops, history>>

RemoveCount(p) ==
  /\ At(p, "removeCount")
  /\ Goto(p, [handler[p] EXCEPT !.step = "removeUpdate",
                                !.size = Cardinality(Members)])
  /\ Reads

RemoveUpdate(p) ==
  /\ At(p, "removeUpdate")
  /\ count' = handler[p].size
  /\ Done(p)
  /\ UNCHANGED <<owner, state, members, closed, ops, history>>
-----------------------------------------------------------------------------
(* transferOwnership *)

TransferCheck(p) ==
  /\ At(p, "transfer")
  /\ LET allowed == /\ ~IsChannel
                    /\ state = "active"
                    /\ owner = handler[p].who
                    /\ owner # handler[p].whom
     IN Decide(p, allowed, "transferFind")

TransferFind(p) ==
  /\ At(p, "transferFind")
  /\ Decide(p, handler[p].whom \in Members, "transferTx")

\* Mutant of HandOver: the old owner becomes an administrator of the group.
HandOverToAdmin(u, target) ==
  /\ owner' = target
  /\ role' = [role EXCEPT ![u] = "admin", ![target] = "owner"]
  /\ seat' = Seat(target)
  /\ heir' = IF target \in closed THEN "closed" ELSE "open"

\* The three updates of the transaction, of rows that are there.
HandOver(u, target) ==
  /\ owner' = target
  /\ role' = [role EXCEPT ![u] = "member", ![target] = "owner"]
  /\ seat' = Seat(target)
  /\ heir' = IF target \in closed THEN "closed" ELSE "open"

\* Mutant of TransferTx: without AND owner_id = currentOwnerId.
TransferTxUnlocked(p) ==
  /\ At(p, "transferTx")
  /\ LET u == handler[p].who
         target == handler[p].whom
     IN IF {u, target} \subseteq Members THEN HandOver(u, target)
        ELSE UNCHANGED <<owner, role, history>>
  /\ Done(p)
  /\ UNCHANGED <<count, state, joins, closed, ops>>

\* An update that finds no row rolls back: the owner changed, or one of the
\* two left.
TransferTx(p) ==
  /\ At(p, "transferTx")
  /\ LET u == handler[p].who
         target == handler[p].whom
     IN IF owner = u /\ {u, target} \subseteq Members THEN HandOver(u, target)
        ELSE UNCHANGED <<owner, role, history>>
  /\ Done(p)
  /\ UNCHANGED <<count, state, joins, closed, ops>>
-----------------------------------------------------------------------------
(* dissolveGroupByOwner, dissolveChannel, and dissolveGroup, which is for     *)
(* administrators and groups only                                            *)

DissolveCheck(p) ==
  /\ At(p, "dissolve")
  /\ LET u == handler[p].who
         allowed == /\ state = "active"
                    /\ owner = u \/ (u = Nobody /\ ~IsChannel)
     IN Decide(p, allowed, "dissolveTx")

DissolveTx(p) ==
  /\ At(p, "dissolveTx")
  /\ state' = "dissolved"
  /\ Done(p)
  /\ UNCHANGED <<owner, count, members, closed, ops, history>>

\* softDeleteAccount: the account is looked up and closed, then its groups are
\* looked up.
CloseCheck(p) ==
  /\ At(p, "close")
  /\ Decide(p, handler[p].whom \notin closed, "closeWrite")

CloseWrite(p) ==
  /\ At(p, "closeWrite")
  /\ closed' = closed \cup {handler[p].whom}
  /\ Advance(p, "cascadeFind")
  /\ UNCHANGED <<conversation, members, ops, history>>

\* Mutant of CascadeFind: groups are found by the role of the member row.
CascadeFindByRole(p) ==
  /\ At(p, "cascadeFind")
  /\ Decide(p, ~IsChannel /\ role[handler[p].whom] = "owner"
                           /\ state = "active", "dissolveTx")

\* dissolveGroupsOnAccountDelete
CascadeFind(p) ==
  /\ At(p, "cascadeFind")
  /\ Decide(p, ~IsChannel /\ owner = handler[p].whom /\ state = "active",
             "dissolveTx")
-----------------------------------------------------------------------------
(* subscribe, unsubscribe, updateChannel, of a channel that is public *)

\* getChannelOr404
Open == IsChannel /\ state = "active"

SubscribeCheck(p) ==
  /\ At(p, "subscribe")
  /\ Decide(p, Open, "subFind")

UnsubscribeCheck(p) ==
  /\ At(p, "unsubscribe")
  /\ Decide(p, Open /\ owner # handler[p].who, "unsubFind")

SubscribeFind(p) ==
  /\ At(p, "subFind")
  /\ Decide(p, handler[p].who \notin Members, "subSave")

\* Mutant of SubscribeSave: a row that is there already is not an error.
SubscribeSaveIgnores(p) ==
  /\ At(p, "subSave")
  /\ IF Taken({handler[p].who}) THEN UNCHANGED members
     ELSE /\ Insert({handler[p].who})
          /\ role' = [role EXCEPT ![handler[p].who] = "member"]
  /\ Advance(p, "subCount")
  /\ UNCHANGED <<conversation, closed, ops, history>>

SubscribeSave(p) ==
  /\ At(p, "subSave")
  /\ IF Taken({handler[p].who}) THEN Done(p) /\ UNCHANGED members
     ELSE /\ Insert({handler[p].who})
          /\ role' = [role EXCEPT ![handler[p].who] = "member"]
          /\ Advance(p, "subCount")
  /\ UNCHANGED <<conversation, closed, ops, history>>

SubscribeCount(p) ==
  /\ At(p, "subCount")
  /\ count' = count + 1
  /\ Done(p)
  /\ UNCHANGED <<owner, state, members, closed, ops, history>>

UnsubscribeFind(p) ==
  /\ At(p, "unsubFind")
  /\ IF handler[p].who \in Members
     THEN Goto(p, [handler[p] EXCEPT !.step = "unsubRemove",
                                     !.size = joins[handler[p].who]])
     ELSE Done(p)
  /\ Reads

\* remove() deletes the row that was found, if it is still there.
UnsubscribeRemove(p) ==
  /\ At(p, "unsubRemove")
  /\ IF joins[handler[p].who] = handler[p].size THEN Delete(handler[p].who)
                                                 ELSE UNCHANGED members
  /\ Advance(p, "unsubCount")
  /\ UNCHANGED <<conversation, closed, ops, history>>

UnsubscribeCount(p) ==
  /\ At(p, "unsubCount")
  /\ count' = count - 1
  /\ Done(p)
  /\ UNCHANGED <<owner, state, members, closed, ops, history>>

\* The entity is read while the channel is active.
UpdateCheck(p) ==
  /\ At(p, "update")
  /\ IF Open /\ owner = handler[p].who
     THEN Goto(p, [handler[p] EXCEPT !.step = "updateSelect", !.size = count])
     ELSE Done(p)
  /\ Reads

UpdateSelect(p) ==
  /\ At(p, "updateSelect")
  /\ Goto(p, [handler[p] EXCEPT
       !.step = "updateWrite",
       !.writes = {c \in {"count"} : count # handler[p].size}
                    \cup {c \in {"state"} : state # "active"}])
  /\ Reads

UpdateWrite(p) ==
  /\ At(p, "updateWrite")
  /\ count' = IF "count" \in handler[p].writes THEN handler[p].size ELSE count
  /\ state' = IF "state" \in handler[p].writes THEN "active" ELSE state
  /\ Done(p)
  /\ UNCHANGED <<owner, members, closed, ops, history>>
-----------------------------------------------------------------------------
\* A statement fails, or the process dies; what was written stays.
Fail(p) ==
  /\ "fail" \in ops
  /\ ~At(p, "idle")
  /\ Done(p)
  /\ Reads

Request(p) ==
  \/ \E u \in Users, set \in (SUBSET Users) \ {{}} : Arrive(p, "add", u, Nobody, set)
  \/ \E u \in Users \cup {Nobody} :
       \/ Arrive(p, "dissolve", u, Nobody, {})
       \/ \E v \in Users : Arrive(p, "remove", u, v, {})
  \/ \E u, v \in Users : u # v /\ Arrive(p, "transfer", u, v, {})
  \/ \E v \in Users : Arrive(p, "close", Nobody, v, {})
  \/ \E u \in Users, route \in {"subscribe", "unsubscribe", "update"} :
       Arrive(p, route, u, Nobody, {})

Continue(p) ==
  \/ CreateConversation(p) \/ CreateMembers(p) \/ CreateCount(p)
  \/ AddCheck(p) \/ AddFind(p) \/ AddSave(p) \/ AddCount(p)
  \/ RemoveCheck(p) \/ RemoveFind(p) \/ RemoveDelete(p) \/ RemoveCount(p)
  \/ RemoveUpdate(p)
  \/ TransferCheck(p) \/ TransferFind(p) \/ TransferTx(p)
  \/ DissolveCheck(p) \/ DissolveTx(p)
  \/ CloseCheck(p) \/ CloseWrite(p) \/ CascadeFind(p)
  \/ SubscribeCheck(p) \/ SubscribeFind(p) \/ SubscribeSave(p)
  \/ SubscribeCount(p)
  \/ UnsubscribeCheck(p) \/ UnsubscribeFind(p) \/ UnsubscribeRemove(p)
  \/ UnsubscribeCount(p)
  \/ UpdateCheck(p) \/ UpdateSelect(p) \/ UpdateWrite(p)
  \/ Fail(p)

Next == \E p \in Requests : Request(p) \/ Continue(p)

Spec == Init /\ [][Next]_vars
-----------------------------------------------------------------------------
Quiet == \A p \in Requests : At(p, "idle")

\* The row in conversations and the member rows never name two owners: of
\* transfers in flight at once only one commits, whatever each of them read.
OneOwner == \A u \in Users : role[u] = "owner" => owner = u

\* The owner has his member row.  Transfers judge the new owner's membership
\* before they commit and removals judge his role before they delete; only a
\* removal that had passed its check when he became the owner may unseat him.
OwnerSeated == seat = "held" => role[owner] = "owner"

\* Who owns a group and closes his account leaves no living group behind, in
\* whatever state of its creation the deletion met it, unless he became its
\* owner when his account was closed already.
ClosedOwnersGroupEnds ==
  (Quiet /\ "fail" \notin ops /\ ~IsChannel /\ owner \in closed
         /\ heir = "open") => state = "dissolved"

\* Subscriptions alone never count anybody twice, however often a user taps:
\* a second insert fails before its increment.  A channel counts its owner
\* from the start, so its creation must have come to his row.
CountNotInflated ==
  (Quiet /\ IsChannel /\ seat = "held"
         /\ ops \cap {"add", "remove", "update", "fail"} = {}) =>
    count <= Cardinality(Members)
-----------------------------------------------------------------------------
\* channel.service.ts, header of dissolveChannel: nobody enters a dissolved
\* channel again.  A change of its data saves the dissolved_at it read before.
DissolvedIsFinal == [][state = "dissolved" => state' = "dissolved"]_vars
=============================================================================
