----------------------- MODULE GroupMembershipProofs -----------------------
(***************************************************************************)
(* Proofs about the ownership of groups and channels, for any number of    *)
(* users and requests.  Checks and writes of a request are apart, so the   *)
(* invariant says what a check has established that no other request can   *)
(* take back: who creates a conversation is its owner until his row is     *)
(* there, no removal in flight is about the owner, a channel is never      *)
(* handed over.  The last section weighs member_count against the rows and *)
(* the subscriptions that have one without the other.                      *)
(***************************************************************************)
EXTENDS GroupMembership, FiniteSetTheorems, TLAPS

\* The slot of p goes on to a step, about the same users, or is cleared.
Moves(p, step) ==
  /\ handler' \in [Requests -> Handler]
  /\ \A q \in Requests \ {p} : handler'[q] = handler[q]
  /\ handler'[p].step = step
  /\ handler'[p].who = handler[p].who
  /\ handler'[p].whom = handler[p].whom

Clears(p) ==
  /\ handler' \in [Requests -> Handler]
  /\ \A q \in Requests \ {p} : handler'[q] = handler[q]
  /\ handler'[p].step = "idle"

LEMMA IdleType == Idle \in Handler /\ Idle.step = "idle"
BY DEF Idle, Handler, Steps

LEMMA GotoType ==
  ASSUME TypeOK, NEW p \in Requests, NEW r \in Handler, Goto(p, r)
  PROVE  /\ handler' \in [Requests -> Handler]
         /\ handler'[p] = r
         /\ \A q \in Requests \ {p} : handler'[q] = handler[q]
BY DEF Goto, TypeOK

LEMMA DoneType ==
  ASSUME TypeOK, NEW p \in Requests, Done(p)
  PROVE  Clears(p)
BY IdleType, GotoType DEF Done, Clears

LEMMA AdvanceType ==
  ASSUME TypeOK, NEW p \in Requests, NEW step \in Steps, Advance(p, step)
  PROVE  Moves(p, step)
<1>1. handler[p] \in Handler
  BY DEF TypeOK
<1>2. [handler[p] EXCEPT !.step = step] \in Handler
  BY <1>1 DEF Handler
<1> QED
  BY <1>1, <1>2, GotoType DEF Advance, Moves, Handler

LEMMA MembersFinite ==
  ASSUME TypeOK
  PROVE  /\ IsFiniteSet(Members) /\ Cardinality(Members) \in Nat
         /\ \A p \in Requests : /\ handler[p].set \subseteq Users
                                /\ Cardinality(handler[p].set) \in Nat
<1>1. \A set : set \subseteq Users => IsFiniteSet(set)
  BY UsersAssumption, FS_Subset
<1>2. Members \subseteq Users
  BY DEF Members
<1>3. \A p \in Requests : handler[p].set \subseteq Users
  BY DEF TypeOK, Handler
<1> QED
  BY <1>1, <1>2, <1>3, FS_CardinalityType
-----------------------------------------------------------------------------
\* The steps that change nothing but a slot.
Reading(p) ==
  \/ AddCheck(p) \/ AddFind(p) \/ RemoveCheck(p) \/ RemoveFind(p)
  \/ RemoveCount(p) \/ TransferCheck(p) \/ TransferFind(p)
  \/ DissolveCheck(p) \/ CloseCheck(p) \/ CascadeFind(p)
  \/ SubscribeCheck(p) \/ UnsubscribeCheck(p) \/ SubscribeFind(p)
  \/ UnsubscribeFind(p) \/ UpdateCheck(p) \/ UpdateSelect(p) \/ Fail(p)

\* The steps that write.
Writing(p) ==
  \/ CreateConversation(p) \/ CreateMembers(p) \/ CreateCount(p)
  \/ AddSave(p) \/ AddCount(p) \/ RemoveDelete(p) \/ RemoveUpdate(p)
  \/ TransferTx(p) \/ DissolveTx(p) \/ CloseWrite(p)
  \/ SubscribeSave(p) \/ SubscribeCount(p)
  \/ UnsubscribeRemove(p) \/ UnsubscribeCount(p) \/ UpdateWrite(p)

\* What a reading step has found when it goes on.
Found(p, step) ==
  \/ step = "addFind" /\ At(p, "add") /\ role[handler[p].who] = "owner"
  \/ step = "addSave" /\ At(p, "addFind")
  \/ step = "removeFind" /\ At(p, "remove")
  \/ /\ step = "removeDelete" /\ At(p, "removeFind")
     /\ role[handler[p].whom] # "owner"
  \/ step = "removeUpdate" /\ At(p, "removeCount")
  \/ /\ step = "transferFind" /\ At(p, "transfer")
     /\ ~IsChannel /\ owner = handler[p].who
  \/ step = "transferTx" /\ At(p, "transferFind")
  \/ step = "dissolveTx" /\ At(p, "dissolve")
  \/ step = "closeWrite" /\ At(p, "close")
  \/ step = "dissolveTx" /\ At(p, "cascadeFind")
  \/ step = "subFind" /\ At(p, "subscribe") /\ IsChannel
  \/ /\ step = "unsubFind" /\ At(p, "unsubscribe")
     /\ IsChannel /\ owner # handler[p].who
  \/ step = "subSave" /\ At(p, "subFind")
  \/ step = "unsubRemove" /\ At(p, "unsubFind")
  \/ step = "updateSelect" /\ At(p, "update") /\ IsChannel
  \/ step = "updateWrite" /\ At(p, "updateSelect")

\* What it has found when it returns, unless it failed.
Returned(p) ==
  \/ "fail" \in ops
  \/ /\ ~At(p, "dissolveTx") /\ ~At(p, "closeWrite")
     /\ At(p, "cascadeFind") =>
          IsChannel \/ owner # handler[p].whom \/ state # "active"

LEMMA ReadingMoves ==
  ASSUME TypeOK, NEW p \in Requests, Reading(p)
  PROVE  /\ Reads
         /\ \/ \E step \in Steps : Found(p, step) /\ Moves(p, step)
            \/ Clears(p) /\ Returned(p)
<1> USE DEF Steps, Routes, Decide, Proceed, Found, Returned, Open, At
<1>0. handler[p] \in Handler
  BY DEF TypeOK
<1>1. CASE AddCheck(p)
  BY <1>1, DoneType, AdvanceType DEF AddCheck
<1>2. CASE AddFind(p)
  <2> DEFINE new == handler[p].set \ Members
             r == [handler[p] EXCEPT !.step = "addSave", !.set = new,
                     !.size = Cardinality(Members) + Cardinality(new)]
  <2>1. IsFiniteSet(handler[p].set) /\ handler[p].set \subseteq Users
    BY <1>0, UsersAssumption, FS_Subset DEF Handler
  <2>2. IsFiniteSet(new) /\ new \subseteq Users
    BY <2>1, FS_Subset
  <2>3. Cardinality(Members) + Cardinality(new) \in Int
    BY <2>2, MembersFinite, FS_CardinalityType
  <2> HIDE DEF new
  <2>4. /\ r \in Handler /\ r.step = "addSave" /\ r.who = handler[p].who
        /\ r.whom = handler[p].whom
    BY <1>0, <2>2, <2>3 DEF Handler
  <2>5. CASE Done(p)
    BY <1>2, <2>5, DoneType DEF AddFind
  <2>6. CASE Goto(p, r)
    BY <1>2, <2>4, <2>6, GotoType DEF AddFind, Moves
  <2> QED
    BY <1>2, <2>5, <2>6 DEF AddFind, new
<1>3. CASE RemoveCheck(p)
  BY <1>3, DoneType, AdvanceType DEF RemoveCheck
<1>4. CASE RemoveFind(p)
  BY <1>4, DoneType, AdvanceType DEF RemoveFind
<1>5. CASE RemoveCount(p)
  <2> DEFINE r == [handler[p] EXCEPT !.step = "removeUpdate",
                                     !.size = Cardinality(Members)]
  <2>1. Cardinality(Members) \in Int
    BY MembersFinite
  <2>2. /\ r \in Handler /\ r.step = "removeUpdate" /\ r.who = handler[p].who
        /\ r.whom = handler[p].whom
    BY <1>0, <2>1 DEF Handler
  <2>3. Goto(p, r) /\ At(p, "removeCount") /\ Reads
    BY <1>5 DEF RemoveCount
  <2> HIDE DEF r
  <2> QED
    BY <2>2, <2>3, GotoType DEF Moves
<1>6. CASE TransferCheck(p)
  BY <1>6, DoneType, AdvanceType DEF TransferCheck
<1>7. CASE TransferFind(p)
  BY <1>7, DoneType, AdvanceType DEF TransferFind
<1>8. CASE DissolveCheck(p)
  BY <1>8, DoneType, AdvanceType DEF DissolveCheck
<1>9. CASE CloseCheck(p)
  BY <1>9, DoneType, AdvanceType DEF CloseCheck
<1>10. CASE CascadeFind(p)
  BY <1>10, DoneType, AdvanceType DEF CascadeFind
<1>11. CASE SubscribeCheck(p)
  BY <1>11, DoneType, AdvanceType DEF SubscribeCheck
<1>12. CASE UnsubscribeCheck(p)
  BY <1>12, DoneType, AdvanceType DEF UnsubscribeCheck
<1>13. CASE SubscribeFind(p)
  BY <1>13, DoneType, AdvanceType DEF SubscribeFind
<1>14. CASE UnsubscribeFind(p)
  <2> DEFINE r == [handler[p] EXCEPT !.step = "unsubRemove",
                                     !.size = joins[handler[p].who]]
  <2>1. CASE handler[p].who \in Members
    <3>1. joins[handler[p].who] \in Int
      BY <2>1, JoinsAssumption DEF TypeOK, Members
    <3>2. /\ r \in Handler /\ r.step = "unsubRemove" /\ r.who = handler[p].who
          /\ r.whom = handler[p].whom
      BY <1>0, <3>1 DEF Handler
    <3>3. Goto(p, r) /\ At(p, "unsubFind") /\ Reads
      BY <1>14, <2>1 DEF UnsubscribeFind
    <3> HIDE DEF r
    <3> QED
      BY <3>2, <3>3, GotoType DEF Moves
  <2>2. CASE handler[p].who \notin Members
    BY <1>14, <2>2, DoneType DEF UnsubscribeFind
  <2> QED
    BY <2>1, <2>2
<1>15. CASE UpdateCheck(p)
  <2> DEFINE r == [handler[p] EXCEPT !.step = "updateSelect", !.size = count]
  <2>1. /\ r \in Handler /\ r.step = "updateSelect" /\ r.who = handler[p].who
        /\ r.whom = handler[p].whom
    BY <1>0 DEF Handler, TypeOK
  <2> QED
    BY <1>15, <2>1, DoneType, GotoType DEF UpdateCheck, Moves
<1>16. CASE UpdateSelect(p)
  <2> DEFINE w == {c \in {"count"} : count # handler[p].size}
                    \cup {c \in {"state"} : state # "active"}
             r == [handler[p] EXCEPT !.step = "updateWrite", !.writes = w]
  <2>1. w \subseteq {"count", "state"}
    OBVIOUS
  <2> HIDE DEF w
  <2>2. /\ r \in Handler /\ r.step = "updateWrite" /\ r.who = handler[p].who
        /\ r.whom = handler[p].whom
    BY <1>0, <2>1 DEF Handler
  <2>3. Goto(p, r) /\ At(p, "updateSelect") /\ Reads
    BY <1>16 DEF UpdateSelect, w
  <2> QED
    BY <2>2, <2>3, GotoType DEF Moves
<1>17. CASE Fail(p)
  BY <1>17, DoneType DEF Fail
<1> QED
  BY <1>1, <1>2, <1>3, <1>4, <1>5, <1>6, <1>7, <1>8, <1>9, <1>10, <1>11,
     <1>12, <1>13, <1>14, <1>15, <1>16, <1>17 DEF Reading
-----------------------------------------------------------------------------
Arriving(p) ==
  \E route \in Routes, u \in Users \cup {Nobody}, v \in Users \cup {Nobody},
     set \in SUBSET Users :
    /\ Arrive(p, route, u, v, set)
    /\ route = "close" => v \in Users
    /\ route \in {"add", "subscribe"} => u \in Users

LEMMA RequestArrives ==
  ASSUME NEW p \in Requests, Request(p)
  PROVE  Arriving(p)
<1>1. ASSUME NEW u \in Users, NEW set \in (SUBSET Users) \ {{}},
             Arrive(p, "add", u, Nobody, set)
      PROVE  Arriving(p)
  BY <1>1 DEF Arriving, Routes
<1>2. ASSUME NEW u \in Users \cup {Nobody}, Arrive(p, "dissolve", u, Nobody, {})
      PROVE  Arriving(p)
  BY <1>2 DEF Arriving, Routes
<1>3. ASSUME NEW u \in Users \cup {Nobody}, NEW v \in Users,
             Arrive(p, "remove", u, v, {})
      PROVE  Arriving(p)
  BY <1>3 DEF Arriving, Routes
<1>4. ASSUME NEW u \in Users, NEW v \in Users, Arrive(p, "transfer", u, v, {})
      PROVE  Arriving(p)
  BY <1>4 DEF Arriving, Routes
<1>5. ASSUME NEW v \in Users, Arrive(p, "close", Nobody, v, {})
      PROVE  Arriving(p)
  BY <1>5 DEF Arriving, Routes
<1>6. ASSUME NEW u \in Users, NEW route \in {"subscribe", "unsubscribe", "update"},
             Arrive(p, route, u, Nobody, {})
      PROVE  Arriving(p)
  BY <1>6 DEF Arriving, Routes
<1> QED
  BY <1>1, <1>2, <1>3, <1>4, <1>5, <1>6 DEF Request

LEMMA ArriveMoves ==
  ASSUME TypeOK, NEW p \in Requests, Arriving(p)
  PROVE  /\ Reads /\ At(p, "idle") /\ Exists
         /\ handler' \in [Requests -> Handler]
         /\ \A q \in Requests \ {p} : handler'[q] = handler[q]
         /\ handler'[p].step \in Routes
         /\ handler'[p].step = "close" => handler'[p].whom \in Users
         /\ handler'[p].step \in {"add", "subscribe"} =>
              handler'[p].who \in Users
         /\ handler'[p].step \in ops
<1>1. PICK route \in Routes, u \in Users \cup {Nobody},
           v \in Users \cup {Nobody}, set \in SUBSET Users :
        /\ Arrive(p, route, u, v, set)
        /\ route = "close" => v \in Users
        /\ route \in {"add", "subscribe"} => u \in Users
  BY DEF Arriving
<1> DEFINE r == [Idle EXCEPT !.step = route, !.who = u, !.whom = v, !.set = set]
<1>a. route \in Steps /\ Idle \in Handler
  BY IdleType DEF Steps
<1>2. r \in Handler /\ r.step = route /\ r.whom = v /\ r.who = u
  BY <1>a DEF Handler
<1>3. Goto(p, r) /\ Reads /\ At(p, "idle") /\ Exists /\ route \in ops
  BY <1>1 DEF Arrive
<1> HIDE DEF r
<1> QED
  BY <1>1, <1>2, <1>3, GotoType

LEMMA NextSplits ==
  ASSUME Next
  PROVE  \E p \in Requests : Arriving(p) \/ Reading(p) \/ Writing(p)
BY RequestArrives DEF Next, Continue, Reading, Writing

-----------------------------------------------------------------------------
LEMMA InsertType ==
  ASSUME TypeOK, NEW set \in SUBSET Users, Insert(set)
  PROVE  joins' \in [Users -> 0 .. MaxJoins]
BY JoinsAssumption DEF TypeOK, Insert

\* Where a writing step leaves its slot.
LEMMA WritingMoves ==
  ASSUME TypeOK, NEW p \in Requests, Writing(p)
  PROVE  \/ Clears(p)
         \/ CreateConversation(p) /\ Moves(p, "createMembers")
         \/ CreateMembers(p) /\ Moves(p, "createCount")
         \/ AddSave(p) /\ Moves(p, "addCount")
         \/ RemoveDelete(p) /\ Moves(p, "removeCount")
         \/ CloseWrite(p) /\ Moves(p, "cascadeFind")
         \/ SubscribeSave(p) /\ Moves(p, "subCount")
         \/ UnsubscribeRemove(p) /\ Moves(p, "unsubCount")
<1> USE DEF Steps
<1>1. CASE CreateConversation(p)
  BY <1>1, AdvanceType DEF CreateConversation
<1>2. CASE CreateMembers(p)
  BY <1>2, DoneType, AdvanceType DEF CreateMembers, Proceed
<1>3. CASE AddSave(p)
  BY <1>3, DoneType, AdvanceType DEF AddSave
<1>4. CASE RemoveDelete(p)
  BY <1>4, AdvanceType DEF RemoveDelete
<1>5. CASE CloseWrite(p)
  BY <1>5, AdvanceType DEF CloseWrite
<1>6. CASE SubscribeSave(p)
  BY <1>6, DoneType, AdvanceType DEF SubscribeSave
<1>7. CASE UnsubscribeRemove(p)
  BY <1>7, AdvanceType DEF UnsubscribeRemove
<1>8. CASE \/ CreateCount(p) \/ AddCount(p) \/ RemoveUpdate(p) \/ TransferTx(p)
           \/ DissolveTx(p) \/ SubscribeCount(p) \/ UnsubscribeCount(p)
           \/ UpdateWrite(p)
  BY <1>8, DoneType
  DEF CreateCount, AddCount, RemoveUpdate, TransferTx, DissolveTx,
      SubscribeCount, UnsubscribeCount, UpdateWrite
<1> QED
  BY <1>1, <1>2, <1>3, <1>4, <1>5, <1>6, <1>7, <1>8 DEF Writing

LEMMA WritingType ==
  ASSUME TypeOK, NEW p \in Requests, Writing(p)
  PROVE  TypeOK'
<1> USE DEF TypeOK, conversation, members, history
<1>0. /\ handler[p] \in Handler /\ handler[p].who \in Users \cup {Nobody}
      /\ handler[p].whom \in Users \cup {Nobody} /\ handler[p].size \in Int
      /\ handler[p].set \in SUBSET Users
  BY DEF Handler
<1>h. /\ handler' \in [Requests -> Handler]
      /\ \A q \in Requests :
           handler'[q].step \in {"close", "closeWrite"} => handler'[q].whom \in Users
  <2>1. \/ Clears(p)
        \/ \E step \in Steps \ {"close", "closeWrite"} : Moves(p, step)
    BY WritingMoves DEF Steps
  <2> QED
    BY <2>1 DEF Moves, Clears
<1>1. CASE CreateConversation(p)
  BY <1>0, <1>1, <1>h DEF CreateConversation
<1>2. CASE CreateMembers(p)
  <2>1. CASE UNCHANGED <<members, seat>>
    BY <1>2, <1>h, <2>1 DEF CreateMembers
  <2>2. CASE ~Taken(handler[p].set)
    <3>1. joins' \in [Users -> 0 .. MaxJoins]
      BY <1>0, <1>2, <2>2, InsertType DEF CreateMembers
    <3>2. /\ role' \in [Users -> {"none", "member", "owner"}]
          /\ seat' \in {"held", "lost"}
      BY <1>2, <2>2 DEF CreateMembers, Seat
    <3> QED
      BY <1>2, <1>h, <3>1, <3>2 DEF CreateMembers
  <2> QED
    BY <1>2, <2>1, <2>2 DEF CreateMembers
<1>3. CASE CreateCount(p)
  <2>1. Cardinality(handler[p].set) \in Int
    BY MembersFinite
  <2> QED
    BY <1>3, <1>h, <2>1 DEF CreateCount
<1>4. CASE AddSave(p)
  <2>1. CASE UNCHANGED members
    BY <1>4, <1>h, <2>1 DEF AddSave
  <2>2. CASE ~Taken(handler[p].set)
    <3>1. joins' \in [Users -> 0 .. MaxJoins]
      BY <1>0, <1>4, <2>2, InsertType DEF AddSave
    <3>2. role' \in [Users -> {"none", "member", "owner"}]
      BY <1>4, <2>2 DEF AddSave
    <3> QED
      BY <1>4, <1>h, <3>1, <3>2 DEF AddSave
  <2> QED
    BY <1>4, <2>1, <2>2 DEF AddSave
<1>5. CASE RemoveDelete(p)
  BY <1>5, <1>h DEF RemoveDelete, Delete
<1>6. CASE TransferTx(p)
  <2>1. CASE UNCHANGED <<owner, role, history>>
    BY <1>6, <1>h, <2>1 DEF TransferTx
  <2>2. CASE /\ {handler[p].who, handler[p].whom} \subseteq Members
             /\ HandOver(handler[p].who, handler[p].whom)
    <3>1. /\ owner' \in Users
          /\ seat' \in {"held", "lost"} /\ heir' \in {"open", "closed"}
      BY <2>2 DEF HandOver, Seat, Members
    <3>2. role' \in [Users -> {"none", "member", "owner"}]
      BY <2>2 DEF HandOver
    <3> QED
      BY <1>6, <1>h, <3>1, <3>2 DEF TransferTx
  <2> QED
    BY <1>6, <2>1, <2>2 DEF TransferTx
<1>7. CASE CloseWrite(p)
  BY <1>0, <1>7, <1>h DEF CloseWrite, At
<1>8. CASE SubscribeSave(p)
  <2>1. CASE UNCHANGED members
    BY <1>8, <1>h, <2>1 DEF SubscribeSave
  <2>2. CASE ~Taken({handler[p].who})
    <3>1. role' \in [Users -> {"none", "member", "owner"}]
      BY <1>8, <2>2 DEF SubscribeSave
    <3>2. joins' \in [Users -> 0 .. MaxJoins]
      BY <1>8, <2>2, JoinsAssumption DEF SubscribeSave, Insert
    <3> QED
      BY <1>8, <1>h, <3>1, <3>2 DEF SubscribeSave
  <2> QED
    BY <1>8, <2>1, <2>2 DEF SubscribeSave
<1>9. CASE UnsubscribeRemove(p)
  BY <1>9, <1>h DEF UnsubscribeRemove, Delete
<1>10. CASE \/ AddCount(p) \/ RemoveUpdate(p) \/ DissolveTx(p)
            \/ SubscribeCount(p) \/ UnsubscribeCount(p) \/ UpdateWrite(p)
  BY <1>0, <1>10, <1>h
  DEF AddCount, RemoveUpdate, DissolveTx, SubscribeCount, UnsubscribeCount,
      UpdateWrite
<1> QED
  BY <1>1, <1>2, <1>3, <1>4, <1>5, <1>6, <1>7, <1>8, <1>9, <1>10 DEF Writing

LEMMA InitType == Init => TypeOK
<1> SUFFICES ASSUME Init PROVE TypeOK
  OBVIOUS
<1>1. PICK p \in Requests, u \in Users, set \in SUBSET Users :
        handler = [q \in Requests |->
          IF q = p THEN [Idle EXCEPT !.step = "create", !.who = u,
                                     !.set = set \cup {u}]
          ELSE Idle]
  BY DEF Init
<1> DEFINE all == set \cup {u}
           r == [Idle EXCEPT !.step = "create", !.who = u, !.set = all]
<1>2. all \in SUBSET Users /\ Idle \in Handler /\ Idle.step = "idle"
  BY IdleType
<1> HIDE DEF all
<1>3. r \in Handler /\ r.step = "create"
  BY <1>2 DEF Handler, Steps
<1>4. handler = [q \in Requests |-> IF q = p THEN r ELSE Idle]
  BY <1>1 DEF all
<1> HIDE DEF r
<1>5. /\ handler \in [Requests -> Handler]
      /\ \A q \in Requests : handler[q].step \notin {"close", "closeWrite"}
  BY <1>2, <1>3, <1>4
<1> QED
  BY <1>5, ScenariosAssumption, JoinsAssumption DEF Init, TypeOK

LEMMA TypeInductive == TypeOK /\ [Next]_vars => TypeOK'
<1> SUFFICES ASSUME TypeOK, [Next]_vars PROVE TypeOK'
  OBVIOUS
<1>1. ASSUME NEW p \in Requests, Arriving(p) PROVE TypeOK'
  BY <1>1, ArriveMoves DEF Reads, TypeOK, conversation, members, history, Routes
<1>2. ASSUME NEW p \in Requests, Reading(p) PROVE TypeOK'
  BY <1>2, ReadingMoves
  DEF Reads, Moves, Clears, TypeOK, conversation, members, history, Found, At
<1>3. CASE UNCHANGED vars
  BY <1>3 DEF vars, TypeOK
<1> QED
  BY <1>1, <1>2, <1>3, WritingType, NextSplits

\* Every state of groups and channels is of the declared types.
THEOREM MembershipTypeCorrect == Spec => []TypeOK
BY InitType, TypeInductive, PTL DEF Spec
-----------------------------------------------------------------------------
\* What the position of a request tells of the conversation, whatever other
\* requests have done since.
Sound(p) ==
  /\ At(p, "create") => handler[p].who \in Users /\ ~Exists /\ seat = "none"
  /\ At(p, "createMembers") =>
       owner = handler[p].who /\ owner \in Users /\ seat = "none"
  /\ handler[p].step \in Routes => Exists
  /\ handler[p].step \in {"add", "subscribe", "subFind", "subSave"} =>
       handler[p].who \in Users
  /\ handler[p].step \in {"addFind", "addSave"} => seat # "none"
  /\ handler[p].step \in {"transferFind", "transferTx"} => ~IsChannel
  /\ handler[p].step \in {"subFind", "subSave", "updateSelect", "updateWrite"} =>
       IsChannel
  /\ handler[p].step \in {"unsubFind", "unsubRemove"} =>
       IsChannel /\ Exists /\ owner # handler[p].who
  /\ At(p, "removeDelete") /\ seat = "held" => handler[p].whom # owner

Creating(p) == handler[p].step \in {"create", "createMembers"}

Rows ==
  /\ seat = "none" => /\ \A u \in Users : role[u] # "owner"
                      /\ IsChannel \/ \A u \in Users : role[u] = "none"
  /\ seat # "none" => Exists
  /\ OneOwner
  /\ OwnerSeated

Ownership ==
  /\ TypeOK
  /\ \A p \in Requests : Sound(p)
  /\ \A p, q \in Requests : Creating(p) /\ Creating(q) => p = q
  /\ Rows

LEMMA InitOwnership == Init => Ownership
<1> SUFFICES ASSUME Init PROVE Ownership
  OBVIOUS
<1>1. TypeOK
  BY InitType
<1>2. PICK p \in Requests, u \in Users, set \in SUBSET Users :
        handler = [q \in Requests |->
          IF q = p THEN [Idle EXCEPT !.step = "create", !.who = u,
                                     !.set = set \cup {u}]
          ELSE Idle]
  BY DEF Init
<1>3. /\ handler[p].step = "create" /\ handler[p].who = u
      /\ \A q \in Requests \ {p} : handler[q].step = "idle"
  BY <1>2 DEF Idle
<1>4. \A q \in Requests : Sound(q)
  BY <1>3 DEF Sound, At, Init, Exists, Routes
<1>5. Rows
  BY UsersAssumption DEF Rows, Init, OneOwner, OwnerSeated, Exists
<1> QED
  BY <1>1, <1>3, <1>4, <1>5 DEF Ownership, Creating

LEMMA ArrivingOwnership ==
  ASSUME Ownership, NEW p \in Requests, Arriving(p)
  PROVE  Ownership'
<1>1. TypeOK'
  BY TypeInductive, RequestArrives, ArriveMoves
  DEF Ownership, Reads, TypeOK, conversation, members, history, Routes
<1>2. /\ Reads /\ At(p, "idle") /\ Exists
      /\ \A q \in Requests \ {p} : handler'[q] = handler[q]
      /\ handler'[p].step \in Routes
      /\ handler'[p].step \in {"add", "subscribe"} => handler'[p].who \in Users
  BY ArriveMoves DEF Ownership
<1>3. \A q \in Requests : Sound(q)'
  BY <1>2
  DEF Ownership, Sound, At, Exists, IsChannel, Reads, conversation, history,
      Routes
<1>4. Rows'
  BY <1>2
  DEF Ownership, Rows, Reads, conversation, members, history, Exists, IsChannel,
      OneOwner, OwnerSeated
<1> QED
  BY <1>1, <1>2, <1>3, <1>4 DEF Ownership, Creating, Routes

LEMMA ReadingOwnership ==
  ASSUME Ownership, NEW p \in Requests, Reading(p)
  PROVE  Ownership'
<1>1. /\ Reads
      /\ \/ \E step \in Steps : Found(p, step) /\ Moves(p, step)
         \/ Clears(p)
  BY ReadingMoves DEF Ownership
<1>2. TypeOK'
  BY <1>1
  DEF Ownership, Reads, Moves, Clears, TypeOK, conversation, members, history,
      Found, At
<1>3. \A q \in Requests : Sound(q)'
  <2>1. ASSUME NEW q \in Requests \ {p} PROVE Sound(q)'
    BY <1>1, <2>1
    DEF Ownership, Sound, At, Exists, IsChannel, Reads, conversation, history,
        Moves, Clears
  <2>2. CASE Clears(p)
    BY <1>1, <2>1, <2>2 DEF Sound, At, Clears, Routes
  <2>3. ASSUME NEW step \in Steps, Found(p, step), Moves(p, step)
        PROVE  Sound(p)'
    <3>1. /\ Sound(p) /\ handler[p] \in Handler /\ OwnerSeated
          /\ \A u \in Users : role[u] = "owner" => seat # "none"
      BY DEF Ownership, Rows, TypeOK
    <3> QED
      BY <1>1, <2>3, <3>1
      DEF Sound, At, Exists, IsChannel, Reads, conversation, members, history,
          Moves, Found, Routes, OwnerSeated
  <2> QED
    BY <1>1, <2>1, <2>2, <2>3
<1>4. Rows'
  BY <1>1
  DEF Ownership, Rows, Reads, conversation, members, history, Exists, IsChannel,
      OneOwner, OwnerSeated
<1>5. ~Creating(p)'
  BY <1>1 DEF Creating, Found, Moves, Clears
<1> QED
  BY <1>1, <1>2, <1>3, <1>4, <1>5 DEF Ownership, Creating, Moves, Clears
-----------------------------------------------------------------------------
\* The other slots of a step that leaves the owner and his seat alone.
LEMMA OthersSound ==
  ASSUME Ownership, NEW p \in Requests, UNCHANGED <<owner, seat, ops>>,
         \A q \in Requests \ {p} : handler'[q] = handler[q]
  PROVE  \A q \in Requests \ {p} : Sound(q)'
BY DEF Ownership, Sound, At, Exists, IsChannel

LEMMA WritingOwnership ==
  ASSUME Ownership, NEW p \in Requests, Writing(p)
  PROVE  Ownership'
<1> USE DEF At
<1>0. /\ TypeOK /\ Sound(p) /\ Rows /\ handler[p] \in Handler
      /\ handler[p].who \in Users \cup {Nobody}
      /\ handler[p].whom \in Users \cup {Nobody}
      /\ handler[p].set \in SUBSET Users
      /\ role \in [Users -> {"none", "member", "owner"}]
  BY DEF Ownership, TypeOK, Handler
<1>1. TypeOK'
  BY <1>0, WritingType
<1>2. /\ \A q \in Requests \ {p} : handler'[q] = handler[q]
      /\ Creating(p)' => Creating(p)
      /\ ~CreateConversation(p) => Sound(p)'
  <2>1. CASE Clears(p)
    BY <2>1 DEF Clears, Sound, Creating, Routes
  <2>2. CASE CreateConversation(p) /\ Moves(p, "createMembers")
    BY <2>2 DEF Moves, CreateConversation, Creating
  <2>3. CASE \E step \in {"createCount", "addCount", "removeCount",
                          "cascadeFind", "subCount", "unsubCount"} : Moves(p, step)
    BY <2>3 DEF Moves, Sound, Creating, Routes
  <2> QED
    BY <1>0, <2>1, <2>2, <2>3, WritingMoves
<1>3. ASSUME \A q \in Requests : Sound(q)', Rows' PROVE Ownership'
  BY <1>1, <1>2, <1>3 DEF Ownership, Creating
<1>4. ASSUME UNCHANGED <<owner, seat, ops>>, ~CreateConversation(p)
      PROVE  \A q \in Requests : Sound(q)'
  BY <1>2, <1>4, OthersSound
<1>5. CASE CreateConversation(p)
  <2>1. /\ seat = "none" /\ seat' = "none" /\ ops' = ops /\ role' = role
        /\ owner = Nobody /\ owner' = handler[p].who /\ owner' \in Users
    BY <1>0, <1>5 DEF CreateConversation, Sound, Exists, members
  <2>2. Moves(p, "createMembers")
    BY <1>0, <1>5, AdvanceType DEF CreateConversation, Steps
  <2>3. Sound(p)'
    BY <2>1, <2>2 DEF Sound, Moves, Routes
  <2>4. ASSUME NEW q \in Requests \ {p} PROVE Sound(q)'
    <3>1. Sound(q) /\ ~Creating(q)
      BY <1>5 DEF Ownership, Creating, CreateConversation
    <3> QED
      BY <1>2, <2>1, <3>1, UsersAssumption
      DEF Sound, Exists, Creating, IsChannel
  <2>5. Rows'
    BY <1>0, <2>1, UsersAssumption
    DEF Rows, Exists, IsChannel, OneOwner, OwnerSeated
  <2> QED
    BY <1>3, <2>3, <2>4, <2>5
<1>6. CASE CreateMembers(p)
  <2>1. CASE UNCHANGED <<members, seat>>
    BY <1>0, <1>3, <1>4, <1>6, <2>1
    DEF CreateMembers, CreateConversation, Rows, Exists, IsChannel, OneOwner,
        OwnerSeated, conversation, members
  <2>2. CASE ~Taken(handler[p].set)
    <3>1. /\ owner = handler[p].who /\ owner' = owner /\ ops' = ops
          /\ seat' = Seat(owner) /\ seat = "none"
          /\ \A u \in Users : role[u] # "owner"
      BY <1>0, <1>6, <2>2 DEF CreateMembers, Sound, Rows, conversation
    <3>2. \A u \in Users : role'[u] = "owner" <=> u = owner
      BY <1>0, <1>6, <2>2, <3>1 DEF CreateMembers
    <3>3. ASSUME NEW q \in Requests \ {p} PROVE Sound(q)'
      <4>1. Sound(q) /\ ~Creating(q)
        BY <1>6 DEF Ownership, Creating, CreateMembers
      <4> QED
        BY <1>2, <3>1, <4>1
        DEF Sound, Exists, Creating, IsChannel, Seat, Condemned
    <3>4. owner \in Users
      BY <1>0, <1>6 DEF CreateMembers, Sound
    <3>5. Rows'
      BY <3>1, <3>2, <3>4, UsersAssumption
      DEF Rows, Seat, Exists, OneOwner, OwnerSeated
    <3> QED
      BY <1>2, <1>3, <1>6, <3>3, <3>5 DEF CreateMembers, CreateConversation
  <2> QED
    BY <1>6, <2>1, <2>2 DEF CreateMembers
<1>7. CASE TransferTx(p)
  <2>1. CASE UNCHANGED <<owner, role, history>>
    BY <1>0, <1>3, <1>4, <1>7, <2>1
    DEF TransferTx, CreateConversation, Rows, Exists, IsChannel, OneOwner,
        OwnerSeated, history
  <2> DEFINE u == handler[p].who
             target == handler[p].whom
  <2>2. CASE owner = u /\ {u, target} \subseteq Members /\ HandOver(u, target)
    <3>1. /\ ~IsChannel /\ u \in Users /\ target \in Users
          /\ role[u] # "none" /\ ops' = ops /\ seat # "none"
          /\ owner' = target /\ seat' = Seat(target)
      BY <1>0, <1>7, <2>2 DEF TransferTx, Sound, Members, Rows, HandOver
    <3>2. \A v \in Users : role'[v] = "owner" => v = target
      BY <1>0, <2>2, <3>1 DEF HandOver, Rows, OneOwner
    <3>3. role'[target] = "owner"
      BY <1>0, <2>2, <3>1 DEF HandOver
    <3>4. ASSUME NEW q \in Requests \ {p} PROVE Sound(q)'
      BY <1>2, <2>2, <3>1, UsersAssumption
      DEF Ownership, Sound, Exists, IsChannel, Seat, Condemned
    <3>5. Rows'
      BY <3>1, <3>2, <3>3, UsersAssumption
      DEF Rows, Seat, Exists, OneOwner, OwnerSeated
    <3> QED
      BY <1>2, <1>3, <1>7, <3>4, <3>5 DEF TransferTx, CreateConversation
  <2> QED
    BY <1>7, <2>1, <2>2 DEF TransferTx
<1>8. CASE AddSave(p) \/ SubscribeSave(p)
  <2>1. /\ UNCHANGED <<owner, seat, ops>> /\ ~CreateConversation(p)
        /\ seat # "none" \/ IsChannel
    BY <1>0, <1>8
    DEF AddSave, SubscribeSave, Sound, conversation, history, CreateConversation
  <2>2. \A v \in Users : \/ role'[v] = role[v]
                         \/ role[v] = "none" /\ role'[v] = "member"
    <3>1. CASE AddSave(p)
      BY <1>0, <3>1 DEF AddSave, Taken, Members, members
    <3>2. CASE SubscribeSave(p)
      BY <1>0, <3>2 DEF SubscribeSave, Taken, Members, members
    <3> QED
      BY <1>8, <3>1, <3>2
  <2>3. owner \in Users \cup {Nobody}
    BY <1>0 DEF TypeOK
  <2>4. Rows'
    BY <1>0, <2>1, <2>2, <2>3
    DEF Rows, Exists, IsChannel, OneOwner, OwnerSeated
  <2> QED
    BY <1>3, <1>4, <2>1, <2>4
<1>9. CASE RemoveDelete(p) \/ UnsubscribeRemove(p)
  <2>1. UNCHANGED <<owner, seat, ops>> /\ ~CreateConversation(p)
    BY <1>9
    DEF RemoveDelete, UnsubscribeRemove, conversation, history,
        CreateConversation
  <2>2. \A v \in Users : /\ role'[v] \in {role[v], "none"}
                         /\ v = owner /\ seat = "held" => role'[v] = role[v]
    <3>1. CASE RemoveDelete(p)
      BY <1>0, <3>1 DEF RemoveDelete, Delete, Sound
    <3>2. CASE UnsubscribeRemove(p)
      BY <1>0, <3>2 DEF UnsubscribeRemove, Delete, Sound, members
    <3> QED
      BY <1>9, <3>1, <3>2
  <2>3. owner \in Users \cup {Nobody}
    BY <1>0 DEF TypeOK
  <2>4. Rows'
    BY <1>0, <2>1, <2>2, <2>3
    DEF Rows, Exists, IsChannel, OneOwner, OwnerSeated
  <2> QED
    BY <1>3, <1>4, <2>1, <2>4
<1>10. CASE \/ CreateCount(p) \/ AddCount(p) \/ RemoveUpdate(p) \/ DissolveTx(p)
            \/ CloseWrite(p) \/ SubscribeCount(p) \/ UnsubscribeCount(p)
            \/ UpdateWrite(p)
  <2>1. UNCHANGED <<owner, seat, ops, role>> /\ ~CreateConversation(p)
    BY <1>10
    DEF CreateCount, AddCount, RemoveUpdate, DissolveTx, CloseWrite,
        SubscribeCount, UnsubscribeCount, UpdateWrite, CreateConversation,
        conversation, members, history
  <2>2. Rows'
    BY <1>0, <2>1 DEF Rows, Exists, IsChannel, OneOwner, OwnerSeated
  <2> QED
    BY <1>3, <1>4, <2>1, <2>2
<1> QED
  BY <1>5, <1>6, <1>7, <1>8, <1>9, <1>10 DEF Writing

LEMMA OwnershipInductive == Ownership /\ [Next]_vars => Ownership'
<1>1. ASSUME Ownership, UNCHANGED vars PROVE Ownership'
  <2>1. TypeOK'
    BY <1>1, TypeInductive DEF Ownership
  <2> QED
    BY <1>1, <2>1
    DEF Ownership, vars, Sound, At, Creating, Rows, Exists, IsChannel, OneOwner,
        OwnerSeated
<1> QED
  BY <1>1, ArrivingOwnership, ReadingOwnership, WritingOwnership, NextSplits

\* Of transfers, removals and creations in any order, the conversation and its
\* member rows never name different owners.
THEOREM OneOwnerCorrect == Spec => []OneOwner
<1>1. Ownership => OneOwner
  BY DEF Ownership, Rows
<1> QED
  BY <1>1, InitOwnership, OwnershipInductive, PTL DEF Spec

\* No interleaving takes the owner's member row from him, except a removal that
\* had judged him before he became the owner.
THEOREM OwnerSeatedCorrect == Spec => []OwnerSeated
<1>1. Ownership => OwnerSeated
  BY DEF Ownership, Rows
<1> QED
  BY <1>1, InitOwnership, OwnershipInductive, PTL DEF Spec
-----------------------------------------------------------------------------
\* A request that will dissolve the group, or find that it has to.
Pending(q) ==
  \/ At(q, "dissolveTx")
  \/ At(q, "cascadeFind") /\ handler[q].whom = owner

Orphaned ==
  /\ "fail" \notin ops /\ ~IsChannel
  /\ owner \in closed /\ heir = "open"
  /\ state # "dissolved"

Ending == Orphaned => \E q \in Requests : Pending(q)

LEMMA EndingInductive ==
  ASSUME Ownership, Ending, Next
  PROVE  Ending'
<1> USE DEF At
<1>0. SUFFICES ASSUME Orphaned' PROVE \E q \in Requests : Pending(q)'
  BY DEF Ending
<1>1. PICK p \in Requests : Arriving(p) \/ Reading(p) \/ Writing(p)
  BY NextSplits
<1>2. TypeOK /\ Sound(p) /\ state \in {"active", "dissolved"}
  BY DEF Ownership, TypeOK
<1>3. CASE Arriving(p)
  <2>1. /\ Reads /\ At(p, "idle")
        /\ \A q \in Requests \ {p} : handler'[q] = handler[q]
    BY <1>2, <1>3, ArriveMoves
  <2>2. PICK q \in Requests : Pending(q)
    BY <1>0, <2>1
    DEF Ending, Orphaned, IsChannel, Reads, conversation, history
  <2> QED
    BY <2>1, <2>2 DEF Pending, Reads, conversation
<1>4. CASE Reading(p)
  <2>1. /\ Reads
        /\ \/ \E step \in Steps : Found(p, step) /\ Moves(p, step)
           \/ Clears(p) /\ Returned(p)
    BY <1>2, <1>4, ReadingMoves
  <2>2. Orphaned
    BY <1>0, <2>1 DEF Orphaned, IsChannel, Reads, conversation, history
  <2>3. PICK q \in Requests : Pending(q)
    BY <2>2 DEF Ending
  <2>4. CASE q # p
    BY <2>1, <2>3, <2>4 DEF Pending, Reads, conversation, Moves, Clears
  <2>5. CASE q = p
    <3>1. ~(Clears(p) /\ Returned(p))
      BY <1>2, <2>2, <2>3, <2>5 DEF Pending, Returned, Orphaned
    <3>2. handler'[p].step = "dissolveTx"
      BY <2>1, <2>3, <2>5, <3>1 DEF Pending, Found, Moves
    <3> QED
      BY <3>2 DEF Pending
  <2> QED
    BY <2>4, <2>5
<1>5. CASE Writing(p)
  <2>1. CASE CreateConversation(p)
    BY <1>0, <2>1 DEF CreateConversation, Orphaned
  <2>2. CASE TransferTx(p) /\ owner' # owner
    BY <1>0, <2>2 DEF TransferTx, HandOver, Orphaned
  <2>3. CASE DissolveTx(p) \/ UpdateWrite(p)
    BY <1>0, <1>2, <2>3 DEF DissolveTx, UpdateWrite, Sound, Orphaned, IsChannel
  <2>4. CASE CloseWrite(p)
    <3>1. Moves(p, "cascadeFind")
      BY <1>2, <2>4, AdvanceType DEF CloseWrite, Steps
    <3>2. owner' = owner /\ (Orphaned \/ owner = handler[p].whom)
      BY <1>0, <2>4 DEF CloseWrite, Orphaned, IsChannel, conversation, history
    <3>3. CASE owner = handler[p].whom
      BY <3>1, <3>2, <3>3 DEF Pending, Moves
    <3>4. CASE Orphaned
      <4>1. PICK q \in Requests : Pending(q)
        BY <3>4 DEF Ending
      <4>2. q # p
        BY <2>4, <4>1 DEF Pending, CloseWrite
      <4> QED
        BY <3>1, <3>2, <4>1, <4>2 DEF Pending, Moves
    <3> QED
      BY <3>2, <3>3, <3>4
  <2>5. CASE \/ CreateMembers(p) \/ CreateCount(p) \/ AddSave(p) \/ AddCount(p)
             \/ RemoveDelete(p) \/ RemoveUpdate(p)
             \/ TransferTx(p) /\ owner' = owner
             \/ SubscribeSave(p) \/ SubscribeCount(p)
             \/ UnsubscribeRemove(p) \/ UnsubscribeCount(p)
    <3>1. /\ UNCHANGED <<owner, state, closed, ops>> /\ ~Pending(p)
          /\ heir' = "open" => heir = "open" \/ owner \notin closed
      BY <2>5
      DEF CreateMembers, CreateCount, AddSave, AddCount, RemoveDelete,
          RemoveUpdate, TransferTx, HandOver, SubscribeSave, SubscribeCount,
          UnsubscribeRemove, UnsubscribeCount, conversation, history, Pending
    <3>2. \A q \in Requests \ {p} : handler'[q] = handler[q]
      BY <1>2, <1>5, WritingMoves DEF Moves, Clears
    <3>3. PICK q \in Requests : Pending(q)
      BY <1>0, <3>1 DEF Ending, Orphaned, IsChannel
    <3> QED
      BY <3>1, <3>2, <3>3 DEF Pending
  <2> QED
    BY <1>5, <2>1, <2>2, <2>3, <2>4, <2>5 DEF Writing
<1> QED
  BY <1>1, <1>3, <1>4, <1>5

\* However the deletion of an account meets the creation, the transfer and the
\* dissolution of its group, the group does not outlive it.
THEOREM ClosedOwnersCorrect == Spec => []ClosedOwnersGroupEnds
<1>1. Init => Ending
  BY DEF Init, Ending, Orphaned
<1>2. Ownership /\ Ending /\ [Next]_vars => Ending'
  <2>1. ASSUME Ending, UNCHANGED vars PROVE Ending'
    BY <2>1 DEF Ending, Orphaned, Pending, At, IsChannel, vars
  <2> QED
    BY <2>1, EndingInductive
<1>3. Ownership /\ Ending => ClosedOwnersGroupEnds
  BY DEF Ending, Orphaned, Pending, At, ClosedOwnersGroupEnds, Quiet
<1> QED
  BY <1>1, <1>2, <1>3, InitOwnership, OwnershipInductive, PTL DEF Spec
-----------------------------------------------------------------------------
\* Where the requests are while users only subscribe and unsubscribe.
Alone == IsChannel /\ ops \cap {"add", "remove", "update", "fail"} = {}
AloneSteps ==
  {"idle", "create", "createMembers", "transfer", "dissolve", "close",
   "subscribe", "unsubscribe", "dissolveTx", "closeWrite", "cascadeFind",
   "subFind", "subSave", "subCount", "unsubFind", "unsubRemove", "unsubCount"}

\* Requests that have written their row and will change the count.
Subs == {p \in Requests : At(p, "subCount")}
Unsubs == {p \in Requests : At(p, "unsubCount")}

Placed(p) ==
  /\ handler[p].step \in AloneSteps
  /\ Creating(p) => handler[p].who \in handler[p].set
  /\ Exists \/ handler[p].step \in {"idle", "create"}

\* The owner is counted before his row is there.
Early == IF seat = "none" /\ Exists THEN 1 ELSE 0

\* With what is under way carried out, the count is no more than the rows.
Balanced ==
  /\ ~Exists => count = 0
  /\ count + Cardinality(Subs) - Cardinality(Unsubs)
       <= Cardinality(Members) + Early

Balance == Alone => (\A p \in Requests : Placed(p)) /\ Balanced

LEMMA PendingFinite ==
  /\ IsFiniteSet(Subs) /\ Cardinality(Subs) \in Nat
  /\ IsFiniteSet(Unsubs) /\ Cardinality(Unsubs) \in Nat
<1>1. IsFiniteSet(Subs) /\ IsFiniteSet(Unsubs)
  BY RequestsAssumption, FS_Subset DEF Subs, Unsubs
<1> QED
  BY <1>1, FS_CardinalityType

\* A request that neither is nor comes to be about to count.
LEMMA StillPending ==
  ASSUME NEW p \in Requests,
         \A q \in Requests \ {p} : handler'[q] = handler[q],
         handler[p].step \notin {"subCount", "unsubCount"},
         handler'[p].step \notin {"subCount", "unsubCount"}
  PROVE  Subs' = Subs /\ Unsubs' = Unsubs
BY DEF Subs, Unsubs, At

LEMMA InitBalance == Init => Balance
<1> SUFFICES ASSUME Init PROVE Balance
  OBVIOUS
<1>1. PICK p \in Requests, u \in Users, set \in SUBSET Users :
        handler = [q \in Requests |->
          IF q = p THEN [Idle EXCEPT !.step = "create", !.who = u,
                                     !.set = set \cup {u}]
          ELSE Idle]
  BY DEF Init
<1>2. /\ handler[p].step = "create" /\ handler[p].who \in handler[p].set
      /\ \A q \in Requests \ {p} : handler[q].step = "idle"
  BY <1>1 DEF Idle
<1>3. \A q \in Requests : Placed(q)
  BY <1>2 DEF Placed, Creating, AloneSteps
<1>4. Subs = {} /\ Unsubs = {} /\ Members = {}
  BY <1>2 DEF Subs, Unsubs, At, Members, Init
<1>5. Balanced
  BY <1>4, FS_EmptySet DEF Balanced, Early, Init, Exists
<1> QED
  BY <1>3, <1>5 DEF Balance

\* A step that touches neither the conversation nor its rows.
LEMMA QuietBalance ==
  ASSUME Balanced, UNCHANGED <<owner, count, role, seat>>, Subs' = Subs,
         Unsubs' = Unsubs
  PROVE  Balanced'
BY DEF Balanced, Exists, Members, Early

LEMMA ReadingBalance ==
  ASSUME Ownership, Balance, NEW p \in Requests, Arriving(p) \/ Reading(p)
  PROVE  Balance'
<1> SUFFICES ASSUME Alone' PROVE (\A q \in Requests : Placed(q)') /\ Balanced'
  BY DEF Balance
<1>1. /\ Reads /\ \A q \in Requests \ {p} : handler'[q] = handler[q]
  BY ArriveMoves, ReadingMoves DEF Ownership, Moves, Clears
<1>2. UNCHANGED <<owner, count, role, seat, ops>> /\ Alone
  BY <1>1 DEF Reads, conversation, members, history, Alone, IsChannel
<1>3. (\A q \in Requests : Placed(q)) /\ Balanced
  BY <1>2 DEF Balance
<1>4. CASE Arriving(p)
  <2>1. /\ handler[p].step = "idle" /\ handler'[p].step \in ops /\ Exists
        /\ handler'[p].step \in Routes
    BY <1>4, ArriveMoves DEF Ownership, At
  <2>2. /\ handler'[p].step \in AloneSteps
        /\ handler'[p].step \notin {"create", "createMembers", "subCount",
                                    "unsubCount"}
    BY <1>2, <2>1 DEF Alone, AloneSteps, Routes
  <2>3. Placed(p)'
    BY <1>2, <2>1, <2>2 DEF Placed, Creating, Exists
  <2>4. Subs' = Subs /\ Unsubs' = Unsubs
    BY <1>1, <2>1, <2>2, StillPending
  <2> QED
    BY <1>1, <1>2, <1>3, <2>3, <2>4, QuietBalance DEF Placed, Creating, Exists
<1>5. CASE Reading(p)
  <2>1. \/ \E step \in Steps : Found(p, step) /\ Moves(p, step)
        \/ Clears(p) /\ Returned(p)
    BY <1>5, ReadingMoves DEF Ownership
  <2>2. handler[p].step \in AloneSteps
    BY <1>3 DEF Placed
  <2>3. handler[p].step \notin {"subCount", "unsubCount"}
    <3>1. ~Fail(p)
      BY <1>2 DEF Fail, Alone
    <3> QED
      BY <1>5, <3>1
      DEF Reading, AddCheck, AddFind, RemoveCheck, RemoveFind, RemoveCount,
          TransferCheck, TransferFind, DissolveCheck, CloseCheck, CascadeFind,
          SubscribeCheck, UnsubscribeCheck, SubscribeFind, UnsubscribeFind,
          UpdateCheck, UpdateSelect, At
  <2>4. /\ handler'[p].step \in AloneSteps
        /\ handler'[p].step \notin {"create", "createMembers", "subCount",
                                    "unsubCount"}
    <3>1. CASE Clears(p)
      BY <3>1 DEF Clears, AloneSteps
    <3>2. ASSUME NEW step \in Steps, Found(p, step), Moves(p, step)
          PROVE  /\ step \in AloneSteps
                 /\ step \notin {"create", "createMembers", "subCount",
                                 "unsubCount"}
      <4>1. ~IsChannel \/ step # "transferFind"
        BY <3>2 DEF Found
      <4> QED
        BY <1>2, <2>2, <3>2, <4>1 DEF Found, At, AloneSteps, Alone
    <3> QED
      BY <2>1, <3>1, <3>2 DEF Moves
  <2>5. Placed(p)'
    <3>1. Exists \/ handler'[p].step = "idle"
      BY <1>3, <2>1 DEF Placed, Clears, Found, At
    <3> QED
      BY <1>2, <2>4, <3>1 DEF Placed, Creating, Exists
  <2>6. Subs' = Subs /\ Unsubs' = Unsubs
    BY <1>1, <2>3, <2>4, StillPending
  <2> QED
    BY <1>1, <1>2, <1>3, <2>5, <2>6, QuietBalance DEF Placed, Creating, Exists
<1> QED
  BY <1>4, <1>5

\* A row is inserted before it is counted and deleted before it is discounted; a
\* second insert of a user fails, and a second deletion only lowers the count.
LEMMA WritingBalance ==
  ASSUME Ownership, Balance, NEW p \in Requests, Writing(p)
  PROVE  Balance'
<1> USE DEF At
<1> SUFFICES ASSUME Alone' PROVE (\A q \in Requests : Placed(q)') /\ Balanced'
  BY DEF Balance
<1>1. ops' = ops
  BY DEF Writing, CreateConversation, CreateMembers, CreateCount, AddSave,
         AddCount, RemoveDelete, RemoveUpdate, TransferTx, DissolveTx, CloseWrite,
         SubscribeSave, SubscribeCount, UnsubscribeRemove, UnsubscribeCount,
         UpdateWrite
<1>2. /\ Alone /\ IsChannel /\ \A q \in Requests : Placed(q)
      /\ Balanced
  BY <1>1 DEF Alone, IsChannel, Balance
<1>3. /\ TypeOK /\ Sound(p) /\ Placed(p) /\ handler[p] \in Handler
      /\ handler \in [Requests -> Handler]
      /\ count \in Int /\ role \in [Users -> {"none", "member", "owner"}]
  BY <1>2 DEF Ownership, TypeOK
<1>4. \A q \in Requests \ {p} : handler'[q] = handler[q]
  BY <1>3, WritingMoves DEF Moves, Clears
<1>5. ASSUME Exists => Exists'
      PROVE  \A q \in Requests \ {p} : Placed(q)'
  BY <1>2, <1>4, <1>5 DEF Placed, Creating
<1>6. /\ IsFiniteSet(Members) /\ Cardinality(Members) \in Nat
      /\ IsFiniteSet(Subs) /\ Cardinality(Subs) \in Nat
      /\ IsFiniteSet(Unsubs) /\ Cardinality(Unsubs) \in Nat
      /\ Early \in {0, 1}
  BY <1>3, MembersFinite, PendingFinite DEF Early
<1>7. \/ CreateConversation(p) \/ CreateMembers(p) \/ DissolveTx(p)
      \/ CloseWrite(p) \/ SubscribeSave(p) \/ SubscribeCount(p)
      \/ UnsubscribeRemove(p) \/ UnsubscribeCount(p)
  BY <1>3
  DEF Writing, Placed, AloneSteps, CreateCount, AddSave, AddCount,
      RemoveDelete, RemoveUpdate, TransferTx, UpdateWrite
<1>8. ASSUME Clears(p) PROVE Placed(p)'
  BY <1>8 DEF Clears, Placed, AloneSteps, Creating
<1>9. CASE CreateConversation(p)
  <2>1. /\ handler[p].step = "create" /\ seat = "none" /\ ~Exists /\ count = 0
        /\ handler[p].who \in Users /\ handler[p].who \in handler[p].set
    BY <1>2, <1>3, <1>9 DEF CreateConversation, Sound, Balanced, Placed, Creating
  <2>2. /\ owner' = handler[p].who /\ count' = 1 /\ UNCHANGED <<role, seat>>
        /\ handler' = [handler EXCEPT ![p] =
             [handler[p] EXCEPT !.step = "createMembers"]]
    BY <1>2, <1>9 DEF CreateConversation, members, Advance, Goto
  <2>3. /\ handler'[p].step = "createMembers" /\ handler'[p].who = handler[p].who
        /\ handler'[p].set = handler[p].set
    BY <1>3, <2>2 DEF Handler
  <2>4. Placed(p)'
    BY <2>1, <2>2, <2>3, UsersAssumption DEF Placed, AloneSteps, Exists
  <2>5. Subs' = Subs /\ Unsubs' = Unsubs
    BY <1>4, <2>1, <2>3, StillPending
  <2>6. Members' = Members
    BY <2>2 DEF Members
  <2>7. Exists' /\ Early = 0 /\ Early' = 1
    BY <2>1, <2>2, UsersAssumption DEF Exists, Early
  <2>8. Balanced'
    BY <1>2, <1>6, <2>1, <2>2, <2>5, <2>6, <2>7 DEF Balanced
  <2> QED
    BY <1>5, <2>4, <2>7, <2>8
<1>10. CASE CreateMembers(p)
  <2>1. /\ handler[p].step = "createMembers" /\ seat = "none" /\ Exists
        /\ handler[p].who \in Users /\ handler[p].who \in handler[p].set
    BY <1>3, <1>10, UsersAssumption
    DEF CreateMembers, Sound, Placed, Creating, Exists
  <2>2. Done(p) /\ UNCHANGED <<owner, count>>
    BY <1>2, <1>10 DEF CreateMembers, Proceed, conversation
  <2>3. Clears(p)
    BY <1>3, <2>2, DoneType
  <2>4. Subs' = Subs /\ Unsubs' = Unsubs
    BY <1>4, <2>1, <2>3, StillPending DEF Clears
  <2>5. CASE Taken(handler[p].set)
    <3>1. UNCHANGED <<owner, count, role, seat>>
      BY <1>10, <2>2, <2>5 DEF CreateMembers, members
    <3> QED
      BY <1>2, <1>5, <1>8, <2>3, <2>4, <3>1, QuietBalance DEF Exists
  <2>6. CASE ~Taken(handler[p].set)
    <3>1. /\ role' = [u \in Users |->
                        IF u = handler[p].who THEN "owner"
                        ELSE IF u \in handler[p].set THEN "member" ELSE role[u]]
          /\ seat' = Seat(owner)
      BY <1>10, <2>6 DEF CreateMembers
    <3>2. handler[p].who \notin Members
      BY <2>1, <2>6 DEF Taken
    <3>3. Members \cup {handler[p].who} \subseteq Members'
      BY <2>1, <3>1 DEF Members
    <3>4. Cardinality(Members \cup {handler[p].who}) = Cardinality(Members) + 1
      BY <1>6, <3>2, FS_AddElement
    <3>5. IsFiniteSet(Members') /\ Cardinality(Members') \in Nat
      <4>1. Members' \subseteq Users
        BY DEF Members
      <4>2. IsFiniteSet(Members')
        BY <4>1, UsersAssumption, FS_Subset
      <4> QED
        BY <4>2, FS_CardinalityType
    <3>6. Cardinality(Members) + 1 <= Cardinality(Members')
      BY <3>3, <3>4, <3>5, FS_Subset
    <3>7. Early = 1 /\ Early' = 0 /\ Exists'
      BY <2>1, <2>2, <3>1 DEF Early, Seat, Exists
    <3>8. Balanced'
      <4>1. count + Cardinality(Subs) - Cardinality(Unsubs)
              <= Cardinality(Members) + 1
        BY <1>2, <3>7 DEF Balanced
      <4>2. count' + Cardinality(Subs') - Cardinality(Unsubs')
              <= Cardinality(Members') + 0
        BY <1>3, <1>6, <2>2, <2>4, <3>5, <3>6, <4>1
      <4> QED
        BY <3>7, <4>2 DEF Balanced
    <3> QED
      BY <1>5, <1>8, <2>3, <3>7, <3>8
  <2> QED
    BY <2>5, <2>6
<1>11. CASE DissolveTx(p) \/ CloseWrite(p)
  <2>1. /\ UNCHANGED <<owner, count, role, seat>>
        /\ handler[p].step \notin {"subCount", "unsubCount"}
    BY <1>11 DEF DissolveTx, CloseWrite, conversation, members, history
  <2>2. handler'[p].step \in {"idle", "cascadeFind"}
    <3>1. CASE DissolveTx(p)
      BY <1>3, <3>1, DoneType DEF DissolveTx, Clears
    <3>2. CASE CloseWrite(p)
      BY <1>3, <3>2, AdvanceType DEF CloseWrite, Moves, Steps
    <3> QED
      BY <1>11, <3>1, <3>2
  <2>3. Subs' = Subs /\ Unsubs' = Unsubs
    BY <1>4, <2>1, <2>2, StillPending
  <2>4. Placed(p)'
    <3>1. Exists
      BY <1>3, <1>11 DEF Placed, DissolveTx, CloseWrite
    <3> QED
      BY <2>1, <2>2, <3>1 DEF Placed, Creating, AloneSteps, Exists
  <2> QED
    BY <1>2, <1>5, <2>1, <2>3, <2>4, QuietBalance DEF Exists
<1>12. CASE SubscribeSave(p)
  <2>1. /\ handler[p].step = "subSave" /\ handler[p].who \in Users /\ Exists
        /\ UNCHANGED <<owner, count, seat>>
    BY <1>3, <1>12 DEF SubscribeSave, Sound, Placed, conversation, history
  <2>2. CASE Taken({handler[p].who})
    <3>1. Clears(p) /\ role' = role
      BY <1>3, <1>12, <2>2, DoneType DEF SubscribeSave, members
    <3>2. Subs' = Subs /\ Unsubs' = Unsubs
      BY <1>4, <2>1, <3>1, StillPending DEF Clears
    <3> QED
      BY <1>2, <1>5, <1>8, <2>1, <3>1, <3>2, QuietBalance DEF Exists
  <2>3. CASE ~Taken({handler[p].who})
    <3>1. /\ role' = [role EXCEPT ![handler[p].who] = "member"]
          /\ Moves(p, "subCount")
      BY <1>3, <1>12, <2>3, AdvanceType DEF SubscribeSave, Steps
    <3>2. /\ handler[p].who \notin Members
          /\ Members' = Members \cup {handler[p].who}
      BY <1>3, <2>1, <2>3, <3>1 DEF Taken, Members
    <3>3. Subs' = Subs \cup {p} /\ p \notin Subs /\ Unsubs' = Unsubs
      BY <1>4, <2>1, <3>1 DEF Subs, Unsubs, Moves
    <3>4. Cardinality(Members') = Cardinality(Members) + 1
      BY <1>6, <3>2, FS_AddElement
    <3>5. Cardinality(Subs') = Cardinality(Subs) + 1
      BY <1>6, <3>3, FS_AddElement
    <3>6. Early' = Early /\ (Exists' <=> Exists)
      BY <2>1 DEF Early, Exists
    <3>7. Balanced'
      BY <1>2, <1>3, <1>6, <2>1, <3>3, <3>4, <3>5, <3>6 DEF Balanced
    <3> QED
      BY <1>5, <2>1, <3>1, <3>6, <3>7
         DEF Placed, AloneSteps, Creating, Moves
  <2> QED
    BY <2>2, <2>3
<1>13. CASE SubscribeCount(p)
  <2>1. /\ handler[p].step = "subCount" /\ count' = count + 1 /\ Clears(p)
        /\ UNCHANGED <<owner, role, seat>>
    BY <1>3, <1>13, DoneType DEF SubscribeCount, members, history
  <2>2. Subs' = Subs \ {p} /\ p \in Subs /\ Unsubs' = Unsubs
    BY <1>4, <2>1 DEF Subs, Unsubs, Clears
  <2>3. Cardinality(Subs') = Cardinality(Subs) - 1
    BY <1>6, <2>2, FS_RemoveElement
  <2>4. Early' = Early /\ Members' = Members /\ Exists
    BY <1>3, <2>1 DEF Early, Exists, Members, Placed
  <2>5. Balanced'
    BY <1>2, <1>3, <1>6, <2>1, <2>2, <2>3, <2>4 DEF Balanced, Exists
  <2> QED
    BY <1>5, <1>8, <2>1, <2>5 DEF Exists
<1>14. CASE UnsubscribeRemove(p)
  <2>1. /\ handler[p].step = "unsubRemove" /\ Moves(p, "unsubCount")
        /\ UNCHANGED <<owner, count, seat>>
        /\ \/ role' = [role EXCEPT ![handler[p].who] = "none"]
           \/ role' = role
    BY <1>3, <1>14, AdvanceType
    DEF UnsubscribeRemove, Delete, members, conversation, history, Steps
  <2>2. Unsubs' = Unsubs \cup {p} /\ p \notin Unsubs /\ Subs' = Subs
    BY <1>4, <2>1 DEF Subs, Unsubs, Moves
  <2>3. Cardinality(Unsubs') = Cardinality(Unsubs) + 1
    BY <1>6, <2>2, FS_AddElement
  <2>4. Members' = Members \ {handler[p].who} \/ Members' = Members
    BY <1>3, <2>1 DEF Members
  <2>5. /\ Cardinality(Members') \in Nat
        /\ Cardinality(Members') >= Cardinality(Members) - 1
    <3>1. CASE Members' = Members
      BY <1>6, <3>1
    <3>2. CASE Members' = Members \ {handler[p].who}
      <4>1. Cardinality(Members \ {handler[p].who}) =
              IF handler[p].who \in Members THEN Cardinality(Members) - 1
              ELSE Cardinality(Members)
        BY <1>6, FS_RemoveElement
      <4>2. Cardinality(Members \ {handler[p].who}) \in Nat
        BY <1>6, FS_RemoveElement, FS_CardinalityType
      <4> QED
        BY <1>6, <3>2, <4>1, <4>2
    <3> QED
      BY <2>4, <3>1, <3>2
  <2>6. Early' = Early /\ (Exists' <=> Exists)
    BY <2>1 DEF Early, Exists
  <2>7. Balanced'
    BY <1>2, <1>3, <1>6, <2>1, <2>2, <2>3, <2>5, <2>6 DEF Balanced
  <2> QED
    BY <1>3, <1>5, <2>1, <2>6, <2>7 DEF Placed, AloneSteps, Creating, Moves
<1>15. CASE UnsubscribeCount(p)
  <2>1. /\ handler[p].step = "unsubCount" /\ count' = count - 1 /\ Clears(p)
        /\ UNCHANGED <<owner, role, seat>>
    BY <1>3, <1>15, DoneType DEF UnsubscribeCount, members, history
  <2>2. Unsubs' = Unsubs \ {p} /\ p \in Unsubs /\ Subs' = Subs
    BY <1>4, <2>1 DEF Subs, Unsubs, Clears
  <2>3. Cardinality(Unsubs') = Cardinality(Unsubs) - 1
    BY <1>6, <2>2, FS_RemoveElement
  <2>4. Early' = Early /\ Members' = Members /\ Exists
    BY <1>3, <2>1 DEF Early, Exists, Members, Placed
  <2>5. Balanced'
    BY <1>2, <1>3, <1>6, <2>1, <2>2, <2>3, <2>4 DEF Balanced, Exists
  <2> QED
    BY <1>5, <1>8, <2>1, <2>5 DEF Exists
<1> QED
  BY <1>7, <1>9, <1>10, <1>11, <1>12, <1>13, <1>14, <1>15

\* While users only subscribe and unsubscribe, the count of a channel at rest is
\* no more than its member rows, however often and however early they do.
THEOREM CountNotInflatedCorrect == Spec => []CountNotInflated
<1>1. Ownership /\ Balance /\ [Next]_vars => Balance'
  <2>1. ASSUME Balance, UNCHANGED vars PROVE Balance'
    BY <2>1 DEF Balance, Balanced, Placed, Creating, Subs, Unsubs, Early, Exists,
                Members, Alone, IsChannel, At, vars
  <2> QED
    BY <2>1, ReadingBalance, WritingBalance, NextSplits
<1>2. Ownership /\ Balance => CountNotInflated
  <2> SUFFICES ASSUME Ownership, Balance, Quiet, Alone, seat = "held"
               PROVE  count <= Cardinality(Members)
    BY DEF CountNotInflated, Alone
  <2>1. Subs = {} /\ Unsubs = {}
    BY DEF Quiet, At, Subs, Unsubs
  <2>2. Balanced /\ Early = 0
    BY DEF Balance, Early
  <2>3. count \in Int /\ Cardinality(Members) \in Nat
    BY MembersFinite DEF Ownership, TypeOK
  <2> QED
    BY <2>1, <2>2, <2>3, FS_EmptySet DEF Balanced
<1> QED
  BY <1>1, <1>2, InitBalance, InitOwnership, OwnershipInductive, PTL DEF Spec
=============================================================================
