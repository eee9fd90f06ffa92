-------------------------- MODULE DirectChatProofs --------------------------
(***************************************************************************)
(* Proofs about DirectChat for any finite set of users, any conversations, *)
(* times, keys and requests, and any mixture of operations.                *)
(*                                                                         *)
(* No request holds a lock, so each acts on what it read earlier.  The     *)
(* invariant says what is left of it: private conversations only appear    *)
(* and fill, hence what was found in them stays; members of groups come    *)
(* and go, hence a holder of a replaced key has either a conversation in   *)
(* common with its owner or been without one; settings and defaults change *)
(* under a lookup, hence it relates what was read to what is in force now  *)
(* and to what has been since.                                             *)
(***************************************************************************)
EXTENDS DirectChat, FiniteSetTheorems, TLAPS

USE UsersAssumption, BoundsAssumption, ValuesAssumption

\* The row in force for user u in conversation c, and what results: InForce for
\* any conversations.
Chosen(u, c, kind, others, mine, ours) ==
  IF kind = "private"
  THEN IF others = {} THEN None ELSE mine[<<u, CHOOSE v \in others : TRUE>>]
  ELSE ours[<<u, c>>]
Setting(u, c, types, membs, mine, ours) ==
  Chosen(u, c, types[c], membs[c] \ {u}, mine, ours)
Resulting(u, c, types, membs, mine, ours, mean) ==
  IF Setting(u, c, types, membs, mine, ours) # None
  THEN Setting(u, c, types, membs, mine, ours) ELSE mean[u]

\* Who and what a request is about, statement by statement.
Named(l, types, membs) ==
  /\ l.step \in {"members", "create", "join", "count", "chats", "shared", "read"}
       => l.user \in Users /\ l.peer \in Users \ {l.user}
  /\ l.step \in {"join", "count"} => l.chat \in Chats /\ types[l.chat] = "private"
  /\ l.step = "join" => membs[l.chat] = {}
  /\ l.step \in {"member"} \cup Resolving =>
       l.user \in Users /\ l.chat \in Chats /\ types[l.chat] # "absent"
  /\ l.step \in {"member", "default", "counterpart"} => l.peer = None
  /\ l.step \in Resolving /\ types[l.chat] = "private" =>
       l.user \in membs[l.chat]
  /\ l.step = "counterpart" => types[l.chat] = "private"
  /\ l.step = "own" =>
       IF types[l.chat] = "private"
       THEN l.peer \in Users \ {l.user} /\ membs[l.chat] = {l.user, l.peer}
       ELSE l.peer = None
  /\ l.step \in {"setMember", "setFind", "update", "insert"} =>
       /\ l.user \in Users /\ l.ttl \in Ttls /\ l.peer # l.user
       /\ l.peer = None => l.chat \in Chats
  /\ l.step \in {"keyFind", "keyInsert", "rotate"} =>
       l.user \in Users /\ l.key \in Keys
  /\ l.step = "peers" => l.user \in Users

\* A request that could see a conversation of the two has not overlooked it.
Seen(l, types, membs) ==
  l.known =>
    /\ l.step \in {"members", "opened"}
    /\ l.step = "members" =>
         \E c \in Chats : /\ types[c] = "private"
                          /\ membs[c] = {l.user, l.peer}
                          /\ "mine" \in l.todo \/ c \in l.mine
                          /\ "theirs" \in l.todo \/ c \in l.theirs

\* What a lookup has read of the default is in force if nothing changed since;
\* after one change it was in force before, or a setting overrules it anyway.
Looked(l, types, membs, mine, ours, mean) ==
  /\ l.step \in Resolving =>
       Resulting(l.user, l.chat, types, membs, mine, ours, mean) \in l.was
  /\ l.step \in {"counterpart", "own"} /\ l.writes < 2 =>
       \/ l.ttl = mean[l.user]
       \/ /\ l.writes = 1
          /\ \/ l.ttl \in l.was
             \/ Setting(l.user, l.chat, types, membs, mine, ours) # None
  /\ l.step = "stored" /\ l.writes < 2 => l.ttl \in l.was

Known(l, types, membs, mine, ours, mean) ==
  /\ Named(l, types, membs) /\ Seen(l, types, membs)
  /\ Looked(l, types, membs, mine, ours, mean)

Knowing ==
  \A r \in Requests : Known(loc[r], type, members, byUser, byChat, default)

\* A conversation without a row has no members, and one that is being created
\* is filled by one request.
Apart ==
  /\ type[Group] = "group"
  /\ \A c \in Chats : type[c] = "absent" => members[c] = {}
  /\ \A q, r \in Requests :
       q # r /\ At(q, "join") /\ At(r, "join") => loc[q].chat # loc[r].chat

\* A key was given only where there is one; who holds a replaced key is in a
\* conversation with its owner, or has been without one since the replacement.
Pins ==
  \A p \in Pairs :
    /\ pinned[p] # None => key[p[2]] # None
    /\ pinned[p] \notin {None, key[p[2]]} =>
         p \in parted \/ Together(p[1], p[2], members)

Inv == TypeOK /\ Apart /\ Knowing /\ Pins /\ PeersHear

\* Conversations stay what they are, and private ones keep their members.
Steady(types, types2, membs, membs2) ==
  \A c \in Chats :
    /\ types[c] # "absent" => types2[c] = types[c]
    /\ types[c] = "private" /\ membs[c] # {} => membs2[c] = membs[c]

-----------------------------------------------------------------------------
LEMMA PairsOfUsers ==
  /\ \A p \in Pairs : /\ p[1] \in Users /\ p[2] \in Users /\ p[1] # p[2]
                      /\ p = <<p[1], p[2]>>
  /\ \A u \in Users, v \in Users : u # v => <<u, v>> \in Pairs
BY DEF Pairs

\* Two users are a set of two.
LEMMA TwoUsers ==
  ASSUME NEW u \in Users, NEW v \in Users \ {u}
  PROVE  /\ {u, v} \in SUBSET Users /\ Cardinality({u, v}) = 2
         /\ 2 \in 0 .. Cardinality(Users)
<1>1. IsFiniteSet({u}) /\ Cardinality({u}) = 1
  BY FS_Singleton
<1>2. {u, v} = {u} \cup {v} /\ v \notin {u}
  OBVIOUS
<1>3. Cardinality({u, v}) = 2
  <2>1. Cardinality({u} \cup {v}) = Cardinality({u}) + 1
    BY <1>1, <1>2, FS_AddElement, Zenon
  <2>2. Cardinality({u, v}) = 1 + 1
    BY <1>1, <1>2, <2>1, Zenon
  <2>3. 1 + 1 = 2
    OBVIOUS
  <2> QED
    BY <2>2, <2>3, Zenon
<1>4. {u, v} \in SUBSET Users
  OBVIOUS
<1>5. Cardinality({u, v}) <= Cardinality(Users)
  BY <1>4, FS_Subset
<1>6. Cardinality(Users) \in Nat
  BY FS_CardinalityType
<1> QED
  BY <1>3, <1>4, <1>5, <1>6

LEMMA EmptyTyped == NoLocal \in Local
BY DEF NoLocal, Local

LEMMA NothingKnown ==
  \A types, membs, mine, ours, mean :
    Known(NoLocal, types, membs, mine, ours, mean)
<1>1. NoLocal.step = "idle" /\ NoLocal.known = FALSE
  BY DEF NoLocal
<1> QED
  BY <1>1 DEF Known, Named, Seen, Looked, Resolving

\* Neither the growth of conversations nor the coming and going of members takes
\* anything away from what a request knows.
LEMMA KnownKept ==
  ASSUME NEW l \in Local, NEW types, NEW types2, NEW membs, NEW membs2,
         NEW mine, NEW ours, NEW mean,
         Steady(types, types2, membs, membs2),
         l.step = "join" => membs2[l.chat] = {},
         Known(l, types, membs, mine, ours, mean)
  PROVE  Known(l, types2, membs2, mine, ours, mean)
<1>3. Named(l, types2, membs2)
  <2>2. l.step = "own" =>
          IF types2[l.chat] = "private"
          THEN l.peer \in Users \ {l.user} /\ membs2[l.chat] = {l.user, l.peer}
          ELSE l.peer = None
    BY DEF Known, Named, Steady, Resolving
  <2>3. l.step \in Resolving /\ types2[l.chat] = "private" =>
          l.user \in membs2[l.chat]
    BY DEF Known, Named, Steady
  <2> QED
    BY <2>2, <2>3 DEF Known, Named, Steady, Resolving
<1>4. Seen(l, types2, membs2)
  BY DEF Known, Seen, Steady
<1>5. l.step \in Resolving =>
        /\ types2[l.chat] = types[l.chat]
        /\ types[l.chat] = "private" => membs2[l.chat] = membs[l.chat]
  BY DEF Known, Named, Steady
<1>6. ASSUME l.step \in Resolving
      PROVE  /\ Setting(l.user, l.chat, types2, membs2, mine, ours)
                  = Setting(l.user, l.chat, types, membs, mine, ours)
             /\ Resulting(l.user, l.chat, types2, membs2, mine, ours, mean)
                  = Resulting(l.user, l.chat, types, membs, mine, ours, mean)
  <2>1. /\ types2[l.chat] = types[l.chat]
        /\ types[l.chat] = "private" => membs2[l.chat] = membs[l.chat]
    BY <1>5, <1>6
  <2>2. Setting(l.user, l.chat, types2, membs2, mine, ours)
          = Setting(l.user, l.chat, types, membs, mine, ours)
    <3>1. CASE types[l.chat] = "private"
      <4>1. membs2[l.chat] = membs[l.chat]
        BY <2>1, <3>1
      <4> QED
        BY <2>1, <4>1 DEF Setting
    <3>2. CASE types[l.chat] # "private"
      BY <2>1, <3>2 DEF Setting, Chosen
    <3> QED
      BY <3>1, <3>2
  <2> QED
    BY <2>2 DEF Resulting
<1>7. Looked(l, types2, membs2, mine, ours, mean)
  BY <1>6 DEF Known, Looked, Resolving
<1> QED
  BY <1>3, <1>4, <1>7 DEF Known

\* Records that differ only in what they note of the settings.
Same(l, l2) ==
  /\ l2.step = l.step /\ l2.user = l.user /\ l2.peer = l.peer
  /\ l2.chat = l.chat /\ l2.ttl = l.ttl /\ l2.key = l.key
  /\ l2.mine = l.mine /\ l2.theirs = l.theirs /\ l2.todo = l.todo
  /\ l2.known = l.known

\* A lookup takes note of a change of a setting or of a default, not of both.
LEMMA NotedKept ==
  ASSUME NEW l \in Local, NEW l2 \in Local, NEW types, NEW membs,
         NEW mine, NEW ours, NEW mean, NEW mine2, NEW ours2, NEW mean2,
         Known(l, types, membs, mine, ours, mean),
         Same(l, l2),
         mean2 = mean \/ (mine2 = mine /\ ours2 = ours),
         l.step \in Resolving =>
           /\ l2.was = l.was \cup
                {Resulting(l.user, l.chat, types, membs, mine2, ours2, mean2)}
           /\ l2.writes = IF l.writes < 2 THEN l.writes + 1 ELSE l.writes,
         l.step \notin Resolving => l2.was = l.was /\ l2.writes = l.writes
  PROVE  Known(l2, types, membs, mine2, ours2, mean2)
<1>1. Named(l2, types, membs)
  BY DEF Known, Named, Same
<1>2. Seen(l2, types, membs)
  BY DEF Known, Seen, Same
<1>3. l.writes \in 0 .. 2 /\ l2.writes \in 0 .. 2
  BY DEF Local
<1>4. CASE l.step \notin Resolving
  BY <1>1, <1>2, <1>4 DEF Known, Looked, Resolving, Same
<1>5. CASE l.step \in Resolving
  <2>1. Resulting(l2.user, l2.chat, types, membs, mine2, ours2, mean2) \in l2.was
    BY <1>5 DEF Same
  <2>2. ASSUME l.step \in {"counterpart", "own"}, l2.writes < 2
        PROVE  /\ l2.writes = 1
               /\ \/ l2.ttl = mean2[l2.user]
                  \/ l2.ttl \in l2.was
                  \/ Setting(l2.user, l2.chat, types, membs, mine2, ours2)
                       # None
    <3>1. l.writes = 0 /\ l2.writes = 1
      BY <1>3, <1>5, <2>2
    <3>2. l.ttl = mean[l.user]
      BY <2>2, <3>1 DEF Known, Looked
    <3>3. CASE mean2 = mean
      BY <3>1, <3>2, <3>3 DEF Same
    <3>4. CASE mine2 = mine /\ ours2 = ours
      <4>1. Resulting(l.user, l.chat, types, membs, mine, ours, mean) \in l2.was
        BY <1>5 DEF Known, Looked
      <4> QED
        BY <3>1, <3>2, <3>4, <4>1 DEF Resulting, Same
    <3> QED
      BY <3>3, <3>4
  <2>3. Looked(l2, types, membs, mine2, ours2, mean2)
    BY <1>5, <2>1, <2>2 DEF Looked, Same, Resolving
  <2> QED
    BY <1>1, <1>2, <2>3 DEF Known
<1> QED
  BY <1>4, <1>5

-----------------------------------------------------------------------------
\* What is found in the conversations and the settings as they are is known.
LEMMA OwnStep ==
  ASSUME Inv, NEW r \in Requests, NEW record \in Local, Goto(r, record),
         UNCHANGED <<type, members, settings>>,
         Known(record, type, members, byUser, byChat, default),
         record.step # "join"
  PROVE  loc' \in [Requests -> Local] /\ Knowing' /\ Apart'
<1>1. /\ loc' \in [Requests -> Local] /\ loc'[r] = record
      /\ \A q \in Requests \ {r} : loc'[q] = loc[q]
  BY DEF Goto, Inv, TypeOK
<1>2. UNCHANGED <<type, members, byUser, byChat, default>>
  BY DEF settings
<1>3. \A q \in Requests :
        Known(loc'[q], type, members, byUser, byChat, default)
  BY <1>1 DEF Inv, Knowing
<1>4. Apart'
  BY <1>1, <1>2 DEF Inv, Apart, At
<1> QED
  BY <1>1, <1>2, <1>3, <1>4 DEF Knowing

\* A request that only reads keeps the invariant if it knows what it remembers,
\* and does not forget to tell the others of a new key.
LEMMA ReadStep ==
  ASSUME Inv, NEW r \in Requests, NEW record \in Local, Goto(r, record), Reads,
         Known(record, type, members, byUser, byChat, default),
         record.step # "join", At(r, "peers") => "fail" \in ops
  PROVE  Inv'
<1>1. UNCHANGED <<type, members, count, byUser, byChat, default, key, pinned,
                  told, parted, ops>>
  BY DEF Reads, chats, settings, keys
<1>2. loc' \in [Requests -> Local] /\ Knowing' /\ Apart'
  BY <1>1, OwnStep DEF settings
<1>3. TypeOK'
  BY <1>1, <1>2 DEF Inv, TypeOK
<1>4. Pins'
  BY <1>1 DEF Inv, Pins
<1>5. PeersHear'
  <2> SUFFICES ASSUME "fail" \notin ops, NEW p \in Pairs
               PROVE  \/ pinned[p] \in {None, key[p[2]]}
                      \/ told[p] \/ p \in parted
                      \/ \E q \in Requests : /\ At(q, "peers")'
                                             /\ loc'[q].user = p[2]
    BY <1>1 DEF PeersHear
  <2>1. \A q \in Requests : At(q, "peers") =>
          At(q, "peers")' /\ loc'[q].user = loc[q].user
    BY DEF Goto, At, Inv, TypeOK
  <2> QED
    BY <2>1 DEF Inv, PeersHear
<1> QED
  BY <1>2, <1>3, <1>4, <1>5 DEF Inv

\* A request that ends, with or without an answer.
LEMMA GivesUp ==
  ASSUME Inv, NEW r \in Requests, Goto(r, NoLocal), Reads,
         At(r, "peers") => "fail" \in ops
  PROVE  Inv'
<1>1. /\ NoLocal \in Local /\ NoLocal.step = "idle"
      /\ Known(NoLocal, type, members, byUser, byChat, default)
  BY EmptyTyped, NothingKnown DEF NoLocal
<1>2. NoLocal.step # "join"
  BY <1>1
<1> QED
  BY <1>1, <1>2, ReadStep

\* An operation begins.
LEMMA Begins ==
  ASSUME Inv, NEW r \in Requests, NEW op, NEW record \in Local,
         Begin(r, op, record),
         Known(record, type, members, byUser, byChat, default),
         record.step # "join"
  PROVE  Inv'
BY ReadStep DEF Begin, At

-----------------------------------------------------------------------------
\* The two lookups of the conversations, and what is taken from them.
LEMMA OpenReads ==
  ASSUME Inv, NEW r \in Requests,
         \/ \E p \in Acting : OpenStart(r, p[1], p[2]) \/ OpenStart(r, p[2], p[1])
         \/ OpenMine(r) \/ OpenTheirs(r) \/ OpenFind(r)
  PROVE  Inv'
<1>a. loc[r] \in Local /\ Known(loc[r], type, members, byUser, byChat, default)
  BY DEF Inv, TypeOK, Knowing
<1>b. \A u : MyChats(u) \in SUBSET Chats
  BY DEF MyChats
<1>1. ASSUME NEW u \in Users, NEW v \in Users \ {u}, OpenStart(r, u, v)
      PROVE  Inv'
  <2> DEFINE sees == Private(u, v) # {}
             record == [NoLocal EXCEPT
               !.step = "members", !.user = u, !.peer = v,
               !.todo = {"mine", "theirs"}, !.known = sees]
  <2>1. sees \in BOOLEAN
    OBVIOUS
  <2>2. sees => \E c \in Chats : type[c] = "private" /\ members[c] = {u, v}
    BY DEF Private
  <2>3. Begin(r, "open", record)
    BY <1>1 DEF OpenStart
  <2> HIDE DEF sees
  <2>4. record \in Local
    <3> DEFINE base == [NoLocal EXCEPT !.step = "members", !.user = u,
                                       !.peer = v, !.todo = {"mine", "theirs"}]
    <3>1. base \in Local
      BY EmptyTyped DEF Local
    <3>2. record = [base EXCEPT !.known = sees]
      BY DEF NoLocal
    <3> HIDE DEF base, record
    <3>3. [base EXCEPT !.known = sees] \in Local
      BY <2>1, <3>1 DEF Local
    <3> QED
      BY <3>2, <3>3
  <2>5. /\ record.step = "members" /\ record.user = u /\ record.peer = v
        /\ record.todo = {"mine", "theirs"} /\ record.known = sees
    BY DEF NoLocal
  <2> HIDE DEF record
  <2>6. Known(record, type, members, byUser, byChat, default)
    BY <2>2, <2>5 DEF Known, Named, Seen, Looked, Resolving
  <2> QED
    BY <2>3, <2>4, <2>5, <2>6, Begins
<1>2. CASE OpenMine(r)
  <2> DEFINE record == [loc[r] EXCEPT !.mine = MyChats(loc[r].user),
                                      !.todo = @ \ {"mine"}]
  <2>1. At(r, "members") /\ Goto(r, record) /\ Reads
    BY <1>2 DEF OpenMine
  <2>2. record \in Local
    BY <1>a, <1>b DEF Local
  <2>3. /\ record.step = "members" /\ record.user = loc[r].user
        /\ record.peer = loc[r].peer /\ record.mine = MyChats(loc[r].user)
        /\ record.todo = loc[r].todo \ {"mine"} /\ record.known = loc[r].known
        /\ record.theirs = loc[r].theirs
    BY <1>a, <2>1 DEF Local, At
  <2> HIDE DEF record
  <2>4. Known(record, type, members, byUser, byChat, default)
    <3>1. loc[r].user \in Users /\ loc[r].peer \in Users \ {loc[r].user}
      BY <1>a, <2>1 DEF Known, Named, At
    <3>2. Seen(record, type, members)
      BY <1>a, <2>1, <2>3 DEF Known, Seen, At, MyChats
    <3> QED
      BY <2>3, <3>1, <3>2 DEF Known, Named, Looked, Resolving
  <2> QED
    BY <2>1, <2>2, <2>3, <2>4, ReadStep DEF At
<1>3. CASE OpenTheirs(r)
  <2> DEFINE record == [loc[r] EXCEPT !.theirs = MyChats(loc[r].peer),
                                      !.todo = @ \ {"theirs"}]
  <2>1. At(r, "members") /\ Goto(r, record) /\ Reads
    BY <1>3 DEF OpenTheirs
  <2>2. record \in Local
    BY <1>a, <1>b DEF Local
  <2>3. /\ record.step = "members" /\ record.user = loc[r].user
        /\ record.peer = loc[r].peer /\ record.theirs = MyChats(loc[r].peer)
        /\ record.todo = loc[r].todo \ {"theirs"} /\ record.known = loc[r].known
        /\ record.mine = loc[r].mine
    BY <1>a, <2>1 DEF Local, At
  <2> HIDE DEF record
  <2>4. Known(record, type, members, byUser, byChat, default)
    <3>1. loc[r].user \in Users /\ loc[r].peer \in Users \ {loc[r].user}
      BY <1>a, <2>1 DEF Known, Named, At
    <3>2. Seen(record, type, members)
      BY <1>a, <2>1, <2>3 DEF Known, Seen, At, MyChats
    <3> QED
      BY <2>3, <3>1, <3>2 DEF Known, Named, Looked, Resolving
  <2> QED
    BY <2>1, <2>2, <2>3, <2>4, ReadStep DEF At
<1>4. CASE OpenFind(r)
  <2> DEFINE common == {c \in loc[r].mine \cap loc[r].theirs :
                          type[c] = "private"}
  <2>1. /\ At(r, "members") /\ loc[r].todo = {} /\ Reads
        /\ \/ common = {} /\ Goto(r, Step(r, "create"))
           \/ \E c \in common : Goto(r, [Step(r, "opened") EXCEPT !.chat = c])
    BY <1>4 DEF OpenFind
  <2>2. CASE common = {} /\ Goto(r, Step(r, "create"))
    <3> DEFINE record == Step(r, "create")
    <3>1. record \in Local
      BY <1>a DEF Step, Local
    <3>2. /\ record.step = "create" /\ record.user = loc[r].user
          /\ record.peer = loc[r].peer /\ record.known = loc[r].known
      BY <1>a DEF Step, Local
    <3> HIDE DEF record
    <3>3. ~ loc[r].known
      BY <1>a, <2>1, <2>2 DEF Known, Seen, At
    <3>4. Known(record, type, members, byUser, byChat, default)
      BY <1>a, <2>1, <3>2, <3>3 DEF Known, Named, Seen, Looked, Resolving, At
    <3> QED
      BY <2>1, <2>2, <3>1, <3>2, <3>4, ReadStep DEF At, record
  <2>3. CASE \E c \in common : Goto(r, [Step(r, "opened") EXCEPT !.chat = c])
    <3>1. PICK c \in common : Goto(r, [Step(r, "opened") EXCEPT !.chat = c])
      BY <2>3
    <3> DEFINE record == [Step(r, "opened") EXCEPT !.chat = c]
    <3>2. c \in Chats
      BY <1>a DEF Local
    <3>3. record \in Local /\ record.step = "opened"
      BY <1>a, <3>2 DEF Step, Local
    <3> HIDE DEF record
    <3>4. Known(record, type, members, byUser, byChat, default)
      BY <3>3 DEF Known, Named, Seen, Looked, Resolving
    <3> QED
      BY <2>1, <3>1, <3>3, <3>4, ReadStep DEF At, record
  <2> QED
    BY <2>1, <2>2, <2>3
<1>5. \A p \in Acting : /\ p[1] \in Users /\ p[2] \in Users \ {p[1]}
                        /\ p[1] \in Users \ {p[2]}
  BY PairsOfUsers DEF Acting
<1> QED
  BY <1>1, <1>2, <1>3, <1>4, <1>5

\* A request that makes the conversations grow disturbs no other.
LEMMA GrowStep ==
  ASSUME Inv, NEW r \in Requests, NEW record \in Local, Goto(r, record),
         Steady(type, type', members, members'),
         \A c \in Chats : members[c] \subseteq members'[c],
         type' \in [Chats -> {"absent", "private", "group"}],
         members' \in [Chats -> SUBSET Users],
         \A c \in Chats : type'[c] = "private" /\ members'[c] # {} =>
           Cardinality(members'[c]) = 2,
         count' \in [Chats -> 0 .. Cardinality(Users)],
         UNCHANGED <<settings, keys, ops>>, ~ At(r, "peers"), Apart',
         \A q \in Requests \ {r} : At(q, "join") => members'[loc[q].chat] = {},
         Known(record, type', members', byUser, byChat, default)
  PROVE  Inv'
<1>1. UNCHANGED <<byUser, byChat, default, key, pinned, told, parted, ops>>
  BY DEF settings, keys
<1>2. /\ loc' \in [Requests -> Local] /\ loc'[r] = record
      /\ \A q \in Requests \ {r} : loc'[q] = loc[q]
  BY DEF Goto, Inv, TypeOK
<1>3. Knowing'
  <2>1. ASSUME NEW q \in Requests
        PROVE  Known(loc'[q], type', members', byUser, byChat, default)
    <3>1. CASE q = r
      BY <1>2, <3>1
    <3>2. CASE q # r
      <4>1. /\ loc[q] \in Local
            /\ Known(loc[q], type, members, byUser, byChat, default)
            /\ loc[q].step = "join" => members'[loc[q].chat] = {}
        BY <3>2 DEF Inv, TypeOK, Knowing, At
      <4> QED
        BY <1>2, <3>2, <4>1, KnownKept
    <3> QED
      BY <3>1, <3>2
  <2> QED
    BY <1>1, <2>1 DEF Knowing
<1>4. TypeOK'
  BY <1>1, <1>2 DEF Inv, TypeOK
<1>5. Pins'
  <2>1. \A u, v : Together(u, v, members) => Together(u, v, members')
    BY DEF Together
  <2> QED
    BY <1>1, <2>1 DEF Inv, Pins
<1>6. PeersHear'
  BY <1>1, <1>2 DEF Inv, PeersHear, At
<1> QED
  BY <1>3, <1>4, <1>5, <1>6 DEF Inv

\* The new conversation is nobody else's until its members have joined.
LEMMA Creates ==
  ASSUME Inv, NEW r \in Requests, OpenCreate(r)
  PROVE  Inv'
<1>a. /\ loc[r] \in Local /\ loc[r].step = "create"
      /\ Known(loc[r], type, members, byUser, byChat, default)
      /\ type \in [Chats -> {"absent", "private", "group"}]
      /\ members \in [Chats -> SUBSET Users]
  BY DEF Inv, TypeOK, Knowing, OpenCreate, At
<1>1. PICK c \in Chats :
        /\ type[c] = "absent" /\ type' = [type EXCEPT ![c] = "private"]
        /\ Goto(r, [Step(r, "join") EXCEPT !.chat = c])
  BY DEF OpenCreate
<1> DEFINE record == [Step(r, "join") EXCEPT !.chat = c]
<1>2. record \in Local
  BY <1>a DEF Step, Local
<1>3. /\ record.step = "join" /\ record.user = loc[r].user
      /\ record.peer = loc[r].peer /\ record.chat = c
      /\ record.known = loc[r].known
  BY <1>a DEF Step, Local
<1>4. Goto(r, record) /\ UNCHANGED <<members, count, settings, keys, ops>>
  BY <1>1 DEF OpenCreate
<1> HIDE DEF record
<1>5. /\ type' \in [Chats -> {"absent", "private", "group"}]
      /\ type'[c] = "private" /\ \A d \in Chats \ {c} : type'[d] = type[d]
  BY <1>a, <1>1
<1>6. members[c] = {}
  BY <1>1 DEF Inv, Apart
<1>7. Steady(type, type', members, members')
  BY <1>1, <1>4, <1>5 DEF Steady
<1>8. \A q \in Requests \ {r} : At(q, "join") =>
        /\ members[loc[q].chat] = {} /\ loc[q].chat # c
  BY <1>1 DEF Inv, Knowing, Known, Named, At
<1>9. Known(record, type', members', byUser, byChat, default)
  BY <1>a, <1>3, <1>4, <1>5, <1>6
     DEF Known, Named, Seen, Looked, Resolving
<1>10. Apart'
  <2>1. \A q \in Requests \ {r} : loc'[q] = loc[q]
    BY <1>4 DEF Goto, Inv, TypeOK
  <2>2. loc'[r] = record
    BY <1>4 DEF Goto, Inv, TypeOK
  <2>3. \A d \in Chats : type'[d] = "absent" => members'[d] = {}
    BY <1>4, <1>5 DEF Inv, Apart
  <2>4. ASSUME NEW p \in Requests, NEW q \in Requests, p # q,
               loc'[p].step = "join", loc'[q].step = "join"
        PROVE  loc'[p].chat # loc'[q].chat
    <3>1. CASE p = r
      BY <1>3, <1>8, <2>1, <2>2, <2>4, <3>1 DEF At
    <3>2. CASE q = r
      BY <1>3, <1>8, <2>1, <2>2, <2>4, <3>2 DEF At
    <3>3. CASE p # r /\ q # r
      BY <2>1, <2>4, <3>3 DEF Inv, Apart, At
    <3> QED
      BY <3>1, <3>2, <3>3
  <2>5. type'[Group] = "group"
    BY <1>1, <1>5 DEF Inv, Apart
  <2> QED
    BY <2>3, <2>4, <2>5 DEF Apart, At
<1>11. \A d \in Chats : type'[d] = "private" /\ members'[d] # {} =>
         Cardinality(members'[d]) = 2
  BY <1>4, <1>5, <1>6 DEF Inv, TypeOK
<1>12. /\ members' \in [Chats -> SUBSET Users]
       /\ \A d \in Chats : members[d] \subseteq members'[d]
       /\ count' \in [Chats -> 0 .. Cardinality(Users)]
       /\ UNCHANGED <<settings, keys, ops>> /\ ~ At(r, "peers")
       /\ \A q \in Requests \ {r} : At(q, "join") => members'[loc[q].chat] = {}
  BY <1>a, <1>4, <1>8 DEF Inv, TypeOK, At
<1> QED
  BY <1>2, <1>4, <1>5, <1>7, <1>9, <1>10, <1>11, <1>12, GrowStep

\* Both join, and nobody else was about to join this conversation.
LEMMA Joins ==
  ASSUME Inv, NEW r \in Requests, OpenJoin(r)
  PROVE  Inv'
<1> DEFINE c == loc[r].chat
           u == loc[r].user
           v == loc[r].peer
           record == Step(r, "count")
<1>a. /\ loc[r] \in Local /\ loc[r].step = "join"
      /\ Known(loc[r], type, members, byUser, byChat, default)
      /\ type \in [Chats -> {"absent", "private", "group"}]
      /\ members \in [Chats -> SUBSET Users]
  BY DEF Inv, TypeOK, Knowing, OpenJoin, At
<1>1. /\ c \in Chats /\ type[c] = "private" /\ members[c] = {}
      /\ u \in Users /\ v \in Users \ {u} /\ ~ loc[r].known
  BY <1>a DEF Known, Named, Seen
<1>2. /\ Goto(r, record) /\ members' = [members EXCEPT ![c] = {u, v}]
      /\ UNCHANGED <<type, count, settings, keys, ops>>
  BY DEF OpenJoin
<1>3. /\ record \in Local /\ record.step = "count" /\ record.user = u
      /\ record.peer = v /\ record.chat = c /\ record.known = loc[r].known
  BY <1>a DEF Step, Local
<1> HIDE DEF record, c, u, v
<1>4. /\ members' \in [Chats -> SUBSET Users] /\ members'[c] = {u, v}
      /\ \A d \in Chats \ {c} : members'[d] = members[d]
  BY <1>a, <1>1, <1>2
<1>5. Steady(type, type', members, members')
  BY <1>1, <1>2, <1>4 DEF Steady
<1>6. \A q \in Requests \ {r} : At(q, "join") => members'[loc[q].chat] = {}
  <2>1. \A q \in Requests \ {r} : At(q, "join") =>
          /\ loc[q].chat \in Chats /\ members[loc[q].chat] = {}
          /\ loc[q].chat # c
    BY <1>a DEF Inv, Apart, Knowing, Known, Named, At, c
  <2> QED
    BY <1>4, <2>1
<1>7. Known(record, type', members', byUser, byChat, default)
  BY <1>1, <1>2, <1>3 DEF Known, Named, Seen, Looked, Resolving
<1>8. Apart'
  <2>1. loc'[r] = record /\ \A q \in Requests \ {r} : loc'[q] = loc[q]
    BY <1>2 DEF Goto, Inv, TypeOK
  <2>2. \A d \in Chats : type'[d] = "absent" => members'[d] = {}
    BY <1>1, <1>2, <1>4 DEF Inv, Apart
  <2>3. \A q \in Requests : loc'[q].step = "join" => loc'[q] = loc[q]
    BY <1>3, <2>1
  <2>4. type'[Group] = "group"
    BY <1>2 DEF Inv, Apart
  <2> QED
    BY <2>2, <2>3, <2>4 DEF Inv, Apart, At
<1>9. \A d \in Chats : type'[d] = "private" /\ members'[d] # {} =>
        Cardinality(members'[d]) = 2
  <2>1. Cardinality({u, v}) = 2
    BY <1>1, TwoUsers
  <2> QED
    BY <1>2, <1>4, <2>1 DEF Inv, TypeOK
<1>10. /\ type' \in [Chats -> {"absent", "private", "group"}]
       /\ \A d \in Chats : members[d] \subseteq members'[d]
       /\ count' \in [Chats -> 0 .. Cardinality(Users)]
       /\ UNCHANGED <<settings, keys, ops>> /\ ~ At(r, "peers")
  BY <1>a, <1>1, <1>2, <1>4 DEF Inv, TypeOK, At
<1> QED
  BY <1>2, <1>3, <1>4, <1>5, <1>6, <1>7, <1>8, <1>9, <1>10, GrowStep

LEMMA Counts ==
  ASSUME Inv, NEW r \in Requests, OpenCount(r)
  PROVE  Inv'
<1> DEFINE record == Step(r, "opened")
<1>a. /\ loc[r] \in Local /\ loc[r].step = "count"
      /\ Known(loc[r], type, members, byUser, byChat, default)
  BY DEF Inv, TypeOK, Knowing, OpenCount, At
<1>1. /\ loc[r].chat \in Chats
      /\ loc[r].user \in Users /\ loc[r].peer \in Users \ {loc[r].user}
  BY <1>a DEF Known, Named
<1>2. 2 \in 0 .. Cardinality(Users)
  <2>1. \A u \in Users : \A v \in Users \ {u} : 2 \in 0 .. Cardinality(Users)
    <3> TAKE u \in Users
    <3> TAKE v \in Users \ {u}
    <3> QED
      BY TwoUsers, Zenon
  <2> QED
    BY <1>1, <2>1
<1>3. /\ Goto(r, record) /\ count' = [count EXCEPT ![loc[r].chat] = 2]
      /\ UNCHANGED <<type, members, settings, keys, ops>>
  BY DEF OpenCount
<1>4. record \in Local /\ record.step = "opened"
  BY <1>a DEF Step, Local
<1> HIDE DEF record
<1>5. count' \in [Chats -> 0 .. Cardinality(Users)]
  BY <1>1, <1>2, <1>3 DEF Inv, TypeOK
<1>6. UNCHANGED <<byUser, byChat, default>>
  BY <1>3 DEF settings
<1>7. Steady(type, type', members, members')
  BY <1>3 DEF Steady
<1>8. Known(record, type, members, byUser, byChat, default)
  BY <1>4 DEF Known, Named, Seen, Looked, Resolving
<1>9. Knowing' /\ Apart'
  BY <1>3, <1>4, <1>8, OwnStep
<1>10. Known(record, type', members', byUser, byChat, default)
  BY <1>3, <1>8
<1>11. /\ type' \in [Chats -> {"absent", "private", "group"}]
       /\ \A c \in Chats : members[c] \subseteq members'[c]
       /\ members' \in [Chats -> SUBSET Users]
       /\ \A c \in Chats : type'[c] = "private" /\ members'[c] # {} =>
            Cardinality(members'[c]) = 2
       /\ ~ At(r, "peers")
       /\ \A q \in Requests \ {r} : At(q, "join") => members'[loc[q].chat] = {}
  BY <1>a, <1>3 DEF Inv, TypeOK, At, Knowing, Known, Named
<1>12. UNCHANGED <<settings, keys, ops>>
  BY <1>3
<1> QED
  BY <1>3, <1>4, <1>5, <1>7, <1>9, <1>10, <1>11, <1>12, GrowStep

\* Whoever holds a replaced key, now or already before, and is not counted as
\* parted is in a conversation with its owner.
LEMMA PartedIs ==
  ASSUME Inv, parted' = Parted(members', key', pinned')
  PROVE  /\ parted' \subseteq Pairs
         /\ \A p \in Pairs :
              pinned'[p] \notin {None, key'[p[2]]} =>
                /\ p \in parted' \/ Together(p[1], p[2], members')
                /\ p \in parted => p \in parted'
BY DEF Parted

\* A member of the group leaves or returns; who holds a replaced key is parted.
LEMMA Moves ==
  ASSUME Inv, NEW u \in Movers, Move(u)
  PROVE  Inv'
<1>1. /\ members' = [members EXCEPT ![Group] =
                       IF u \in @ THEN @ \ {u} ELSE @ \cup {u}]
      /\ count' = [count EXCEPT ![Group] = Cardinality(members'[Group])]
      /\ parted' = Parted(members', key', pinned')
      /\ UNCHANGED <<type, byUser, byChat, default, key, pinned, told, loc, ops>>
  BY DEF Move, settings
<1>2. /\ u \in Users /\ Group \in Chats /\ type[Group] = "group"
      /\ members \in [Chats -> SUBSET Users]
  BY DEF Inv, Apart, TypeOK, Group, Chats
<1>3. /\ members' \in [Chats -> SUBSET Users]
      /\ \A c \in Chats \ {Group} : members'[c] = members[c]
  BY <1>1, <1>2
<1>4. count' \in [Chats -> 0 .. Cardinality(Users)]
  <2>1. members'[Group] \in SUBSET Users
    BY <1>2, <1>3
  <2>2. Cardinality(members'[Group]) \in 0 .. Cardinality(Users)
    BY <2>1, FS_Subset, FS_CardinalityType
  <2> QED
    BY <1>1, <1>2, <2>2 DEF Inv, TypeOK
<1>5. Steady(type, type', members, members')
  BY <1>1, <1>2, <1>3 DEF Steady
<1>6. Knowing'
  <2>1. ASSUME NEW q \in Requests
        PROVE  Known(loc[q], type', members', byUser, byChat, default)
    <3>1. /\ loc[q] \in Local
          /\ Known(loc[q], type, members, byUser, byChat, default)
      BY DEF Inv, TypeOK, Knowing
    <3>2. loc[q].step = "join" => members'[loc[q].chat] = {}
      BY <1>2, <1>3, <3>1 DEF Known, Named
    <3> QED
      BY <1>5, <3>1, <3>2, KnownKept
  <2> QED
    BY <1>1, <2>1 DEF Knowing
<1>7. Apart'
  BY <1>1, <1>2, <1>3 DEF Inv, Apart, At
<1>8. /\ parted' \subseteq Pairs
      /\ \A p \in Pairs :
           pinned[p] \notin {None, key[p[2]]} =>
             /\ p \in parted' \/ Together(p[1], p[2], members')
             /\ p \in parted => p \in parted'
  BY <1>1, PartedIs
<1>9. TypeOK'
  BY <1>1, <1>2, <1>3, <1>4, <1>8 DEF Inv, TypeOK
<1>10. Pins'
  BY <1>1, <1>8 DEF Inv, Pins
<1>11. PeersHear'
  BY <1>1, <1>8 DEF Inv, PeersHear, At
<1> QED
  BY <1>6, <1>7, <1>9, <1>10, <1>11 DEF Inv

-----------------------------------------------------------------------------
\* What the history of a lookup takes note of is what results.
LEMMA ForceIs ==
  \A u, c, mine, ours, mean :
    InForce(u, c, mine, ours, mean)
      = Resulting(u, c, type, members, mine, ours, mean)
BY DEF InForce, Resulting, Setting, Chosen

LEMMA ForceTyped ==
  ASSUME Inv, NEW u \in Users, NEW c \in Chats,
         NEW mine \in [Pairs -> Ttls \cup {None}],
         NEW ours \in [Users \X Chats -> Ttls \cup {None}],
         NEW mean \in [Users -> Ttls \cup {None}]
  PROVE  Resulting(u, c, type, members, mine, ours, mean) \in Ttls \cup {None}
<1>1. ASSUME members[c] \ {u} # {}
      PROVE  <<u, CHOOSE v \in members[c] \ {u} : TRUE>> \in Pairs
  <2>1. (CHOOSE v \in members[c] \ {u} : TRUE) \in members[c] \ {u}
    BY <1>1
  <2>2. members[c] \subseteq Users
    BY DEF Inv, TypeOK
  <2> QED
    BY <2>1, <2>2, PairsOfUsers
<1>2. Setting(u, c, type, members, mine, ours) \in Ttls \cup {None}
  BY <1>1 DEF Setting, Chosen
<1> QED
  BY <1>2 DEF Resulting

\* The row a lookup ends with is the one in force now.
LEMMA OwnIs ==
  ASSUME Inv, NEW r \in Requests, At(r, "own")
  PROVE  /\ Own(r) = Setting(loc[r].user, loc[r].chat, type, members, byUser,
                             byChat)
         /\ Own(r) \in Ttls \cup {None}
<1>1. /\ loc[r].user \in Users /\ loc[r].chat \in Chats
      /\ IF type[loc[r].chat] = "private"
         THEN /\ loc[r].peer \in Users \ {loc[r].user}
              /\ members[loc[r].chat] = {loc[r].user, loc[r].peer}
         ELSE loc[r].peer = None
  BY DEF Inv, Knowing, Known, Named, At, Resolving
<1>2. CASE type[loc[r].chat] = "private"
  <2>1. /\ loc[r].peer # None /\ <<loc[r].user, loc[r].peer>> \in Pairs
        /\ members[loc[r].chat] \ {loc[r].user} = {loc[r].peer}
    BY <1>1, <1>2, PairsOfUsers
  <2>2. (CHOOSE v \in {loc[r].peer} : TRUE) = loc[r].peer
    OBVIOUS
  <2>3. Setting(loc[r].user, loc[r].chat, type, members, byUser, byChat)
          = byUser[<<loc[r].user, loc[r].peer>>]
    BY <1>2, <2>1, <2>2 DEF Setting, Chosen
  <2> QED
    BY <2>1, <2>3 DEF Own, Inv, TypeOK
<1>3. CASE type[loc[r].chat] # "private"
  <2>1. Setting(loc[r].user, loc[r].chat, type, members, byUser, byChat)
          = byChat[<<loc[r].user, loc[r].chat>>]
    BY <1>3 DEF Setting, Chosen
  <2> QED
    BY <1>1, <1>3, <2>1 DEF Own, Inv, TypeOK
<1> QED
  BY <1>2, <1>3

\* The steps of a lookup: what is read of the default and of the setting stays in
\* step with what the history says has been in force.
LEMMA SendReads ==
  ASSUME Inv, NEW r \in Requests,
         \/ \E u \in Actors, c \in Chats, t \in Ttls \cup {None} :
              SendStart(r, u, c, t)
         \/ SendMember(r) \/ SendDefault(r)
         \/ SendCounterpart(r) \/ SendOwn(r)
  PROVE  Inv'
<1>a. loc[r] \in Local /\ Known(loc[r], type, members, byUser, byChat, default)
  BY DEF Inv, TypeOK, Knowing
<1>1. ASSUME NEW u \in Actors, NEW c \in Chats, NEW t \in Ttls \cup {None},
             SendStart(r, u, c, t)
      PROVE  Inv'
  <2> DEFINE step == IF t = None THEN "member" ELSE "stored"
             was == {t} \ {None}
             record == [NoLocal EXCEPT !.step = step, !.user = u, !.chat = c,
                                       !.ttl = t, !.was = was]
  <2>1. Begin(r, "send", record) /\ type[c] # "absent"
    BY <1>1 DEF SendStart
  <2>2. step \in {"member", "stored"} /\ (step = "member" <=> t = None)
    OBVIOUS
  <2> HIDE DEF step
  <2>3. record \in Local
    <3>1. was \in SUBSET (Ttls \cup {None})
      OBVIOUS
    <3>2. u \in Users \cup {None} /\ c \in Chats \cup {NoChat}
      OBVIOUS
    <3> HIDE DEF was
    <3> QED
      BY <2>2, <3>1, <3>2, EmptyTyped DEF Local
  <2>4. /\ record.step = step /\ record.user = u /\ record.chat = c
        /\ record.ttl = t /\ record.was = was
        /\ record.peer = None /\ record.known = FALSE
    BY DEF NoLocal
  <2> HIDE DEF record
  <2>5. Known(record, type, members, byUser, byChat, default)
    BY <2>1, <2>2, <2>4 DEF Known, Named, Seen, Looked, Resolving
  <2> QED
    BY <2>1, <2>2, <2>3, <2>4, <2>5, Begins
<1>2. CASE SendMember(r)
  <2> DEFINE u == loc[r].user
             c == loc[r].chat
             was == {InForce(u, c, byUser, byChat, default)}
             record == [Step(r, "default") EXCEPT !.was = was]
  <2>1. /\ At(r, "member") /\ Reads
        /\ Goto(r, IF u \in members[c] THEN record ELSE NoLocal)
    BY <1>2 DEF SendMember
  <2>2. CASE u \notin members[c]
    BY <2>1, <2>2, GivesUp DEF At
  <2>3. CASE u \in members[c]
    <3>1. /\ u \in Users /\ c \in Chats /\ type[c] # "absent"
          /\ loc[r].peer = None /\ ~ loc[r].known
      BY <1>a, <2>1 DEF Known, Named, Seen, At
    <3>2. was = {Resulting(u, c, type, members, byUser, byChat, default)}
      BY ForceIs
    <3>3. was \subseteq Ttls \cup {None}
      <4>1. /\ byUser \in [Pairs -> Ttls \cup {None}]
            /\ byChat \in [Users \X Chats -> Ttls \cup {None}]
            /\ default \in [Users -> Ttls \cup {None}]
        BY DEF Inv, TypeOK
      <4>2. Resulting(u, c, type, members, byUser, byChat, default)
              \in Ttls \cup {None}
        BY <3>1, <4>1, ForceTyped
      <4> QED
        BY <3>2, <4>2
    <3> HIDE DEF was
    <3>4. record \in Local
      BY <1>a, <3>3 DEF Step, Local
    <3>5. /\ record.step = "default" /\ record.user = u /\ record.chat = c
          /\ record.was = was /\ record.peer = None
          /\ record.known = loc[r].known
      BY <1>a, <3>1 DEF Step, Local
    <3> HIDE DEF record
    <3>6. Goto(r, record)
      BY <2>1, <2>3
    <3>7. Known(record, type, members, byUser, byChat, default)
      BY <2>3, <3>1, <3>2, <3>5 DEF Known, Named, Seen, Looked, Resolving
    <3> QED
      BY <2>1, <3>4, <3>5, <3>6, <3>7, ReadStep DEF At
  <2> QED
    BY <2>2, <2>3
<1>3. CASE SendDefault(r)
  <2> DEFINE u == loc[r].user
             c == loc[r].chat
             step == IF type[c] = "private" THEN "counterpart" ELSE "own"
             record == [loc[r] EXCEPT !.ttl = default[u], !.step = step]
  <2>1. At(r, "default") /\ Reads /\ Goto(r, record)
    BY <1>3 DEF SendDefault
  <2>2. /\ u \in Users /\ c \in Chats /\ type[c] # "absent"
        /\ type[c] = "private" => u \in members[c]
        /\ loc[r].peer = None /\ ~ loc[r].known
        /\ Resulting(u, c, type, members, byUser, byChat, default) \in loc[r].was
    BY <1>a, <2>1 DEF Known, Named, Seen, Looked, At, Resolving
  <2>3. /\ step \in {"counterpart", "own"}
        /\ step = "counterpart" <=> type[c] = "private"
    OBVIOUS
  <2> HIDE DEF step
  <2>4. record \in Local
    <3>1. default[u] \in Ttls \cup {None}
      BY <2>2 DEF Inv, TypeOK
    <3> QED
      BY <1>a, <2>3, <3>1 DEF Local
  <2>5. /\ record.step = step /\ record.user = u /\ record.chat = c
        /\ record.was = loc[r].was /\ record.peer = None
        /\ record.known = loc[r].known /\ record.ttl = default[u]
    BY <1>a, <2>2 DEF Local
  <2> HIDE DEF record
  <2>6. Known(record, type, members, byUser, byChat, default)
    BY <2>2, <2>3, <2>5 DEF Known, Named, Seen, Looked, Resolving
  <2> QED
    BY <2>1, <2>3, <2>4, <2>5, <2>6, ReadStep DEF At
<1>4. CASE SendCounterpart(r)
  <2> DEFINE u == loc[r].user
             c == loc[r].chat
  <2>1. At(r, "counterpart") /\ Reads
    BY <1>4 DEF SendCounterpart
  <2>2. PICK v \in members[c] \ {u} : Goto(r, [Step(r, "own") EXCEPT !.peer = v])
    BY <1>4 DEF SendCounterpart
  <2> DEFINE record == [Step(r, "own") EXCEPT !.peer = v]
  <2>3. /\ u \in Users /\ c \in Chats /\ type[c] = "private" /\ u \in members[c]
        /\ ~ loc[r].known
    BY <1>a, <2>1 DEF Known, Named, Seen, At, Resolving
  <2>4. v \in Users \ {u} /\ members[c] = {u, v}
    <3>1. members[c] \in SUBSET Users /\ Cardinality(members[c]) = 2
      BY <2>3 DEF Inv, TypeOK
    <3>2. v \in Users \ {u}
      BY <3>1
    <3>3. {u, v} \subseteq members[c]
      BY <2>3
    <3>4. Cardinality({u, v}) = 2
      BY <2>3, <3>2, TwoUsers
    <3>5. IsFiniteSet(members[c])
      BY <3>1, FS_Subset
    <3>6. {u, v} = members[c]
      BY <3>1, <3>3, <3>4, <3>5, FS_Subset
    <3> QED
      BY <3>2, <3>6
  <2>5. record \in Local
    BY <1>a, <2>4 DEF Step, Local
  <2>6. /\ record.step = "own" /\ record.user = u /\ record.chat = c
        /\ record.was = loc[r].was /\ record.peer = v
        /\ record.known = loc[r].known /\ record.ttl = loc[r].ttl
        /\ record.writes = loc[r].writes
    BY <1>a DEF Step, Local
  <2>7. Goto(r, record)
    BY <2>2
  <2> HIDE DEF record
  <2>8. Looked(record, type, members, byUser, byChat, default)
    BY <1>a, <2>1, <2>6 DEF Known, Looked, Resolving, At
  <2>9. Known(record, type, members, byUser, byChat, default)
    BY <2>3, <2>4, <2>6, <2>8 DEF Known, Named, Seen, Resolving
  <2> QED
    BY <2>1, <2>5, <2>6, <2>7, <2>9, ReadStep DEF At
<1>5. CASE SendOwn(r)
  <2> DEFINE u == loc[r].user
             c == loc[r].chat
             ttl == IF Own(r) # None THEN Own(r) ELSE loc[r].ttl
             record == [Step(r, "stored") EXCEPT !.ttl = ttl]
  <2>1. At(r, "own") /\ Reads /\ Goto(r, record)
    <3>1. Step(r, "stored").ttl = loc[r].ttl
      BY <1>a DEF Step, Local
    <3> QED
      BY <1>5, <3>1 DEF SendOwn
  <2>2. /\ Own(r) = Setting(u, c, type, members, byUser, byChat)
        /\ Own(r) \in Ttls \cup {None}
    BY <2>1, OwnIs
  <2>3. /\ ~ loc[r].known
        /\ Resulting(u, c, type, members, byUser, byChat, default) \in loc[r].was
        /\ loc[r].writes < 2 =>
             \/ loc[r].ttl = default[u]
             \/ loc[r].ttl \in loc[r].was
             \/ Setting(u, c, type, members, byUser, byChat) # None
    BY <1>a, <2>1 DEF Known, Seen, Looked, At, Resolving
  <2>4. loc[r].writes < 2 => ttl \in loc[r].was
    BY <2>2, <2>3 DEF Resulting
  <2>5. ttl \in Ttls \cup {None}
    BY <1>a, <2>2 DEF Local
  <2> HIDE DEF ttl
  <2>6. record \in Local
    BY <1>a, <2>5 DEF Step, Local
  <2>7. /\ record.step = "stored" /\ record.was = loc[r].was
        /\ record.known = loc[r].known /\ record.ttl = ttl
        /\ record.writes = loc[r].writes
    BY <1>a DEF Step, Local
  <2> HIDE DEF record
  <2>8. Known(record, type, members, byUser, byChat, default)
    BY <2>3, <2>4, <2>7 DEF Known, Named, Seen, Looked, Resolving
  <2> QED
    BY <2>1, <2>6, <2>7, <2>8, ReadStep DEF At
<1> QED
  BY <1>1, <1>2, <1>3, <1>4, <1>5

-----------------------------------------------------------------------------
\* The steps towards a setting that only read.
LEMMA SetReads ==
  ASSUME Inv, NEW r \in Requests,
         \/ \E p \in Acting, t \in Ttls : SetForUser(r, p[1], p[2], t)
         \/ \E u \in Actors, c \in Chats, t \in Ttls :
              SetForConversation(r, u, c, t)
         \/ SetMember(r) \/ SetFind(r)
  PROVE  Inv'
<1>a. loc[r] \in Local /\ Known(loc[r], type, members, byUser, byChat, default)
  BY DEF Inv, TypeOK, Knowing
<1>1. ASSUME NEW p \in Acting, NEW t \in Ttls, SetForUser(r, p[1], p[2], t)
      PROVE  Inv'
  <2> DEFINE u == p[1]
             v == p[2]
             record == [NoLocal EXCEPT !.step = "setFind", !.user = u,
                                       !.peer = v, !.ttl = t]
  <2>1. Begin(r, "set", record)
    BY <1>1 DEF SetForUser
  <2>2. u \in Users /\ v \in Users \ {u}
    BY PairsOfUsers DEF Acting
  <2> HIDE DEF u, v
  <2>3. record \in Local
    BY <2>2, EmptyTyped DEF Local
  <2>4. /\ record.step = "setFind" /\ record.user = u /\ record.peer = v
        /\ record.ttl = t /\ record.known = FALSE
    BY DEF NoLocal
  <2> HIDE DEF record
  <2>5. Known(record, type, members, byUser, byChat, default)
    BY <2>2, <2>4 DEF Known, Named, Seen, Looked, Resolving
  <2> QED
    BY <2>1, <2>3, <2>4, <2>5, Begins
<1>2. ASSUME NEW u \in Actors, NEW c \in Chats, NEW t \in Ttls,
             SetForConversation(r, u, c, t)
      PROVE  Inv'
  <2> DEFINE record == [NoLocal EXCEPT !.step = "setMember", !.user = u,
                                       !.chat = c, !.ttl = t]
  <2>1. Begin(r, "set", record)
    BY <1>2 DEF SetForConversation
  <2>2. u \in Users /\ u # None
    OBVIOUS
  <2>3. record \in Local
    BY <2>2, EmptyTyped DEF Local
  <2>4. /\ record.step = "setMember" /\ record.user = u /\ record.peer = None
        /\ record.ttl = t /\ record.chat = c /\ record.known = FALSE
    BY DEF NoLocal
  <2> HIDE DEF record
  <2>5. Known(record, type, members, byUser, byChat, default)
    BY <2>2, <2>4 DEF Known, Named, Seen, Looked, Resolving
  <2> QED
    BY <2>1, <2>3, <2>4, <2>5, Begins
<1>3. CASE SetMember(r)
  <2> DEFINE record == Step(r, "setFind")
  <2>1. /\ At(r, "setMember") /\ Reads
        /\ Goto(r, record) \/ Goto(r, NoLocal)
    BY <1>3 DEF SetMember
  <2>2. record \in Local
    BY <1>a DEF Step, Local
  <2>3. /\ record.step = "setFind" /\ record.user = loc[r].user
        /\ record.peer = loc[r].peer /\ record.ttl = loc[r].ttl
        /\ record.chat = loc[r].chat /\ record.known = loc[r].known
    BY <1>a DEF Step, Local
  <2> HIDE DEF record
  <2>4. Known(record, type, members, byUser, byChat, default)
    BY <1>a, <2>1, <2>3 DEF Known, Named, Seen, Looked, Resolving, At
  <2> QED
    BY <2>1, <2>2, <2>3, <2>4, ReadStep, GivesUp DEF At
<1>4. CASE SetFind(r)
  <2>1. At(r, "setFind") /\ Reads
    BY <1>4 DEF SetFind
  <2>2. ASSUME NEW record \in Local, Goto(r, record),
               record.step \in {"update", "insert"},
               record.user = loc[r].user, record.peer = loc[r].peer,
               record.ttl = loc[r].ttl, record.chat = loc[r].chat,
               record.known = loc[r].known
        PROVE  Inv'
    <3>1. Known(record, type, members, byUser, byChat, default)
      BY <1>a, <2>1, <2>2 DEF Known, Named, Seen, Looked, Resolving, At
    <3> QED
      BY <2>1, <2>2, <3>1, ReadStep DEF At
  <2>3. CASE Own(r) # None
    <3> DEFINE record == [Step(r, "update") EXCEPT !.row = TRUE]
    <3>1. /\ record \in Local /\ record.step = "update"
          /\ record.user = loc[r].user /\ record.peer = loc[r].peer
          /\ record.ttl = loc[r].ttl /\ record.chat = loc[r].chat
          /\ record.known = loc[r].known
      BY <1>a DEF Step, Local
    <3>2. Goto(r, record)
      BY <1>4, <2>3 DEF SetFind
    <3> HIDE DEF record
    <3> QED
      BY <2>2, <3>1, <3>2
  <2>4. CASE Own(r) = None
    <3> DEFINE record == Step(r, "insert")
    <3>1. /\ record \in Local /\ record.step = "insert"
          /\ record.user = loc[r].user /\ record.peer = loc[r].peer
          /\ record.ttl = loc[r].ttl /\ record.chat = loc[r].chat
          /\ record.known = loc[r].known
      BY <1>a DEF Step, Local
    <3>2. Goto(r, record)
      BY <1>4, <2>4 DEF SetFind
    <3> HIDE DEF record
    <3> QED
      BY <2>2, <3>1, <3>2
  <2> QED
    BY <2>3, <2>4
<1> QED
  BY <1>1, <1>2, <1>3, <1>4

\* When a setting or a default changes, every lookup notes it and knows still.
LEMMA NotedStep ==
  ASSUME Inv, NEW l \in [Requests -> Local],
         NEW mine \in [Pairs -> Ttls \cup {None}],
         NEW ours \in [Users \X Chats -> Ttls \cup {None}],
         NEW mean \in [Users -> Ttls \cup {None}],
         mean = default \/ (mine = byUser /\ ours = byChat),
         \A q \in Requests :
           Known(l[q], type, members, byUser, byChat, default)
  PROVE  /\ Noted(l, mine, ours, mean) \in [Requests -> Local]
         /\ \A q \in Requests :
              /\ Known(Noted(l, mine, ours, mean)[q], type, members, mine, ours,
                       mean)
              /\ Same(l[q], Noted(l, mine, ours, mean)[q])
<1> DEFINE n == Noted(l, mine, ours, mean)
           now(q) == Resulting(l[q].user, l[q].chat, type, members, mine, ours,
                               mean)
           more(q) == IF l[q].writes < 2 THEN l[q].writes + 1 ELSE l[q].writes
           was(q) == l[q].was \cup {now(q)}
<1>1. \A q \in Requests :
        n[q] = IF l[q].step \in Resolving
               THEN [l[q] EXCEPT !.was = was(q), !.writes = more(q)] ELSE l[q]
  BY ForceIs DEF Noted
<1>2. n = [q \in Requests |-> n[q]]
  BY DEF Noted
<1>3. ASSUME NEW q \in Requests
      PROVE  /\ n[q] \in Local
             /\ Known(n[q], type, members, mine, ours, mean) /\ Same(l[q], n[q])
  <2>1. l[q] \in Local /\ Known(l[q], type, members, byUser, byChat, default)
    OBVIOUS
  <2>2. more(q) \in 0 .. 2
    BY <2>1 DEF Local
  <2>3. CASE l[q].step \in Resolving
    <3>1. n[q] = [l[q] EXCEPT !.was = was(q), !.writes = more(q)]
      BY <1>1, <2>3
    <3>2. was(q) \in SUBSET (Ttls \cup {None})
      <4>1. l[q].user \in Users /\ l[q].chat \in Chats
        BY <2>1, <2>3 DEF Known, Named
      <4>2. now(q) \in Ttls \cup {None}
        BY <4>1, ForceTyped
      <4> HIDE DEF now
      <4> QED
        BY <2>1, <4>2 DEF Local
    <3> HIDE DEF was, more, n
    <3>3. n[q] \in Local
      <4>1. PICK w \in SUBSET (Ttls \cup {None}) : w = was(q)
        BY <3>2
      <4>2. PICK k \in 0 .. 2 : k = more(q)
        BY <2>2
      <4>3. n[q] = [l[q] EXCEPT !.was = w, !.writes = k]
        BY <3>1, <4>1, <4>2
      <4>4. [l[q] EXCEPT !.was = w, !.writes = k] \in Local
        BY <2>1 DEF Local
      <4> QED
        BY <4>3, <4>4
    <3>4. Same(l[q], n[q]) /\ n[q].was = was(q) /\ n[q].writes = more(q)
      BY <2>1, <3>1 DEF Same, Local
    <3>5. n[q].was = l[q].was \cup {Resulting(l[q].user, l[q].chat, type,
                                              members, mine, ours, mean)}
      BY <3>4 DEF was
    <3>6. n[q].writes =
            IF l[q].writes < 2 THEN l[q].writes + 1 ELSE l[q].writes
      BY <3>4 DEF more
    <3> QED
      BY <2>1, <2>3, <3>3, <3>4, <3>5, <3>6, NotedKept
  <2>4. CASE l[q].step \notin Resolving
    <3>1. n[q] = l[q]
      BY <1>1, <2>4
    <3>2. Same(l[q], l[q])
      BY DEF Same
    <3> HIDE DEF n
    <3> QED
      BY <2>1, <2>4, <3>1, <3>2, NotedKept
  <2> QED
    BY <2>3, <2>4
<1>4. n \in [Requests -> Local]
  <2> HIDE DEF n
  <2> QED
    BY <1>2, <1>3
<1> HIDE DEF now, more, was
<1> QED
  BY <1>3, <1>4

\* What a change of the settings leaves of the requests, l, is invariant again.
LEMMA SettingsStep ==
  ASSUME Inv, NEW l \in [Requests -> Local],
         byUser' \in [Pairs -> Ttls \cup {None}],
         byChat' \in [Users \X Chats -> Ttls \cup {None}],
         default' \in [Users -> Ttls \cup {None}],
         default' = default \/ (byUser' = byUser /\ byChat' = byChat),
         \A q \in Requests :
           /\ Known(l[q], type, members, byUser, byChat, default)
           /\ l[q].step \in {"join", "peers"} \/ loc[q].step \in {"join", "peers"}
                => l[q] = loc[q],
         loc' = Noted(l, byUser', byChat', default'),
         UNCHANGED <<chats, keys, ops>>
  PROVE  Inv'
<1>1. UNCHANGED <<type, members, count, key, pinned, told, parted, ops>>
  BY DEF chats, keys
<1>2. /\ loc' \in [Requests -> Local]
      /\ \A q \in Requests :
           /\ Known(loc'[q], type, members, byUser', byChat', default')
           /\ Same(l[q], loc'[q])
  BY NotedStep
<1>3. Knowing'
  BY <1>1, <1>2 DEF Knowing
<1>4. TypeOK'
  BY <1>1, <1>2 DEF Inv, TypeOK
<1>5. \A q \in Requests :
        /\ loc'[q].step = l[q].step
        /\ l[q] = loc[q] => /\ loc'[q].step = loc[q].step
                            /\ loc'[q].user = loc[q].user
                            /\ loc'[q].chat = loc[q].chat
  BY <1>2 DEF Same
<1>6. Apart'
  BY <1>1, <1>5 DEF Inv, Apart, At
<1>7. Pins'
  BY <1>1 DEF Inv, Pins
<1>8. PeersHear'
  BY <1>1, <1>5 DEF Inv, PeersHear, At
<1> QED
  BY <1>3, <1>4, <1>6, <1>7, <1>8 DEF Inv

\* A record stays one when the row it found is gone.
LEMMA RowDropped ==
  ASSUME NEW l \in Local PROVE [l EXCEPT !.row = FALSE] \in Local
<1>1. ASSUME NEW b \in BOOLEAN PROVE [l EXCEPT !.row = b] \in Local
  BY DEF Local
<1>2. FALSE \in BOOLEAN
  OBVIOUS
<1> QED
  BY <1>1, <1>2

\* A row is written; an update that found it may have to do without it.
LEMMA WriteStep ==
  ASSUME Inv, NEW l \in [Requests -> Local], NEW t \in Ttls \cup {None},
         NEW req, req.user \in Users, req.peer = None => req.chat \in Chats,
         req.peer # None => req.peer \in Users \ {req.user},
         \A q \in Requests :
           /\ Known(l[q], type, members, byUser, byChat, default)
           /\ l[q].step \in {"join", "peers"} \/ loc[q].step \in {"join", "peers"}
                => l[q] = loc[q],
         Write(req, t, l), UNCHANGED <<chats, default, keys, ops>>
  PROVE  Inv'
<1> DEFINE lost(q) == /\ t = None /\ l[q].step = "update"
                      /\ l[q].user = req.user /\ l[q].peer = req.peer
                      /\ l[q].chat = req.chat
           m == [q \in Requests |->
                   IF lost(q) THEN [l[q] EXCEPT !.row = FALSE] ELSE l[q]]
<1>1. /\ byUser' = IF req.peer = None THEN byUser
                   ELSE [byUser EXCEPT ![<<req.user, req.peer>>] = t]
      /\ byChat' = IF req.peer # None THEN byChat
                   ELSE [byChat EXCEPT ![<<req.user, req.chat>>] = t]
      /\ loc' = Noted(m, byUser', byChat', default)
  BY DEF Write
<1>2. byUser' \in [Pairs -> Ttls \cup {None}]
  BY <1>1 DEF Inv, TypeOK
<1>3. byChat' \in [Users \X Chats -> Ttls \cup {None}]
  BY <1>1 DEF Inv, TypeOK
<1>4. default' \in [Users -> Ttls \cup {None}] /\ default' = default
  BY DEF Inv, TypeOK
<1>5. ASSUME NEW q \in Requests
      PROVE  /\ m[q] \in Local
             /\ Known(m[q], type, members, byUser, byChat, default)
             /\ \/ m[q].step \in {"join", "peers"}
                \/ loc[q].step \in {"join", "peers"}
                => m[q] = loc[q]
  <2>1. l[q] \in Local /\ Known(l[q], type, members, byUser, byChat, default)
    OBVIOUS
  <2>2. CASE lost(q)
    <3>1. m[q] = [l[q] EXCEPT !.row = FALSE] /\ l[q].step = "update"
      BY <2>2
    <3> HIDE DEF m
    <3>2. m[q] \in Local
      BY <2>1, <3>1, RowDropped
    <3>3. Same(l[q], m[q])
      BY <2>1, <3>1 DEF Same, Local
    <3>4. m[q].step = "update" /\ loc[q].step \notin {"join", "peers"}
      BY <3>1, <3>3 DEF Same
    <3>5. Known(m[q], type, members, byUser, byChat, default)
      BY <2>1, <3>1, <3>3, <3>4 DEF Known, Named, Seen, Looked, Same, Resolving
    <3> QED
      BY <3>2, <3>4, <3>5
  <2>3. CASE ~ lost(q)
    <3>1. m[q] = l[q]
      BY <2>3
    <3> HIDE DEF m
    <3> QED
      BY <3>1
  <2> QED
    BY <2>2, <2>3
<1>6. m \in [Requests -> Local]
  <2>1. m = [q \in Requests |-> m[q]]
    OBVIOUS
  <2> HIDE DEF m
  <2> QED
    BY <1>5, <2>1
<1>7. /\ loc' = Noted(m, byUser', byChat', default')
      /\ UNCHANGED <<chats, keys, ops>>
  BY <1>1, <1>4
<1> HIDE DEF m
<1> QED
  BY <1>2, <1>3, <1>4, <1>5, <1>6, <1>7, SettingsStep

\* An update that finds its row gone answers all the same, an insert that finds
\* one fails; each otherwise writes what it was asked to.
LEMMA SetWrites ==
  ASSUME Inv, NEW r \in Requests, SetUpdate(r) \/ SetInsert(r)
  PROVE  Inv'
<1> DEFINE record == Step(r, "set")
           l == Done(r)
<1>a. /\ loc[r] \in Local /\ loc \in [Requests -> Local]
      /\ Known(loc[r], type, members, byUser, byChat, default)
      /\ loc[r].step \in {"update", "insert"}
      /\ \A q \in Requests : Known(loc[q], type, members, byUser, byChat, default)
  BY DEF Inv, TypeOK, Knowing, SetUpdate, SetInsert, At
<1>1. /\ loc[r].user \in Users /\ loc[r].ttl \in Ttls
      /\ loc[r].peer # loc[r].user
      /\ loc[r].peer = None => loc[r].chat \in Chats
      /\ loc[r].peer # None => loc[r].peer \in Users \ {loc[r].user}
      /\ ~ loc[r].known
  BY <1>a DEF Known, Named, Seen, Local
<1>2. /\ \/ Write(loc[r], loc[r].ttl, l)
         \/ /\ Goto(r, record) \/ Goto(r, NoLocal)
            /\ UNCHANGED <<byUser, byChat>>
      /\ UNCHANGED <<chats, default, keys, ops>>
  BY DEF SetUpdate, SetInsert
<1>3. /\ record \in Local /\ record.step = "set"
      /\ record.known = loc[r].known
  BY <1>a DEF Step, Local
<1>4. l \in [Requests -> Local] /\ l = [loc EXCEPT ![r] = record]
  BY <1>a, <1>3 DEF Done
<1> HIDE DEF record, l
<1>5. Known(record, type, members, byUser, byChat, default)
  BY <1>1, <1>3 DEF Known, Named, Seen, Looked, Resolving
<1>6. CASE Write(loc[r], loc[r].ttl, l)
  <2>1. \A q \in Requests :
          /\ Known(l[q], type, members, byUser, byChat, default)
          /\ l[q].step \in {"join", "peers"} \/ loc[q].step \in {"join", "peers"}
               => l[q] = loc[q]
    BY <1>a, <1>3, <1>4, <1>5
  <2>2. loc[r].ttl \in Ttls \cup {None}
    BY <1>1
  <2> QED
    BY <1>1, <1>2, <1>4, <1>6, <2>1, <2>2, WriteStep
<1>7. CASE Goto(r, record) \/ Goto(r, NoLocal)
  <2>1. CASE UNCHANGED <<byUser, byChat>>
    <3>1. Reads
      BY <1>2, <2>1 DEF Reads, settings
    <3> QED
      BY <1>a, <1>3, <1>5, <1>7, <3>1, ReadStep, GivesUp DEF At
  <2> QED
    BY <1>2, <1>6, <2>1
<1> QED
  BY <1>2, <1>6, <1>7

\* A setting is deleted, or a default chosen.
LEMMA Changes ==
  ASSUME Inv,
         \/ \E p \in Acting : Clear(p[1], p[2], NoChat)
         \/ \E u \in Actors, c \in Chats : Clear(u, None, c)
         \/ \E u \in Actors, t \in Ttls \cup {None} : SetDefault(u, t)
  PROVE  Inv'
<1>a. /\ loc \in [Requests -> Local]
      /\ \A q \in Requests : Known(loc[q], type, members, byUser, byChat, default)
  BY DEF Inv, TypeOK, Knowing
<1>1. ASSUME NEW u \in Users, NEW v, NEW c, Clear(u, v, c),
             v = None => c \in Chats, v # None => v \in Users \ {u}
      PROVE  Inv'
  <2> DEFINE req == [user |-> u, peer |-> v, chat |-> c]
  <2>1. Write(req, None, loc) /\ UNCHANGED <<chats, default, keys, ops>>
    BY <1>1 DEF Clear
  <2>2. req.user = u /\ req.peer = v /\ req.chat = c
    OBVIOUS
  <2> HIDE DEF req
  <2> QED
    BY <1>a, <1>1, <2>1, <2>2, WriteStep
<1>2. ASSUME NEW u \in Actors, NEW t \in Ttls \cup {None}, SetDefault(u, t)
      PROVE  Inv'
  <2>1. /\ default' = [default EXCEPT ![u] = t]
        /\ loc' = Noted(loc, byUser, byChat, default')
        /\ UNCHANGED <<chats, byUser, byChat, keys, ops>>
    BY <1>2 DEF SetDefault
  <2>2. /\ default' \in [Users -> Ttls \cup {None}]
        /\ byUser' \in [Pairs -> Ttls \cup {None}]
        /\ byChat' \in [Users \X Chats -> Ttls \cup {None}]
    BY <2>1 DEF Inv, TypeOK
  <2>3. /\ byUser' = byUser /\ byChat' = byChat
        /\ loc' = Noted(loc, byUser', byChat', default')
        /\ UNCHANGED <<chats, keys, ops>>
    BY <2>1
  <2> QED
    BY <1>a, <2>2, <2>3, SettingsStep
<1>3. ASSUME NEW p \in Acting, Clear(p[1], p[2], NoChat) PROVE Inv'
  <2>1. p[1] \in Users /\ p[2] \in Users \ {p[1]} /\ p[2] # None
    BY PairsOfUsers DEF Acting
  <2> QED
    BY <1>1, <1>3, <2>1
<1>4. ASSUME NEW u \in Actors, NEW c \in Chats, Clear(u, None, c) PROVE Inv'
  BY <1>1, <1>4
<1> QED
  BY <1>2, <1>3, <1>4

-----------------------------------------------------------------------------
\* The requests about keys where they only read, and the end of any request.
LEMMA KeyReads ==
  ASSUME Inv, NEW r \in Requests,
         \/ \E u \in Actors, k \in Keys : UploadStart(r, u, k)
         \/ UploadFind(r) \/ UploadFail(r)
         \/ \E p \in Acting : FetchStart(r, p[2], p[1])
         \/ FetchChats(r) \/ FetchShared(r) \/ Finish(r)
  PROVE  Inv'
<1>a. loc[r] \in Local /\ Known(loc[r], type, members, byUser, byChat, default)
  BY DEF Inv, TypeOK, Knowing
<1>1. ASSUME NEW u \in Actors, NEW k \in Keys, UploadStart(r, u, k)
      PROVE  Inv'
  <2> DEFINE record == [NoLocal EXCEPT !.step = "keyFind", !.user = u, !.key = k]
  <2>1. Begin(r, "upload", record) /\ u \in Users
    BY <1>1 DEF UploadStart
  <2>2. record \in Local
    BY <2>1, EmptyTyped DEF Local
  <2>3. /\ record.step = "keyFind" /\ record.user = u /\ record.key = k
        /\ record.known = FALSE
    BY DEF NoLocal
  <2> HIDE DEF record
  <2>4. Known(record, type, members, byUser, byChat, default)
    BY <2>1, <2>3 DEF Known, Named, Seen, Looked, Resolving
  <2> QED
    BY <2>1, <2>2, <2>3, <2>4, Begins
<1>2. CASE UploadFind(r)
  <2>1. At(r, "keyFind") /\ Reads
    BY <1>2 DEF UploadFind
  <2>2. ASSUME NEW step \in {"keyInsert", "rotate"}, Goto(r, Step(r, step))
        PROVE  Inv'
    <3> DEFINE record == Step(r, step)
    <3>1. record \in Local
      BY <1>a DEF Step, Local
    <3>2. /\ record.step = step /\ record.user = loc[r].user
          /\ record.key = loc[r].key /\ record.known = loc[r].known
      BY <1>a DEF Step, Local
    <3>3. Goto(r, record)
      BY <2>2
    <3> HIDE DEF record
    <3>4. Known(record, type, members, byUser, byChat, default)
      BY <1>a, <2>1, <3>2 DEF Known, Named, Seen, Looked, Resolving, At
    <3> QED
      BY <2>1, <3>1, <3>2, <3>3, <3>4, ReadStep DEF At
  <2>3. \/ Goto(r, Step(r, "keyInsert")) \/ Goto(r, Step(r, "rotate"))
        \/ Goto(r, NoLocal)
    BY <1>2 DEF UploadFind
  <2> QED
    BY <2>1, <2>2, <2>3, GivesUp DEF At
<1>3. CASE UploadFail(r)
  BY <1>3, GivesUp DEF UploadFail
<1>4. ASSUME NEW p \in Acting, FetchStart(r, p[2], p[1])
      PROVE  Inv'
  <2> DEFINE u == p[2]
             v == p[1]
             record == [NoLocal EXCEPT !.step = "chats", !.user = u, !.peer = v]
  <2>1. Begin(r, "fetch", record)
    BY <1>4 DEF FetchStart
  <2>2. u \in Users /\ v \in Users \ {u}
    BY PairsOfUsers DEF Acting
  <2> HIDE DEF u, v
  <2>3. record \in Local
    BY <2>2, EmptyTyped DEF Local
  <2>4. /\ record.step = "chats" /\ record.user = u /\ record.peer = v
        /\ record.known = FALSE
    BY DEF NoLocal
  <2> HIDE DEF record
  <2>5. Known(record, type, members, byUser, byChat, default)
    BY <2>2, <2>4 DEF Known, Named, Seen, Looked, Resolving
  <2> QED
    BY <2>1, <2>3, <2>4, <2>5, Begins
<1>5. CASE FetchChats(r)
  <2> DEFINE mine == MyChats(loc[r].user)
             record == [Step(r, "shared") EXCEPT !.mine = mine]
  <2>1. /\ At(r, "chats") /\ Reads
        /\ Goto(r, record) \/ Goto(r, NoLocal)
    BY <1>5 DEF FetchChats
  <2>2. mine \in SUBSET Chats
    BY DEF MyChats
  <2> HIDE DEF mine
  <2>3. record \in Local
    BY <1>a, <2>2 DEF Step, Local
  <2>4. /\ record.step = "shared" /\ record.user = loc[r].user
        /\ record.peer = loc[r].peer /\ record.mine = mine
        /\ record.known = loc[r].known
    BY <1>a DEF Step, Local
  <2> HIDE DEF record
  <2>5. Known(record, type, members, byUser, byChat, default)
    BY <1>a, <2>1, <2>2, <2>4 DEF Known, Named, Seen, Looked, Resolving, At
  <2> QED
    BY <2>1, <2>3, <2>4, <2>5, ReadStep, GivesUp DEF At
<1>6. CASE FetchShared(r)
  <2> DEFINE record == Step(r, "read")
             common == MyChats(loc[r].peer) \cap loc[r].mine
  <2>1. /\ At(r, "shared") /\ Reads
        /\ (common # {} /\ Goto(r, record)) \/ Goto(r, NoLocal)
    BY <1>6 DEF FetchShared
  <2>2. CASE common # {} /\ Goto(r, record)
    <3>1. record \in Local
      BY <1>a DEF Step, Local
    <3>2. /\ record.step = "read" /\ record.user = loc[r].user
          /\ record.peer = loc[r].peer /\ record.known = loc[r].known
      BY <1>a DEF Step, Local
    <3> HIDE DEF record
    <3>4. Known(record, type, members, byUser, byChat, default)
      BY <1>a, <2>1, <3>2 DEF Known, Named, Seen, Looked, Resolving, At
    <3> QED
      BY <2>1, <2>2, <3>1, <3>2, <3>4, ReadStep DEF At
  <2> QED
    BY <2>1, <2>2, GivesUp DEF At
<1>7. CASE Finish(r)
  BY <1>7, GivesUp DEF Finish, At
<1> QED
  BY <1>1, <1>2, <1>3, <1>4, <1>5, <1>6, <1>7

\* A change of the keys leaves the conversations and the settings alone.
LEMMA KeyStep ==
  ASSUME Inv, NEW r \in Requests, NEW record \in Local, Goto(r, record),
         Known(record, type, members, byUser, byChat, default),
         record.step # "join",
         key' \in [Users -> Keys \cup {None}],
         pinned' \in [Pairs -> Keys \cup {None}], told' \in [Pairs -> BOOLEAN],
         parted' \subseteq Pairs, UNCHANGED <<chats, settings, ops>>, Pins', PeersHear'
  PROVE  Inv'
<1>1. UNCHANGED <<type, members, count, byUser, byChat, default, ops>>
  BY DEF chats, settings
<1>2. loc' \in [Requests -> Local] /\ Knowing' /\ Apart'
  BY <1>1, OwnStep
<1>3. TypeOK'
  BY <1>1, <1>2 DEF Inv, TypeOK
<1> QED
  BY <1>2, <1>3 DEF Inv

\* Nobody holds the key of somebody who had none; whoever holds one that is
\* replaced will hear of it.
LEMMA KeyWrites ==
  ASSUME Inv, NEW r \in Requests, UploadInsert(r) \/ UploadRotate(r)
  PROVE  Inv'
<1> DEFINE u == loc[r].user
<1>a. /\ loc[r] \in Local /\ loc \in [Requests -> Local]
      /\ Known(loc[r], type, members, byUser, byChat, default)
      /\ loc[r].step \in {"keyInsert", "rotate"}
  BY DEF Inv, TypeOK, Knowing, UploadInsert, UploadRotate, At
<1>b. u \in Users /\ loc[r].key \in Keys /\ ~ loc[r].known
  BY <1>a DEF Known, Named, Seen
<1>c. UNCHANGED <<type, members, pinned, told, ops>>
  BY DEF UploadInsert, UploadRotate, chats
<1>d. \A p \in Pairs : p[1] \in Users /\ p[2] \in Users
  BY PairsOfUsers
<1>e. /\ pinned' \in [Pairs -> Keys \cup {None}] /\ told' \in [Pairs -> BOOLEAN]
      /\ UNCHANGED <<chats, settings, ops>>
  BY DEF Inv, TypeOK, UploadInsert, UploadRotate
<1>1. CASE UploadInsert(r)
  <2>1. /\ key' = IF key[u] = None THEN [key EXCEPT ![u] = loc[r].key] ELSE key
        /\ Goto(r, NoLocal)
    BY <1>1 DEF UploadInsert
  <2>2. /\ key' \in [Users -> Keys \cup {None}]
        /\ \A v \in Users : key[v] # None => key'[v] = key[v]
    BY <1>b, <2>1 DEF Inv, TypeOK
  <2>0. parted' = parted /\ parted' \subseteq Pairs
    BY <1>1 DEF UploadInsert, Inv, TypeOK
  <2>3. Pins'
    BY <1>c, <1>d, <2>0, <2>2 DEF Inv, Pins
  <2>4. \A q \in Requests : At(q, "peers") => loc'[q] = loc[q]
    BY <1>a, <2>1 DEF Goto, At
  <2>5. PeersHear'
    BY <1>c, <1>d, <2>0, <2>2, <2>4 DEF Inv, Pins, PeersHear, At
  <2>6. /\ NoLocal \in Local /\ NoLocal.step # "join"
        /\ Known(NoLocal, type, members, byUser, byChat, default)
    BY EmptyTyped, NothingKnown DEF NoLocal
  <2> QED
    BY <1>e, <2>0, <2>1, <2>2, <2>3, <2>5, <2>6, KeyStep
<1>2. CASE UploadRotate(r)
  <2> DEFINE record == Step(r, "peers")
  <2>1. key' = [key EXCEPT ![u] = loc[r].key] /\ Goto(r, record)
    BY <1>2 DEF UploadRotate
  <2>2. /\ record \in Local /\ record.step = "peers" /\ record.user = u
        /\ record.known = loc[r].known
    BY <1>a DEF Step, Local
  <2> HIDE DEF record
  <2>3. /\ key' \in [Users -> Keys \cup {None}]
        /\ key'[u] # None /\ \A v \in Users \ {u} : key'[v] = key[v]
    BY <1>b, <2>1 DEF Inv, TypeOK
  <2>0. /\ parted' \subseteq Pairs
        /\ \A p \in Pairs :
             pinned[p] \notin {None, key'[p[2]]} =>
               /\ p \in parted' \/ Together(p[1], p[2], members)
               /\ p \in parted => p \in parted'
    <3>1. parted' = Parted(members', key', pinned')
      BY <1>2, <1>c DEF UploadRotate
    <3> QED
      BY <1>c, <3>1, PartedIs
  <2>4. Pins'
    <3>1. \A p \in Pairs : pinned[p] # None => key'[p[2]] # None
      BY <1>d, <2>3 DEF Inv, Pins
    <3> QED
      BY <1>c, <2>0, <3>1 DEF Pins
  <2>5. /\ \A q \in Requests : At(q, "peers") => loc'[q] = loc[q]
        /\ loc'[r] = record
    BY <1>a, <2>1 DEF Goto, At
  <2>6. PeersHear'
    <3> SUFFICES ASSUME "fail" \notin ops, NEW p \in Pairs
                 PROVE  \/ pinned[p] \in {None, key'[p[2]]}
                        \/ told[p] \/ p \in parted'
                        \/ \E q \in Requests :
                             loc'[q].step = "peers" /\ loc'[q].user = p[2]
      BY <1>c DEF PeersHear, At
    <3>1. CASE p[2] = u
      BY <2>2, <2>5, <3>1
    <3>2. CASE p[2] # u
      BY <1>d, <2>0, <2>3, <2>5, <3>2 DEF Inv, PeersHear, At
    <3> QED
      BY <3>1, <3>2
  <2>7. Known(record, type, members, byUser, byChat, default)
    BY <1>b, <2>2 DEF Known, Named, Seen, Looked, Resolving
  <2>8. record.step # "join"
    BY <2>2
  <2> QED
    BY <1>e, <2>0, <2>1, <2>2, <2>3, <2>4, <2>6, <2>7, <2>8, KeyStep
<1> QED
  BY <1>1, <1>2

\* Everybody who holds a replaced key and is not parted is among those told.
LEMMA Tells ==
  ASSUME Inv, NEW r \in Requests, UploadTell(r)
  PROVE  Inv'
<1> DEFINE u == loc[r].user
<1>1. /\ loc[r].step = "peers" /\ Goto(r, NoLocal)
      /\ told' = [p \in Pairs |-> told[p] \/ (p[2] = u /\ p[1] \in Peers(u))]
      /\ UNCHANGED <<chats, settings, key, pinned, parted, ops>>
  BY DEF UploadTell, At
<1>2. UNCHANGED <<type, members, key, pinned, parted, ops>>
  BY <1>1 DEF chats
<1>3. /\ key' \in [Users -> Keys \cup {None}]
      /\ pinned' \in [Pairs -> Keys \cup {None}] /\ parted' \subseteq Pairs
  BY <1>1 DEF Inv, TypeOK
<1>4. told' \in [Pairs -> BOOLEAN]
  BY <1>1, Zenon
<1>5. Pins'
  BY <1>2 DEF Inv, Pins
<1>6. ASSUME NEW p \in Pairs, pinned[p] \notin {None, key[p[2]]}, p \notin parted,
             p[2] = u
      PROVE  p[1] \in Peers(u)
  <2>1. PICK c \in Chats : p[1] \in members[c] /\ p[2] \in members[c]
    BY <1>6 DEF Inv, Pins, Together
  <2>2. c \in MyChats(u) /\ p[1] # u
    BY <1>6, <2>1, PairsOfUsers DEF MyChats
  <2> QED
    BY <2>1, <2>2 DEF Peers
<1>7. PeersHear'
  <2> SUFFICES ASSUME "fail" \notin ops, NEW p \in Pairs
               PROVE  \/ pinned[p] \in {None, key[p[2]]}
                      \/ told'[p] \/ p \in parted
                      \/ \E q \in Requests :
                           loc'[q].step = "peers" /\ loc'[q].user = p[2]
    BY <1>2 DEF PeersHear, At
  <2>1. told[p] => told'[p]
    BY <1>1
  <2>2. CASE p[2] = u
    <3>1. pinned[p] \notin {None, key[p[2]]} /\ p \notin parted => told'[p]
      BY <1>1, <1>6, <2>2
    <3> QED
      BY <3>1
  <2>3. CASE p[2] # u
    <3>1. \A q \in Requests : At(q, "peers") /\ loc[q].user = p[2] =>
            loc'[q] = loc[q]
      BY <1>1, <2>3 DEF Goto, Inv, TypeOK
    <3> QED
      BY <2>1, <3>1 DEF Inv, PeersHear, At
  <2> QED
    BY <2>2, <2>3
<1>8. /\ NoLocal \in Local /\ NoLocal.step # "join"
      /\ Known(NoLocal, type, members, byUser, byChat, default)
  BY EmptyTyped, NothingKnown DEF NoLocal
<1> QED
  BY <1>1, <1>3, <1>4, <1>5, <1>7, <1>8, KeyStep

\* The keys that are given are the keys in force.
LEMMA Pinning ==
  ASSUME Inv, NEW u \in Users, NEW owners, Pin(u, owners),
         UNCHANGED <<members, key, ops>>,
         \A q \in Requests : At(q, "peers") => loc'[q] = loc[q]
  PROVE  /\ pinned' \in [Pairs -> Keys \cup {None}]
         /\ told' \in [Pairs -> BOOLEAN] /\ parted' \subseteq Pairs
         /\ Pins' /\ PeersHear'
<1> DEFINE got == {v \in owners : key[v] # None}
           hit(p) == p[1] = u /\ p[2] \in got
<1>1. /\ pinned' = [p \in Pairs |-> IF hit(p) THEN key[p[2]] ELSE pinned[p]]
      /\ told' = [p \in Pairs |-> told[p] /\ ~ hit(p)]
  BY DEF Pin
<1>2. \A p \in Pairs : p[2] \in Users
  BY PairsOfUsers
<1>3. \A p \in Pairs : hit(p) => key[p[2]] # None
  OBVIOUS
<1> HIDE DEF hit
<1>4. pinned' \in [Pairs -> Keys \cup {None}]
  BY <1>1, <1>2 DEF Inv, TypeOK
<1>5. told' \in [Pairs -> BOOLEAN]
  BY <1>1, Zenon
<1>0. /\ parted' \subseteq Pairs
      /\ \A p \in Pairs :
           pinned'[p] \notin {None, key[p[2]]} =>
             /\ p \in parted' \/ Together(p[1], p[2], members)
             /\ p \in parted => p \in parted'
  <2>1. parted' = Parted(members', key', pinned')
    BY DEF Pin
  <2> QED
    BY <2>1, PartedIs
<1>6. Pins'
  BY <1>0, <1>1, <1>3 DEF Inv, Pins
<1>7. PeersHear'
  <2> SUFFICES ASSUME "fail" \notin ops, NEW p \in Pairs
               PROVE  \/ pinned'[p] \in {None, key[p[2]]}
                      \/ told'[p] \/ p \in parted'
                      \/ \E q \in Requests :
                           loc'[q].step = "peers" /\ loc'[q].user = p[2]
    BY DEF PeersHear, At
  <2>1. CASE hit(p)
    BY <1>1, <2>1
  <2>2. CASE ~ hit(p)
    <3>1. pinned'[p] = pinned[p] /\ (told[p] => told'[p])
      BY <1>1, <2>2
    <3> QED
      BY <1>0, <3>1 DEF Inv, PeersHear, At
  <2> QED
    BY <2>1, <2>2
<1> QED
  BY <1>0, <1>4, <1>5, <1>6, <1>7

LEMMA Fetches ==
  ASSUME Inv,
         \/ \E r \in Requests : FetchKey(r)
         \/ \E u \in Users, owners \in (SUBSET Actors) \ {{}} :
              FetchBatch(u, owners)
  PROVE  Inv'
<1>1. ASSUME NEW r \in Requests, FetchKey(r) PROVE Inv'
  <2>1. /\ loc[r] \in Local /\ loc[r].step = "read"
        /\ Known(loc[r], type, members, byUser, byChat, default)
        /\ loc \in [Requests -> Local]
    BY <1>1 DEF Inv, TypeOK, Knowing, FetchKey, At
  <2>2. loc[r].user \in Users
    BY <2>1 DEF Known, Named
  <2>3. /\ Pin(loc[r].user, {loc[r].peer}) /\ Goto(r, NoLocal)
        /\ UNCHANGED <<chats, settings, key, ops>>
    BY <1>1 DEF FetchKey
  <2>4. \A q \in Requests : At(q, "peers") => loc'[q] = loc[q]
    BY <2>1, <2>3 DEF Goto, At
  <2>5. UNCHANGED <<members, key, ops>> /\ key' \in [Users -> Keys \cup {None}]
    BY <2>3 DEF chats, Inv, TypeOK
  <2>6. /\ pinned' \in [Pairs -> Keys \cup {None}] /\ told' \in [Pairs -> BOOLEAN]
        /\ parted' \subseteq Pairs /\ Pins' /\ PeersHear'
    BY <2>2, <2>3, <2>4, <2>5, Pinning
  <2>7. /\ NoLocal \in Local /\ NoLocal.step # "join"
        /\ Known(NoLocal, type, members, byUser, byChat, default)
    BY EmptyTyped, NothingKnown DEF NoLocal
  <2>8. UNCHANGED <<chats, settings, ops>>
    BY <2>3
  <2> QED
    BY <2>3, <2>5, <2>6, <2>7, <2>8, KeyStep
<1>2. ASSUME NEW u \in Users, NEW owners \in (SUBSET Actors) \ {{}},
             FetchBatch(u, owners)
      PROVE  Inv'
  <2>1. /\ Pin(u, owners \cap Peers(u))
        /\ UNCHANGED <<type, members, count, byUser, byChat, default, key, loc,
                       ops>>
    BY <1>2 DEF FetchBatch, chats, settings
  <2>3. /\ pinned' \in [Pairs -> Keys \cup {None}] /\ told' \in [Pairs -> BOOLEAN]
        /\ parted' \subseteq Pairs /\ Pins' /\ PeersHear'
    BY <2>1, Pinning
  <2>4. TypeOK'
    BY <2>1, <2>3 DEF Inv, TypeOK
  <2>5. Apart' /\ Knowing'
    BY <2>1 DEF Inv, Apart, Knowing, At
  <2> QED
    BY <2>3, <2>4, <2>5 DEF Inv
<1> QED
  BY <1>1, <1>2

-----------------------------------------------------------------------------
LEMMA InitInv == Init => Inv
<1> SUFFICES ASSUME Init PROVE Inv
  OBVIOUS
<1>1. PICK f \in Friends \cup {{}} :
        /\ type = [c \in Chats |-> CASE c = Group -> "group"
                                     [] c = Group + 1 /\ f # {} -> "private"
                                     [] OTHER -> "absent"]
        /\ members = [c \in Chats |-> CASE c = Group -> Team
                                        [] c = Group + 1 -> f
                                        [] OTHER -> {}]
        /\ count = [c \in Chats |-> Cardinality(members[c])]
  BY DEF Init
<1>2. /\ byUser = [p \in Pairs |-> None]
      /\ byChat = [p \in Users \X Chats |-> None]
      /\ default = [u \in Users |-> None] /\ key = [u \in Users |-> None]
      /\ pinned = [p \in Pairs |-> None] /\ told = [p \in Pairs |-> FALSE]
      /\ parted = {} /\ loc = [r \in Requests |-> NoLocal] /\ ops \in Scenarios
  BY DEF Init
<1>3. f \in SUBSET Users /\ (f # {} => Cardinality(f) = 2)
  OBVIOUS
<1>4. \A c \in Chats :
        /\ type[c] \in {"absent", "private", "group"}
        /\ members[c] \in SUBSET Users
        /\ type[c] = "private" => members[c] = f /\ f # {}
        /\ type[c] = "absent" => members[c] = {}
  BY <1>1, <1>3 DEF Chats, Group
<1>5. /\ type \in [Chats -> {"absent", "private", "group"}]
      /\ members \in [Chats -> SUBSET Users]
  <2>1. DOMAIN type = Chats /\ type = [c \in Chats |-> type[c]]
    BY <1>1
  <2>2. DOMAIN members = Chats /\ members = [c \in Chats |-> members[c]]
    BY <1>1
  <2> QED
    BY <1>4, <2>1, <2>2
<1>6. count \in [Chats -> 0 .. Cardinality(Users)]
  <2>1. ASSUME NEW c \in Chats
        PROVE  Cardinality(members[c]) \in 0 .. Cardinality(Users)
    <3>1. members[c] \in SUBSET Users
      BY <1>4
    <3>2. /\ IsFiniteSet(members[c])
          /\ Cardinality(members[c]) <= Cardinality(Users)
      BY <3>1, FS_Subset
    <3>3. Cardinality(members[c]) \in Nat /\ Cardinality(Users) \in Nat
      BY <3>2, FS_CardinalityType
    <3> QED
      BY <3>2, <3>3
  <2> QED
    BY <1>1, <2>1
<1>7. TypeOK
  <2>1. told \in [Pairs -> BOOLEAN]
    BY <1>2
  <2>2. loc \in [Requests -> Local]
    BY <1>2, EmptyTyped
  <2>3. ops \subseteq AllOps
    BY <1>2, ScenariosAssumption
  <2> QED
    BY <1>2, <1>3, <1>4, <1>5, <1>6, <2>1, <2>2, <2>3 DEF TypeOK
<1>8. \A r \in Requests : loc[r] = NoLocal /\ loc[r].step = "idle"
  BY <1>2 DEF NoLocal
<1>9. Apart
  <2>1. type[Group] = "group"
    BY <1>1 DEF Chats, Group
  <2> QED
    BY <1>4, <1>8, <2>1 DEF Apart, At
<1>10. Knowing
  BY <1>8, NothingKnown DEF Knowing
<1>11. Pins /\ PeersHear
  BY <1>2 DEF Pins, PeersHear
<1> QED
  BY <1>7, <1>9, <1>10, <1>11 DEF Inv

LEMMA StepInv == Inv /\ [Next]_vars => Inv'
<1> SUFFICES ASSUME Inv, [Next]_vars PROVE Inv'
  OBVIOUS
<1>1. ASSUME NEW r \in Requests,
        \/ \E p \in Acting : OpenStart(r, p[1], p[2]) \/ OpenStart(r, p[2], p[1])
        \/ OpenMine(r) \/ OpenTheirs(r) \/ OpenFind(r)
        \/ OpenCreate(r) \/ OpenJoin(r) \/ OpenCount(r)
      PROVE  Inv'
  BY <1>1, OpenReads, Creates, Joins, Counts
<1>2. ASSUME NEW r \in Requests,
        \/ \E u \in Actors, c \in Chats, t \in Ttls \cup {None} :
             SendStart(r, u, c, t)
        \/ SendMember(r) \/ SendDefault(r) \/ SendCounterpart(r) \/ SendOwn(r)
      PROVE  Inv'
  BY <1>2, SendReads
<1>3. ASSUME NEW r \in Requests,
        \/ \E p \in Acting, t \in Ttls : SetForUser(r, p[1], p[2], t)
        \/ \E u \in Actors, c \in Chats, t \in Ttls :
             SetForConversation(r, u, c, t)
        \/ SetMember(r) \/ SetFind(r) \/ SetUpdate(r) \/ SetInsert(r)
      PROVE  Inv'
  BY <1>3, SetReads, SetWrites
<1>4. ASSUME NEW r \in Requests,
        \/ \E u \in Actors, k \in Keys : UploadStart(r, u, k)
        \/ UploadFind(r) \/ UploadInsert(r) \/ UploadRotate(r)
        \/ UploadTell(r) \/ UploadFail(r)
        \/ \E p \in Acting : FetchStart(r, p[2], p[1])
        \/ FetchChats(r) \/ FetchShared(r) \/ FetchKey(r) \/ Finish(r)
      PROVE  Inv'
  BY <1>4, KeyReads, KeyWrites, Tells, Fetches
<1>5. CASE \/ \E p \in Acting : Clear(p[1], p[2], NoChat)
           \/ \E u \in Actors, c \in Chats : Clear(u, None, c)
           \/ \E u \in Actors, t \in Ttls \cup {None} : SetDefault(u, t)
           \/ \E u \in Movers : Move(u)
           \/ \E u \in Users, owners \in (SUBSET Actors) \ {{}} :
                FetchBatch(u, owners)
  BY <1>5, Changes, Moves, Fetches
<1>6. CASE UNCHANGED vars
  BY <1>6 DEF vars, Inv, TypeOK, Apart, Knowing, Pins, PeersHear, At
<1> QED
  BY <1>1, <1>2, <1>3, <1>4, <1>5, <1>6 DEF Next

\* What the proofs rest on holds in every reachable state.
LEMMA Invariance == Spec => []Inv
BY InitInv, StepInv, PTL DEF Spec

-----------------------------------------------------------------------------
\* Everything keeps its type; in particular a private conversation has no members
\* or two, whatever the order in which the requests that create one write.
THEOREM DirectChatTyped == Spec => []TypeOK
<1>1. Inv => TypeOK
  BY DEF Inv
<1> QED
  BY <1>1, Invariance, PTL

\* getOrCreatePrivateConversation: a request that began when the two had a private
\* conversation finds one, although it asks for the conversations of either in
\* queries of their own and holds no lock.
THEOREM OneChatPerPairAlways == Spec => []OneChatPerPair
<1>1. Inv => OneChatPerPair
  BY DEF Inv, Knowing, Known, Seen, OneChatPerPair
<1> QED
  BY <1>1, Invariance, PTL

\* resolveTtl: the time a message is stored with was in force at a moment of the
\* lookup if not more than one setting changed during it.
THEOREM SentWithTimeInForceAlways == Spec => []SentWithTimeInForce
<1>1. Inv => SentWithTimeInForce
  BY DEF Inv, Knowing, Known, Looked, SentWithTimeInForce, At
<1> QED
  BY <1>1, Invariance, PTL

\* uploadIdentityKey: a client that holds a key which has been replaced has been sent
\* key:changed, or the request that replaced it is still about to send it, or there
\* was a moment since the replacement without a conversation of the two; as long as
\* no request fails in between, however members come and go.
THEOREM PeersHearAlways == Spec => []PeersHear
<1>1. Inv => PeersHear
  BY DEF Inv
<1> QED
  BY <1>1, Invariance, PTL
=============================================================================
