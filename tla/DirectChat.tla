---------------------------- MODULE DirectChat ----------------------------
(***************************************************************************)
(* Two people talk: their private conversation is found or created         *)
(* (conversation.service.ts), the time a message may live is looked up     *)
(* when it is sent (burn-setting.service.ts, message.controller.ts), and   *)
(* each fetches the public key of the other (keys.service.ts).             *)
(*                                                                         *)
(* None of these requests holds a lock or a transaction.  An action is one *)
(* statement with the JavaScript that runs until the next await.           *)
(***************************************************************************)
EXTENDS Integers, FiniteSets

CONSTANTS
  Users,      \* accounts, all of them active
  Team,       \* members of the group that exists from the start
  Movers,     \* users who may leave it and join it, never its owner
  Friends,    \* pairs that may have a private conversation from the start
  Actors,     \* bound: users whose settings and keys change
  MaxChats,   \* bound: conversations ever
  Ttls,       \* times to live a user may choose
  Keys,       \* public identity keys
  None,       \* no setting, no key, no user: NULL
  Requests,   \* slots for requests in flight
  Scenarios   \* sets of operations that occur together in a behaviour

AllOps == {"open", "send", "set", "clear", "default", "upload", "fetch", "move",
           "fail"}

ASSUME UsersAssumption ==
  /\ IsFiniteSet(Users) /\ None \notin Users
  /\ Team \subseteq Users /\ Movers \subseteq Users /\ Actors \subseteq Users
  /\ Friends \subseteq {f \in SUBSET Users : Cardinality(f) = 2}
ASSUME BoundsAssumption == MaxChats \in Nat \ {0, 1}
ASSUME ValuesAssumption == None \notin Ttls /\ None \notin Keys
ASSUME ScenariosAssumption == Scenarios \subseteq SUBSET AllOps

Chats == 1 .. MaxChats
Group == 1
NoChat == 0
Pairs == {p \in Users \X Users : p[1] # p[2]}
Acting == {p \in Pairs : p[1] \in Actors}

VARIABLES
  type,     \* conversations
  members,  \* conversation_members
  count,    \* conversations.member_count
  byUser,   \* burn_settings with scope_type user: of <<owner, counterpart>>
  byChat,   \* burn_settings with scope_type conversation
  default,  \* app_users.default_burn_ttl_seconds
  key,      \* user_keys
  pinned,   \* external: the key of <<reader, owner>> a client holds, from the
            \* SELECT on that finds it, though it is still under way
  told,     \* external: key:changed has been sent to the client since
  parted,   \* history: holders of a replaced key who have had no conversation
            \* in common with its owner at some moment since the replacement
  loc,      \* requests in flight
  ops       \* the operations of this behaviour

chats == <<type, members, count>>
settings == <<byUser, byChat, default>>
keys == <<key, pinned, told, parted>>
vars == <<type, members, count, byUser, byChat, default, key, pinned, told,
          parted, loc, ops>>

\* user makes the request, peer or chat is what it names, ttl and key what it
\* carries or finds; mine, theirs and todo are what a lookup has collected.
\* row: the settings row found is still that row.  History: was, the times in
\* force since the sender was found to be a member; writes, the changes to them;
\* known, a chat of the two was there when the request began.
Local ==
  [step: {"idle", "members", "find", "create", "join", "count",
          "opened", "member", "default", "counterpart", "own",
          "stored", "setMember", "setFind", "update",
          "insert", "set", "keyFind", "rotate", "keyInsert", "peers",
          "chats", "shared", "read"},
   user: Users \cup {None}, peer: Users \cup {None}, chat: Chats \cup {NoChat},
   ttl: Ttls \cup {None}, key: Keys \cup {None},
   mine: SUBSET Chats, theirs: SUBSET Chats,
   todo: SUBSET {"mine", "theirs"}, row: BOOLEAN,
   was: SUBSET (Ttls \cup {None}), writes: 0 .. 2, known: BOOLEAN]
NoLocal ==
  [step |-> "idle", user |-> None, peer |-> None, chat |-> NoChat,
   ttl |-> None, key |-> None, mine |-> {}, theirs |-> {}, todo |-> {},
   row |-> FALSE, was |-> {}, writes |-> 0, known |-> FALSE]

Private(u, v) ==
  {c \in Chats : type[c] = "private" /\ members[c] = {u, v}}
MyChats(u) == {c \in Chats : u \in members[c]}
Together(u, v, membs) == \E c \in Chats : u \in membs[c] /\ v \in membs[c]

TypeOK ==
  /\ type \in [Chats -> {"absent", "private", "group"}]
  /\ members \in [Chats -> SUBSET Users]
  /\ count \in [Chats -> 0 .. Cardinality(Users)]
  /\ byUser \in [Pairs -> Ttls \cup {None}]
  /\ byChat \in [Users \X Chats -> Ttls \cup {None}]
  /\ default \in [Users -> Ttls \cup {None}]
  /\ key \in [Users -> Keys \cup {None}]
  /\ pinned \in [Pairs -> Keys \cup {None}]
  /\ told \in [Pairs -> BOOLEAN]
  /\ parted \subseteq Pairs
  /\ loc \in [Requests -> Local]
  /\ ops \subseteq AllOps
  /\ \A c \in Chats : type[c] = "private" /\ members[c] # {} =>
       Cardinality(members[c]) = 2

\* One group, perhaps one private conversation; nobody has chosen anything.
Init ==
  /\ \E f \in Friends \cup {{}} :
       /\ type = [c \in Chats |-> CASE c = Group -> "group"
                                  [] c = Group + 1 /\ f # {} -> "private"
                                  [] OTHER -> "absent"]
       /\ members = [c \in Chats |-> CASE c = Group -> Team
                                     [] c = Group + 1 -> f
                                     [] OTHER -> {}]
       /\ count = [c \in Chats |-> Cardinality(members[c])]
  /\ byUser = [p \in Pairs |-> None]
  /\ byChat = [p \in Users \X Chats |-> None]
  /\ default = [u \in Users |-> None]
  /\ key = [u \in Users |-> None]
  /\ pinned = [p \in Pairs |-> None]
  /\ told = [p \in Pairs |-> FALSE]
  /\ parted = {}
  /\ loc = [r \in Requests |-> NoLocal]
  /\ ops \in Scenarios

At(r, step) == loc[r].step = step
Goto(r, record) == loc' = [loc EXCEPT ![r] = record]
Step(r, step) == [loc[r] EXCEPT !.step = step]
Reads == UNCHANGED <<chats, settings, keys, ops>>

Begin(r, op, record) ==
  /\ op \in ops
  /\ At(r, "idle")
  /\ Goto(r, record)
  /\ Reads

\* What becomes of parted with members membs, keys given and keys held.
Parted(membs, given, held) ==
  {p \in Pairs : /\ held[p] \notin {None, given[p[2]]}
                 /\ p \in parted \/ ~Together(p[1], p[2], membs)}

\* GroupService.addMembers and removeMember, subscribe and unsubscribe of
\* ChannelService; GroupMembership has their statements.
Move(u) ==
  /\ "move" \in ops
  /\ members' = [members EXCEPT ![Group] =
                   IF u \in @ THEN @ \ {u} ELSE @ \cup {u}]
  /\ count' = [count EXCEPT ![Group] = Cardinality(members'[Group])]
  /\ parted' = Parted(members', key, pinned)
  /\ UNCHANGED <<type, settings, key, pinned, told, loc, ops>>

\* Any request ends with its answer.
Finish(r) ==
  /\ loc[r].step \in {"opened", "stored", "set"}
  /\ Goto(r, NoLocal)
  /\ Reads
-----------------------------------------------------------------------------
(* ConversationService.getOrCreatePrivateConversation *)

\* The other account exists and is active; otherwise nothing happens.
OpenStart(r, u, v) ==
  Begin(r, "open", [NoLocal EXCEPT
    !.step = "members", !.user = u, !.peer = v, !.todo = {"mine", "theirs"},
    !.known = Private(u, v) # {}])

\* Two queries at the same time, each on its own connection.
OpenMine(r) ==
  /\ At(r, "members") /\ "mine" \in loc[r].todo
  /\ Goto(r, [loc[r] EXCEPT !.mine = MyChats(loc[r].user),
                            !.todo = @ \ {"mine"}])
  /\ Reads

OpenTheirs(r) ==
  /\ At(r, "members") /\ "theirs" \in loc[r].todo
  /\ Goto(r, [loc[r] EXCEPT !.theirs = MyChats(loc[r].peer),
                            !.todo = @ \ {"theirs"}])
  /\ Reads

\* Mutant of OpenFind: one common conversation is taken and then looked at.
OpenFindAny(r) ==
  /\ At(r, "members") /\ loc[r].todo = {}
  /\ LET common == loc[r].mine \cap loc[r].theirs
     IN \/ /\ common = {}
           /\ Goto(r, Step(r, "create"))
        \/ \E c \in common :
             Goto(r, IF type[c] = "private"
                     THEN [Step(r, "opened") EXCEPT !.chat = c]
                     ELSE Step(r, "create"))
  /\ Reads

\* Any private conversation both are in; a group does not count.
OpenFind(r) ==
  /\ At(r, "members") /\ loc[r].todo = {}
  /\ LET common == {c \in loc[r].mine \cap loc[r].theirs : type[c] = "private"}
     IN \/ common = {} /\ Goto(r, Step(r, "create"))
        \/ \E c \in common : Goto(r, [Step(r, "opened") EXCEPT !.chat = c])
  /\ Reads

\* The row, its members and its count are written one after the other.
OpenCreate(r) ==
  /\ At(r, "create")
  /\ \E c \in Chats :
       /\ type[c] = "absent"
       /\ \A d \in Chats : d < c => type[d] # "absent"
       /\ type' = [type EXCEPT ![c] = "private"]
       /\ Goto(r, [Step(r, "join") EXCEPT !.chat = c])
  /\ UNCHANGED <<members, count, settings, keys, ops>>

\* Mutant of OpenJoin: the one who asks joins first, in a statement of its own.
OpenJoinOne(r) ==
  /\ At(r, "join")
  /\ members' = [members EXCEPT ![loc[r].chat] = @ \cup {loc[r].user}]
  /\ Goto(r, Step(r, "count"))
  /\ UNCHANGED <<type, count, settings, keys, ops>>

\* Both members in one transaction.
OpenJoin(r) ==
  /\ At(r, "join")
  /\ members' = [members EXCEPT ![loc[r].chat] = {loc[r].user, loc[r].peer}]
  /\ Goto(r, Step(r, "count"))
  /\ UNCHANGED <<type, count, settings, keys, ops>>

OpenCount(r) ==
  /\ At(r, "count")
  /\ count' = [count EXCEPT ![loc[r].chat] = 2]
  /\ Goto(r, Step(r, "opened"))
  /\ UNCHANGED <<type, members, settings, keys, ops>>
-----------------------------------------------------------------------------
(* BurnSettingService: the time to live of a message without one *)

\* What is in force for user u in a conversation, were it read at once.
InForce(u, c, mine, ours, mean) ==
  LET others == members[c] \ {u}
      own == IF type[c] = "private"
             THEN IF others = {} THEN None
                  ELSE mine[<<u, CHOOSE v \in others : TRUE>>]
             ELSE ours[<<u, c>>]
  IN IF own # None THEN own ELSE mean[u]

Resolving == {"default", "counterpart", "own"}

\* Every lookup under way sees the change in its history.
Noted(l, mine, ours, mean) ==
  [q \in Requests |->
     IF l[q].step \in Resolving
     THEN [l[q] EXCEPT
            !.was = @ \cup {InForce(l[q].user, l[q].chat, mine, ours, mean)},
            !.writes = IF @ < 2 THEN @ + 1 ELSE @]
     ELSE l[q]]

\* MessageController.send: a time in the request comes first.  bound: lookups
\* only read, so one is under way at a time.
SendStart(r, u, c, t) ==
  /\ type[c] # "absent"
  /\ \A q \in Requests : loc[q].step \notin Resolving \cup {"member", "stored"}
  /\ Begin(r, "send", [NoLocal EXCEPT
       !.step = IF t = None THEN "member" ELSE "stored", !.user = u, !.chat = c,
       !.ttl = t, !.was = {t} \ {None}])

SendMember(r) ==
  /\ At(r, "member")
  /\ LET u == loc[r].user  c == loc[r].chat
     IN Goto(r, IF u \in members[c]
                THEN [Step(r, "default") EXCEPT
                        !.was = {InForce(u, c, byUser, byChat, default)}]
                ELSE NoLocal)
  /\ Reads

SendDefault(r) ==
  /\ At(r, "default")
  /\ Goto(r, [loc[r] EXCEPT
       !.ttl = default[loc[r].user],
       !.step = IF type[loc[r].chat] = "private" THEN "counterpart" ELSE "own"])
  /\ Reads

SendCounterpart(r) ==
  /\ At(r, "counterpart")
  /\ \E v \in members[loc[r].chat] \ {loc[r].user} :
       Goto(r, [Step(r, "own") EXCEPT !.peer = v])
  /\ Reads

\* findOwn: the row for the person, or for the group, the request is about.
Own(r) ==
  IF loc[r].peer # None THEN byUser[<<loc[r].user, loc[r].peer>>]
  ELSE byChat[<<loc[r].user, loc[r].chat>>]

\* Mutant of SendOwn: in a group, too, the default comes first.
SendOwnLast(r) ==
  /\ At(r, "own")
  /\ LET own == Own(r)
     IN Goto(r, [Step(r, "stored") EXCEPT !.ttl = IF @ # None THEN @ ELSE own])
  /\ Reads

\* The setting of the sender; the message is stored with what results.
SendOwn(r) ==
  /\ At(r, "own")
  /\ LET own == Own(r)
     IN Goto(r, [Step(r, "stored") EXCEPT !.ttl = IF own # None THEN own ELSE @])
  /\ Reads
-----------------------------------------------------------------------------
(* BurnSettingService: choosing a time, and no longer choosing one.  The    *)
(* other account, or the conversation, exists.                             *)

\* For a person ...
SetForUser(r, u, v, t) ==
  Begin(r, "set", [NoLocal EXCEPT
    !.step = "setFind", !.user = u, !.peer = v, !.ttl = t])

\* ... or for a group one belongs to; a private conversation is refused.
SetForConversation(r, u, c, t) ==
  /\ type[c] = "group"
  /\ Begin(r, "set", [NoLocal EXCEPT
       !.step = "setMember", !.user = u, !.chat = c, !.ttl = t])

SetMember(r) ==
  /\ At(r, "setMember")
  /\ Goto(r, IF loc[r].user \in members[loc[r].chat]
             THEN Step(r, "setFind") ELSE NoLocal)
  /\ Reads

\* upsert: the row that is there is written by its id, else one is inserted.
SetFind(r) ==
  /\ At(r, "setFind")
  /\ Goto(r, IF Own(r) # None THEN [Step(r, "update") EXCEPT !.row = TRUE]
             ELSE Step(r, "insert"))
  /\ Reads

\* The row the request req is about becomes t; None deletes it.  An update that
\* has found a row which is deleted now will not meet it again.
Write(req, t, l) ==
  LET same(q) == /\ l[q].user = req.user /\ l[q].peer = req.peer
                 /\ l[q].chat = req.chat
      mine == IF req.peer = None THEN byUser
              ELSE [byUser EXCEPT ![<<req.user, req.peer>>] = t]
      ours == IF req.peer # None THEN byChat
              ELSE [byChat EXCEPT ![<<req.user, req.chat>>] = t]
  IN /\ byUser' = mine
     /\ byChat' = ours
     /\ loc' = Noted([q \in Requests |->
                       IF t = None /\ l[q].step = "update" /\ same(q)
                       THEN [l[q] EXCEPT !.row = FALSE] ELSE l[q]],
                     mine, ours, default)

Done(r) == [loc EXCEPT ![r] = Step(r, "set")]

\* A row deleted meanwhile is not written, and the request succeeds all the
\* same.
SetUpdate(r) ==
  /\ At(r, "update")
  /\ IF loc[r].row THEN Write(loc[r], loc[r].ttl, Done(r))
     ELSE Goto(r, Step(r, "set")) /\ UNCHANGED <<byUser, byChat>>
  /\ UNCHANGED <<chats, default, keys, ops>>

\* The unique key lets one of two inserts fail, and its request with it.
SetInsert(r) ==
  /\ At(r, "insert")
  /\ IF Own(r) = None THEN Write(loc[r], loc[r].ttl, Done(r))
     ELSE Goto(r, NoLocal) /\ UNCHANGED <<byUser, byChat>>
  /\ UNCHANGED <<chats, default, keys, ops>>

\* clearForUser and clearForConversation: one DELETE.
Clear(u, v, c) ==
  /\ "clear" \in ops
  /\ Write([user |-> u, peer |-> v, chat |-> c], None, loc)
  /\ UNCHANGED <<chats, default, keys, ops>>

\* AuthService.updateProfile: one UPDATE.
SetDefault(u, t) ==
  /\ "default" \in ops
  /\ t # default[u]
  /\ default' = [default EXCEPT ![u] = t]
  /\ loc' = Noted(loc, byUser, byChat, default')
  /\ UNCHANGED <<chats, byUser, byChat, keys, ops>>
-----------------------------------------------------------------------------
(* KeysService *)

UploadStart(r, u, k) ==
  Begin(r, "upload", [NoLocal EXCEPT !.step = "keyFind", !.user = u, !.key = k])

\* The same key again changes nothing and tells nobody.
UploadFind(r) ==
  /\ At(r, "keyFind")
  /\ LET old == key[loc[r].user]
     IN Goto(r, CASE old = None -> Step(r, "keyInsert")
                  [] old = loc[r].key -> NoLocal
                  [] OTHER -> Step(r, "rotate"))
  /\ Reads

\* One row for each user: the second of two first uploads fails.
UploadInsert(r) ==
  /\ At(r, "keyInsert")
  /\ key' = IF key[loc[r].user] = None
            THEN [key EXCEPT ![loc[r].user] = loc[r].key] ELSE key
  /\ Goto(r, NoLocal)
  /\ UNCHANGED <<chats, settings, pinned, told, parted, ops>>

UploadRotate(r) ==
  /\ At(r, "rotate")
  /\ key' = [key EXCEPT ![loc[r].user] = loc[r].key]
  /\ parted' = Parted(members, key', pinned)
  /\ Goto(r, Step(r, "peers"))
  /\ UNCHANGED <<chats, settings, pinned, told, ops>>

\* getPeerUserIds
Peers(u) == (UNION {members[c] : c \in MyChats(u)}) \ {u}

\* Mutant of UploadTell: only those with a private conversation are told.
UploadTellPrivate(r) ==
  /\ At(r, "peers")
  /\ LET u == loc[r].user
         near == {v \in Users : Private(u, v) # {}}
     IN told' = [p \in Pairs |-> told[p] \/ (p[2] = u /\ p[1] \in near)]
  /\ Goto(r, NoLocal)
  /\ UNCHANGED <<chats, settings, key, pinned, parted, ops>>

\* key:changed goes to everyone who shares a conversation of any kind.
UploadTell(r) ==
  /\ At(r, "peers")
  /\ LET u == loc[r].user
     IN told' = [p \in Pairs |-> told[p] \/ (p[2] = u /\ p[1] \in Peers(u))]
  /\ Goto(r, NoLocal)
  /\ UNCHANGED <<chats, settings, key, pinned, parted, ops>>

\* That query fails, or the process ends: the key has changed all the same.
UploadFail(r) ==
  /\ "fail" \in ops
  /\ At(r, "peers")
  /\ Goto(r, NoLocal)
  /\ Reads

\* getIdentityKey of another user
FetchStart(r, u, v) ==
  Begin(r, "fetch", [NoLocal EXCEPT !.step = "chats", !.user = u, !.peer = v])

FetchChats(r) ==
  /\ At(r, "chats")
  /\ LET mine == MyChats(loc[r].user)
     IN Goto(r, IF mine = {} THEN NoLocal
                ELSE [Step(r, "shared") EXCEPT !.mine = mine])
  /\ Reads

\* Not without a conversation in common.
FetchShared(r) ==
  /\ At(r, "shared")
  /\ Goto(r, IF MyChats(loc[r].peer) \cap loc[r].mine = {}
             THEN NoLocal ELSE Step(r, "read"))
  /\ Reads

\* A client of user u is given the keys of the owners it has asked for.  Whether it
\* still shares a conversation with them is not asked again.
Pin(u, owners) ==
  LET got == {v \in owners : key[v] # None}
  IN /\ pinned' = [p \in Pairs |-> IF p[1] = u /\ p[2] \in got
                                   THEN key[p[2]] ELSE pinned[p]]
     /\ told' = [p \in Pairs |-> told[p] /\ ~(p[1] = u /\ p[2] \in got)]
     /\ parted' = Parted(members, key, pinned')

FetchKey(r) ==
  /\ At(r, "read")
  /\ Pin(loc[r].user, {loc[r].peer})
  /\ Goto(r, NoLocal)
  /\ UNCHANGED <<chats, settings, key, ops>>

\* getIdentityKeysBatch: one SELECT over keys and conversations.
FetchBatch(u, owners) ==
  /\ "fetch" \in ops
  /\ Pin(u, owners \cap Peers(u))
  /\ UNCHANGED <<chats, settings, key, loc, ops>>

Next ==
  \/ \E r \in Requests :
       \/ \E p \in Acting : OpenStart(r, p[1], p[2]) \/ OpenStart(r, p[2], p[1])
       \/ OpenMine(r) \/ OpenTheirs(r) \/ OpenFind(r)
       \/ OpenCreate(r) \/ OpenJoin(r) \/ OpenCount(r)
       \/ \E u \in Actors, c \in Chats, t \in Ttls \cup {None} :
            SendStart(r, u, c, t)
       \/ SendMember(r) \/ SendDefault(r)
       \/ SendCounterpart(r) \/ SendOwn(r)
       \/ \E p \in Acting, t \in Ttls : SetForUser(r, p[1], p[2], t)
       \/ \E u \in Actors, c \in Chats, t \in Ttls : SetForConversation(r, u, c, t)
       \/ SetMember(r) \/ SetFind(r)
       \/ SetUpdate(r) \/ SetInsert(r)
       \/ \E u \in Actors, k \in Keys : UploadStart(r, u, k)
       \/ UploadFind(r) \/ UploadInsert(r) \/ UploadRotate(r)
       \/ UploadTell(r) \/ UploadFail(r)
       \/ \E p \in Acting : FetchStart(r, p[2], p[1])
       \/ FetchChats(r) \/ FetchShared(r) \/ FetchKey(r)
       \/ Finish(r)
  \/ \E p \in Acting : Clear(p[1], p[2], NoChat)
  \/ \E u \in Actors, c \in Chats : Clear(u, None, c)
  \/ \E u \in Actors, t \in Ttls \cup {None} : SetDefault(u, t)
  \/ \E u \in Movers : Move(u)
  \/ \E u \in Users, owners \in (SUBSET Actors) \ {{}} : FetchBatch(u, owners)

Spec == Init /\ [][Next]_vars
-----------------------------------------------------------------------------
\* Two who have a private conversation get no second one, although the lookup
\* and the creation are separate statements: a request that could see the first
\* one when it began creates nothing.
OneChatPerPair ==
  \A r \in Requests : loc[r].known =>
    loc[r].step \notin {"create", "join", "count"}

\* The time a message gets was in force at some moment of the lookup, as long as
\* at most one change falls into it; the lookup reads the default, the
\* counterpart and the setting one after the other.
SentWithTimeInForce ==
  \A r \in Requests : At(r, "stored") /\ loc[r].writes < 2 =>
    loc[r].ttl \in loc[r].was

\* Whoever holds a key that has been replaced is told, although the peers are looked
\* up after the replacement and members come and go: unless the request that
\* replaced it is still about to tell, or he has had no conversation in common with
\* its owner at some moment since.  A lookup that fails is left out.
PeersHear ==
  "fail" \notin ops => \A p \in Pairs :
    \/ pinned[p] \in {None, key[p[2]]}
    \/ told[p]
    \/ p \in parted
    \/ \E r \in Requests : At(r, "peers") /\ loc[r].user = p[2]
-----------------------------------------------------------------------------
(* What the documents promise and the code does not keep. *)

\* burn-setting.service.ts: no time to live only where nothing is set.
UnsetOnlyIfNothingIsSet ==
  \A r \in Requests : At(r, "stored") /\ loc[r].ttl = None => None \in loc[r].was

\* docs/TOFU_FRONTEND.md, line 93, and keys.service.ts, line 176: whoever may have
\* cached the old key is told.  The peers are those of the moment: a holder who has
\* left the group, or unsubscribed, hears nothing and keeps the old key.
HoldersHear ==
  "fail" \notin ops => \A p \in Pairs :
    \/ pinned[p] \in {None, key[p[2]]}
    \/ told[p]
    \/ \E r \in Requests : At(r, "peers") /\ loc[r].user = p[2]

\* burn-setting.service.ts, lines 134 and 160: success, with the time as set.  An
\* update whose row was deleted after the lookup writes nothing and answers so.
SetLands ==
  [][\A r \in Requests : ~At(r, "set") /\ loc'[r].step = "set" =>
       loc[r].ttl = IF loc[r].peer # None THEN byUser'[<<loc[r].user, loc[r].peer>>]
                    ELSE byChat'[<<loc[r].user, loc[r].chat>>]]_vars

\* conversation.service.ts, "get or create": one private conversation for two.
NoSecondChat ==
  \A p \in Pairs : Cardinality(Private(p[1], p[2])) <= 1
=============================================================================
