---------------------------- MODULE BurnMessage ----------------------------
(***************************************************************************)
(* The life of one burn-after-reading message in one conversation, from    *)
(* sendMessage to the last file deletion, with everything that touches its *)
(* row running concurrently: message.service.ts (send, reveal, consume,    *)
(* list, recall), destroy.service.ts (ack, purge, sweep), burn.scheduler   *)
(* (mark), admin-message.service.ts (manual destroy) and the owner's       *)
(* dissolution of group.service.ts / channel.service.ts.                   *)
(*                                                                         *)
(* Every handler is an async function; between two awaits it is atomic, so *)
(* an action is one database statement (or transaction) together with the  *)
(* JavaScript that runs until the next await.  pc[p] names the statement   *)
(* handler p will issue next, loc[p] is what it read so far.  A request    *)
(* that a check on freshly read data rejects changes nothing.              *)
(***************************************************************************)
EXTENDS Integers, FiniteSets

CONSTANTS
  Users,           \* people of the model
  Sender,          \* author of the message
  InitialMembers,  \* conversation_members at the start
  Movers,          \* users who may join and leave while the model runs
  Requests,        \* slots for client and admin requests in flight
  Markers,         \* slots for runs of BurnScheduler.markDestroyed
  Sweepers,        \* slots for runs of BurnScheduler.purgeSweep
  Ops,             \* kinds of request this instance issues
  Ttls,            \* values of burn_ttl_seconds; 0 is NULL, not a burn message
  MediaKinds,      \* subset of BOOLEAN: may the message be voice / video
  MediaWindow,     \* media duration + buffer, or the default window
  Fallback,        \* BURN_FALLBACK_TTL_HOURS
  RecallWindow,    \* the 48 hours of recallMessage
  ConvType,        \* conversations.type
  Thresholds,      \* values of PURGE_ACK_THRESHOLD
  AckDays,         \* ACK_FALLBACK_DAYS; 0 turns the timeout off
  SendBy,          \* bound: last instant at which the message is sent
  MaxTime,         \* bound: the clock stops here
  MaxCrashes       \* bound: process restarts

RequestOps == {"send", "reveal", "consume", "list", "recall", "ack",
               "destroy", "dissolve"}

ASSUME UsersAssumption ==
  /\ IsFiniteSet(Users)
  /\ Sender \in Users
  /\ InitialMembers \subseteq Users
  /\ Movers \subseteq Users
ASSUME OpsAssumption == Ops \subseteq RequestOps
ASSUME SlotsAssumption ==
  /\ Requests \cap Markers = {}
  /\ Requests \cap Sweepers = {}
  /\ Markers \cap Sweepers = {}
ASSUME DurationsAssumption ==
  /\ Ttls \subseteq Nat
  /\ MediaKinds \subseteq BOOLEAN
  /\ MediaWindow \in Nat
  /\ Fallback \in Nat \ {0}
  /\ RecallWindow \in Nat
  /\ AckDays \in Nat
  /\ Thresholds \subseteq Nat
ASSUME ConvAssumption == ConvType \in {"private", "group", "channel"}
ASSUME BoundsAssumption ==
  /\ SendBy \in Nat
  /\ MaxTime \in Nat
  /\ MaxCrashes \in Nat

Procs == Requests \cup Markers \cup Sweepers
Null == 0                 \* a NULL datetime; the clock starts at 1
Longer(a, b) == IF a >= b THEN a ELSE b

VARIABLES
  now,          \* wall clock
  threshold,    \* PURGE_ACK_THRESHOLD of this deployment
  ttl, media,   \* burn_ttl_seconds and isMediaBurnMsg of the message sent
  msg,          \* its row of messages
  receipts,     \* its rows of message_receipts, by user
  acks,         \* users with a row in message_destroy_acks
  tomb,         \* its row of message_tombstones
  attachment,   \* is the uploaded file still in storage
  members,      \* conversation_members
  dissolvedAt,  \* conversations.dissolved_at
  pc, loc,      \* handlers in flight: next statement, local variables
  crashes,      \* restarts so far
  delivered,    \* history: users who were handed the content
  announced,    \* history: message:destroyed was broadcast
  stamps        \* history: the dates its destroyed_at has had

rows == <<msg, receipts, acks, tomb, attachment, members, dissolvedAt>>
history == <<delivered, announced, stamps>>
world == <<now, threshold, ttl, media, crashes>>
vars == <<now, threshold, ttl, media, msg, receipts, acks, tomb, attachment,
          members, dissolvedAt, pc, loc, crashes, delivered, announced,
          stamps>>
-----------------------------------------------------------------------------
Reasons == {"none", "fallback_expired", "all_read", "manual"}
Triggers == {"none", "ack_by_user", "ack_timeout"}

Row == [row : {"absent", "stored", "purged"}, sentAt : Nat, destroyAt : Nat,
        recalled : BOOLEAN, destroyed : BOOLEAN, destroyedAt : Nat,
        reason : Reasons]
NoRow == [row |-> "absent", sentAt |-> Null, destroyAt |-> Null,
          recalled |-> FALSE, destroyed |-> FALSE, destroyedAt |-> Null,
          reason |-> "none"]

Receipt == [exists : BOOLEAN, revealedAt : Nat, burnAt : Nat]
NoReceipt == [exists |-> FALSE, revealedAt |-> Null, burnAt |-> Null]
FreshReceipt == [NoReceipt EXCEPT !.exists = TRUE]

Tombstone == [exists : BOOLEAN, destroyedAt : Nat, reason : Reasons]
NoTombstone == [exists |-> FALSE, destroyedAt |-> Null, reason |-> "none"]

Labels == {"idle", "admit", "sendConv", "sendMembers", "sendSave",
           "sendReceipts", "revealReceipt", "revealCreate", "revealStart",
           "revealExtend", "revealReply", "consumeReceipt", "consumeWrite",
           "listLoad", "listReceipt", "recallWrite", "ackLoad", "ackUpsert",
           "policyCount", "policyNeed", "purgeLoad", "purgeTx", "purgeFiles",
           "sweepSelect", "markSelect", "markUpdate", "destroyWrite", "tell",
           "dissolveTx"}

\* stamp is the datetime column the handler read last: destroy_at for a
\* reveal, destroyed_at for a purge.
Local == [op : RequestOps \cup {"none", "mark", "sweep"}, user : Users,
          t : Nat, stamp : Nat, acks : Nat, reason : Reasons,
          trigger : Triggers, audience : SUBSET Users]
NoLocal == [op |-> "none", user |-> Sender, t |-> Null, stamp |-> Null,
            acks |-> 0, reason |-> "none", trigger |-> "none",
            audience |-> {}]

Stored == msg.row = "stored"
Live == Stored /\ ~msg.destroyed

\* burnMediaWindowSeconds, or the plain ttl
Window == IF media THEN Longer(ttl, MediaWindow) ELSE ttl

\* Mutant of Promised: the ttl is forgotten, the flaw V6.0 repaired.
PromisedWithoutTtl(sentAt) == sentAt + Fallback

\* Mutant of Promised: the offset has the wrong sign.
PromisedBackwards(sentAt) == sentAt - Longer(Fallback, ttl)

\* destroy_at as written by sendMessage
Promised(sentAt) == sentAt + Longer(Fallback, ttl)

TypeOK ==
  /\ now \in Nat
  /\ threshold \in Nat
  /\ ttl \in Nat
  /\ media \in BOOLEAN
  /\ msg \in Row
  /\ receipts \in [Users -> Receipt]
  /\ acks \subseteq Users
  /\ tomb \in Tombstone
  /\ attachment \in BOOLEAN
  /\ members \subseteq Users
  /\ dissolvedAt \in Nat
  /\ pc \in [Procs -> Labels]
  /\ loc \in [Procs -> Local]
  /\ crashes \in Nat
  /\ delivered \subseteq Users
  /\ announced \in BOOLEAN
  /\ stamps \subseteq Nat

Init ==
  /\ now = 1
  /\ threshold \in Thresholds
  /\ ttl \in Ttls
  /\ media \in MediaKinds
  /\ msg = NoRow
  /\ receipts = [u \in Users |-> NoReceipt]
  /\ acks = {}
  /\ tomb = NoTombstone
  /\ attachment = TRUE
  /\ members = InitialMembers
  /\ dissolvedAt = Null
  /\ pc = [p \in Procs |-> "idle"]
  /\ loc = [p \in Procs |-> NoLocal]
  /\ crashes = 0
  /\ delivered = {}
  /\ announced = FALSE
  /\ stamps = {}
-----------------------------------------------------------------------------
(* Control flow of a handler. *)

At(p, label) == pc[p] = label

Goto(p, label, local) ==
  /\ pc' = [pc EXCEPT ![p] = label]
  /\ loc' = [loc EXCEPT ![p] = local]

Done(p) == Goto(p, "idle", NoLocal)

Begin(op, u) == [NoLocal EXCEPT !.op = op, !.user = u]

\* assertMember: the statement after it depends on the handler; a stranger
\* is turned away.  The handlers read the clock right after it.
AfterAdmit == [send |-> "sendConv", reveal |-> "revealReceipt",
               consume |-> "consumeReceipt", list |-> "listLoad",
               ack |-> "ackLoad"]

Admit(p) ==
  /\ At(p, "admit")
  /\ IF loc[p].user \in members /\ loc[p].op \in DOMAIN AfterAdmit
     THEN Goto(p, AfterAdmit[loc[p].op], [loc[p] EXCEPT !.t = now])
     ELSE Done(p)
  /\ UNCHANGED <<world, rows, history>>
-----------------------------------------------------------------------------
(* sendMessage *)

SendStart(p) ==
  /\ At(p, "idle")
  /\ "send" \in Ops
  /\ msg.row = "absent"
  /\ \A q \in Procs : loc[q].op # "send"     \* this is the one message
  /\ Goto(p, "admit", Begin("send", Sender))
  /\ UNCHANGED <<world, rows, history>>

\* The conversation is read; a dissolved one takes no message.
SendConv(p) ==
  /\ At(p, "sendConv")
  /\ IF dissolvedAt = Null THEN Goto(p, "sendMembers", loc[p]) ELSE Done(p)
  /\ UNCHANGED <<world, rows, history>>

SendMembers(p) ==
  /\ At(p, "sendMembers")
  /\ Goto(p, "sendSave", [loc[p] EXCEPT !.audience = members])
  /\ UNCHANGED <<world, rows, history>>

SendSave(p) ==
  /\ At(p, "sendSave")
  /\ now <= SendBy
  /\ msg' = [NoRow EXCEPT !.row = "stored", !.sentAt = now,
                          !.destroyAt = IF ttl = 0 THEN Null ELSE Promised(now)]
  /\ Goto(p, "sendReceipts", loc[p])
  /\ UNCHANGED <<world, receipts, acks, tomb, attachment, members,
                 dissolvedAt, history>>

\* One save() of the whole array is one transaction: the unique key on
\* (message_id, user_id) makes it all or nothing.
SendReceipts(p) ==
  /\ At(p, "sendReceipts")
  /\ receipts' = IF \E u \in loc[p].audience : receipts[u].exists
                 THEN receipts
                 ELSE [u \in Users |-> IF u \in loc[p].audience
                                       THEN FreshReceipt ELSE receipts[u]]
  /\ Done(p)
  /\ UNCHANGED <<world, msg, acks, tomb, attachment, members, dissolvedAt,
                 history>>
-----------------------------------------------------------------------------
(* revealMessage *)

RevealLoad(p, u) ==
  /\ At(p, "idle")
  /\ "reveal" \in Ops
  /\ Live /\ ttl # 0 /\ ~msg.recalled
  /\ Goto(p, "admit", [Begin("reveal", u) EXCEPT !.stamp = msg.destroyAt])
  /\ UNCHANGED <<world, rows, history>>

\* Fallback deadline, then the receipt: missing, expired, first opening, or
\* opened before.
RevealReceipt(p) ==
  /\ At(p, "revealReceipt")
  /\ LET mine == receipts[loc[p].user]
         pastFallback == loc[p].stamp # Null /\ loc[p].stamp <= loc[p].t
         expired == mine.burnAt # Null /\ mine.burnAt <= loc[p].t
     IN \/ (pastFallback \/ expired) /\ Done(p)
        \/ /\ ~pastFallback /\ ~expired /\ ~mine.exists
           /\ Goto(p, "revealCreate", loc[p])
        \/ /\ ~pastFallback /\ ~expired /\ mine.exists
           /\ mine.revealedAt = Null
           /\ Goto(p, "revealStart", loc[p])
        \/ /\ ~pastFallback /\ ~expired /\ mine.exists
           /\ mine.revealedAt # Null
           /\ Goto(p, "revealReply", loc[p])
  /\ UNCHANGED <<world, rows, history>>

\* INSERT of the missing receipt; the unique key rejects a second one.
RevealCreate(p) ==
  /\ At(p, "revealCreate")
  /\ IF receipts[loc[p].user].exists
     THEN Done(p) /\ UNCHANGED receipts
     ELSE /\ receipts' = [receipts EXCEPT ![loc[p].user] = FreshReceipt]
          /\ Goto(p, "revealStart", loc[p])
  /\ UNCHANGED <<world, msg, acks, tomb, attachment, members, dissolvedAt,
                 history>>

\* UPDATE by id: starts the timer whatever the receipt holds by now.
RevealStart(p) ==
  /\ At(p, "revealStart")
  /\ LET u == loc[p].user
         burnAt == loc[p].t + Window
     IN /\ receipts' = IF receipts[u].exists
                       THEN [receipts EXCEPT ![u].revealedAt = loc[p].t,
                                             ![u].burnAt = burnAt]
                       ELSE receipts
        /\ Goto(p, IF burnAt > loc[p].stamp THEN "revealExtend"
                                            ELSE "revealReply", loc[p])
  /\ UNCHANGED <<world, msg, acks, tomb, attachment, members, dissolvedAt,
                 history>>

\* Pushes destroy_at, judged too short on the value read at the start.
RevealExtend(p) ==
  /\ At(p, "revealExtend")
  /\ msg' = IF Stored THEN [msg EXCEPT !.destroyAt = loc[p].t + Window]
                      ELSE msg
  /\ Goto(p, "revealReply", loc[p])
  /\ UNCHANGED <<world, receipts, acks, tomb, attachment, members,
                 dissolvedAt, history>>

RevealReply(p) ==
  /\ At(p, "revealReply")
  /\ delivered' = delivered \cup {loc[p].user}
  /\ Done(p)
  /\ UNCHANGED <<world, rows, announced, stamps>>
-----------------------------------------------------------------------------
(* consumeMessage *)

ConsumeLoad(p, u) ==
  /\ At(p, "idle")
  /\ "consume" \in Ops
  /\ Stored /\ ttl # 0 /\ media /\ ~msg.recalled
  /\ Goto(p, "admit", Begin("consume", u))
  /\ UNCHANGED <<world, rows, history>>

ConsumeReceipt(p) ==
  /\ At(p, "consumeReceipt")
  /\ LET mine == receipts[loc[p].user]
     IN IF mine.exists /\ mine.revealedAt # Null /\ mine.burnAt > now
        THEN Goto(p, "consumeWrite", [loc[p] EXCEPT !.t = now])
        ELSE Done(p)
  /\ UNCHANGED <<world, rows, history>>

ConsumeWrite(p) ==
  /\ At(p, "consumeWrite")
  /\ LET u == loc[p].user
     IN receipts' = IF receipts[u].exists
                    THEN [receipts EXCEPT ![u].burnAt = loc[p].t]
                    ELSE receipts
  /\ Done(p)
  /\ UNCHANGED <<world, msg, acks, tomb, attachment, members, dissolvedAt,
                 history>>
-----------------------------------------------------------------------------
(* listMessages with applyBurnView *)

ListStart(p, u) ==
  /\ At(p, "idle")
  /\ "list" \in Ops
  /\ Stored
  /\ Goto(p, "admit", Begin("list", u))
  /\ UNCHANGED <<world, rows, history>>

\* Destroyed or overdue rows are left out; a plain message needs no receipt.
ListLoad(p) ==
  /\ At(p, "listLoad")
  /\ LET visible == Live /\ (msg.destroyAt = Null \/ msg.destroyAt > loc[p].t)
     IN /\ delivered' = IF visible /\ ttl = 0
                        THEN delivered \cup {loc[p].user} ELSE delivered
        /\ IF visible /\ ttl # 0 THEN Goto(p, "listReceipt", loc[p])
                                 ELSE Done(p)
  /\ UNCHANGED <<world, rows, announced, stamps>>

\* Mutant of ListReceipt: a receipt without a deadline counts as valid.
ListReceiptUnmasked(p) ==
  /\ At(p, "listReceipt")
  /\ LET mine == receipts[loc[p].user]
     IN delivered' = IF mine.burnAt = Null \/ mine.burnAt > now
                     THEN delivered \cup {loc[p].user} ELSE delivered
  /\ Done(p)
  /\ UNCHANGED <<world, rows, announced, stamps>>

\* Opened and not expired: full content; not opened: masked; expired: nothing.
ListReceipt(p) ==
  /\ At(p, "listReceipt")
  /\ LET mine == receipts[loc[p].user]
     IN delivered' = IF mine.revealedAt # Null /\ mine.burnAt > now
                     THEN delivered \cup {loc[p].user} ELSE delivered
  /\ Done(p)
  /\ UNCHANGED <<world, rows, announced, stamps>>
-----------------------------------------------------------------------------
(* recallMessage *)

RecallLoad(p) ==
  /\ At(p, "idle")
  /\ "recall" \in Ops
  /\ Live
  /\ now <= msg.sentAt + RecallWindow
  /\ Goto(p, "recallWrite", Begin("recall", Sender))
  /\ UNCHANGED <<world, rows, history>>

RecallWrite(p) ==
  /\ At(p, "recallWrite")
  /\ msg' = IF Stored THEN [msg EXCEPT !.recalled = TRUE] ELSE msg
  /\ Done(p)
  /\ UNCHANGED <<world, receipts, acks, tomb, attachment, members,
                 dissolvedAt, history>>
-----------------------------------------------------------------------------
(* DestroyService.ack, meetsPurgePolicy *)

AckStart(p, u) ==
  /\ At(p, "idle")
  /\ "ack" \in Ops
  /\ Stored
  /\ Goto(p, "admit", Begin("ack", u))
  /\ UNCHANGED <<world, rows, history>>

AckLoad(p) ==
  /\ At(p, "ackLoad")
  /\ IF Stored /\ msg.destroyed THEN Goto(p, "ackUpsert", loc[p]) ELSE Done(p)
  /\ UNCHANGED <<world, rows, history>>

AckUpsert(p) ==
  /\ At(p, "ackUpsert")
  /\ acks' = acks \cup {loc[p].user}
  /\ Goto(p, "policyCount", loc[p])
  /\ UNCHANGED <<world, msg, receipts, tomb, attachment, members,
                 dissolvedAt, history>>

ToPurge(p, trigger) ==
  Goto(p, "purgeLoad", [loc[p] EXCEPT !.trigger = trigger])

\* Acks that allow a purge when the answer does not depend on the members.
AcksNeeded == IF ConvType = "private" THEN 1 ELSE threshold

\* Mutant of PolicyCount: one acknowledgement short.
PolicyCountOffByOne(p) ==
  /\ At(p, "policyCount")
  /\ IF AcksNeeded = 0
     THEN Goto(p, "policyNeed", [loc[p] EXCEPT !.acks = Cardinality(acks)])
     ELSE IF Cardinality(acks) >= AcksNeeded - 1 THEN ToPurge(p, "ack_by_user")
     ELSE Done(p)
  /\ UNCHANGED <<world, rows, history>>

PolicyCount(p) ==
  /\ At(p, "policyCount")
  /\ IF AcksNeeded = 0
     THEN Goto(p, "policyNeed", [loc[p] EXCEPT !.acks = Cardinality(acks)])
     ELSE IF Cardinality(acks) >= AcksNeeded THEN ToPurge(p, "ack_by_user")
     ELSE Done(p)
  /\ UNCHANGED <<world, rows, history>>

\* Threshold 0: as many acks as there are members other than the sender.
PolicyNeed(p) ==
  /\ At(p, "policyNeed")
  /\ LET need == Cardinality(members \ {Sender})
     IN IF ~Stored \/ (need > 0 /\ loc[p].acks >= need)
        THEN ToPurge(p, "ack_by_user")
        ELSE Done(p)
  /\ UNCHANGED <<world, rows, history>>
-----------------------------------------------------------------------------
(* DestroyService.purge *)

\* Mutant of PurgeLoad: the files go before the transaction.
PurgeLoadErasesFirst(p) ==
  /\ At(p, "purgeLoad")
  /\ Stored /\ msg.destroyed
  /\ attachment' = FALSE
  /\ Goto(p, "purgeTx", [loc[p] EXCEPT !.stamp = msg.destroyedAt,
                                       !.reason = msg.reason])
  /\ UNCHANGED <<world, msg, receipts, acks, tomb, members, dissolvedAt,
                 history>>

PurgeLoad(p) ==
  /\ At(p, "purgeLoad")
  /\ IF Stored /\ msg.destroyed
     THEN Goto(p, "purgeTx", [loc[p] EXCEPT !.stamp = msg.destroyedAt,
                                            !.reason = msg.reason])
     ELSE Done(p)
  /\ UNCHANGED <<world, rows, history>>

PurgeTx(p) ==
  /\ At(p, "purgeTx")
  /\ tomb' = [exists |-> TRUE, destroyedAt |-> loc[p].stamp,
              reason |-> loc[p].reason]
  /\ acks' = {}
  /\ receipts' = [u \in Users |-> NoReceipt]
  /\ msg' = [NoRow EXCEPT !.row = "purged"]
  /\ Goto(p, "purgeFiles", loc[p])
  /\ UNCHANGED <<world, attachment, members, dissolvedAt, history>>

\* Outside the transaction; failures are swallowed.
PurgeFiles(p) ==
  /\ At(p, "purgeFiles")
  /\ attachment' = FALSE
  /\ Done(p)
  /\ UNCHANGED <<world, msg, receipts, acks, tomb, members, dissolvedAt,
                 history>>
-----------------------------------------------------------------------------
(* purgeConfirmedOrExpired, hourly *)

SweepStart(p) ==
  /\ At(p, "idle")
  /\ Goto(p, "sweepSelect", [Begin("sweep", Sender) EXCEPT !.t = now])
  /\ UNCHANGED <<world, rows, history>>

\* Mutant of SweepSelect: the timeout branch is missing.
SweepSelectAcksOnly(p) ==
  /\ At(p, "sweepSelect")
  /\ IF Stored /\ msg.destroyed /\ AcksNeeded >= 1
        /\ Cardinality(acks) >= AcksNeeded
     THEN ToPurge(p, "ack_by_user") ELSE Done(p)
  /\ UNCHANGED <<world, rows, history>>

SweepSelect(p) ==
  /\ At(p, "sweepSelect")
  /\ LET found == Stored /\ msg.destroyed
         policyMet == AcksNeeded >= 1 /\ Cardinality(acks) >= AcksNeeded
         timedOut == AckDays > 0 /\ msg.destroyedAt + AckDays < loc[p].t
     IN IF found /\ policyMet THEN ToPurge(p, "ack_by_user")
        ELSE IF found /\ timedOut THEN ToPurge(p, "ack_timeout")
        ELSE Done(p)
  /\ UNCHANGED <<world, rows, history>>
-----------------------------------------------------------------------------
(* BurnScheduler.markDestroyed, every minute: rule R1, then rule R2 *)

MarkStart(p) ==
  /\ At(p, "idle")
  /\ Goto(p, "markSelect", [Begin("mark", Sender) EXCEPT
                              !.t = now, !.reason = "fallback_expired"])
  /\ UNCHANGED <<world, rows, history>>

\* Mutant of Overdue: only the very instant matches.
OverdueExactly(t) == Live /\ msg.destroyAt # Null /\ msg.destroyAt = t

\* Mutant of ReadOut: without its EXISTS, true of a row with no receipts.
ReadOutVacuous(t) ==
  /\ Live /\ ttl # 0
  /\ \A u \in Users \ {Sender} :
       receipts[u].exists =>
         receipts[u].burnAt # Null /\ receipts[u].burnAt <= t

\* The WHERE clauses of R1 and R2, evaluated for the run's clock t.
Overdue(t) == Live /\ msg.destroyAt # Null /\ msg.destroyAt <= t

ReadOut(t) ==
  /\ Live /\ ttl # 0
  /\ \E u \in Users \ {Sender} : receipts[u].exists
  /\ \A u \in Users \ {Sender} :
       receipts[u].exists =>
         /\ receipts[u].revealedAt # Null
         /\ receipts[u].burnAt # Null
         /\ receipts[u].burnAt <= t

NextRule(p) ==
  IF loc[p].reason = "fallback_expired"
  THEN Goto(p, "markSelect", [loc[p] EXCEPT !.reason = "all_read"])
  ELSE Done(p)

\* Mutant of MarkSelect: the broadcast leaves before the update.
MarkSelectTellsFirst(p) ==
  /\ At(p, "markSelect")
  /\ IF loc[p].reason = "fallback_expired" /\ Overdue(loc[p].t)
     THEN announced' = TRUE /\ Goto(p, "markUpdate", loc[p])
     ELSE UNCHANGED announced /\ NextRule(p)
  /\ UNCHANGED <<world, rows, delivered, stamps>>

MarkSelect(p) ==
  /\ At(p, "markSelect")
  /\ IF \/ loc[p].reason = "fallback_expired" /\ Overdue(loc[p].t)
        \/ loc[p].reason = "all_read" /\ ReadOut(loc[p].t)
     THEN Goto(p, "markUpdate", loc[p])
     ELSE NextRule(p)
  /\ UNCHANGED <<world, rows, history>>

Destroyed(m, t, why) ==
  [m EXCEPT !.destroyed = TRUE, !.destroyedAt = t, !.reason = why]

\* The row is marked if it matches, with the clock the handler began with.
Stamp(p, matches, why) ==
  IF matches
  THEN /\ msg' = Destroyed(msg, loc[p].t, why)
       /\ stamps' = stamps \cup {loc[p].t}
  ELSE UNCHANGED <<msg, stamps>>

\* Mutant of MarkUpdate: without AND is_destroyed = 0.
MarkUpdateUnguarded(p) ==
  /\ At(p, "markUpdate")
  /\ Stamp(p, Stored, loc[p].reason)
  /\ Goto(p, "tell", loc[p])
  /\ UNCHANGED <<world, receipts, acks, tomb, attachment, members,
                 dissolvedAt, delivered, announced>>

\* UPDATE ... WHERE id IN (selected) AND is_destroyed = 0
MarkUpdate(p) ==
  /\ At(p, "markUpdate")
  /\ Stamp(p, Live, loc[p].reason)
  /\ Goto(p, "tell", loc[p])
  /\ UNCHANGED <<world, receipts, acks, tomb, attachment, members,
                 dissolvedAt, delivered, announced>>

\* The broadcast goes out for every selected id.
Tell(p) ==
  /\ At(p, "tell")
  /\ announced' = TRUE
  /\ IF loc[p].op = "mark" THEN NextRule(p) ELSE Done(p)
  /\ UNCHANGED <<world, rows, delivered, stamps>>
-----------------------------------------------------------------------------
(* AdminMessageService.manualDestroy *)

DestroyLoad(p) ==
  /\ At(p, "idle")
  /\ "destroy" \in Ops
  /\ Live
  /\ Goto(p, "destroyWrite", [Begin("destroy", Sender) EXCEPT !.t = now])
  /\ UNCHANGED <<world, rows, history>>

\* UPDATE by id, whatever happened to the row since.
DestroyWrite(p) ==
  /\ At(p, "destroyWrite")
  /\ Stamp(p, Stored, "manual")
  /\ Goto(p, "tell", loc[p])
  /\ UNCHANGED <<world, receipts, acks, tomb, attachment, members,
                 dissolvedAt, delivered, announced>>
-----------------------------------------------------------------------------
(* dissolveGroupByOwner, dissolveChannel *)

DissolveLoad(p) ==
  /\ At(p, "idle")
  /\ "dissolve" \in Ops
  /\ ConvType # "private"
  /\ dissolvedAt = Null
  /\ Goto(p, "dissolveTx", [Begin("dissolve", Sender) EXCEPT !.t = now])
  /\ UNCHANGED <<world, rows, history>>

DissolveTx(p) ==
  /\ At(p, "dissolveTx")
  /\ dissolvedAt' = loc[p].t
  /\ msg' = IF Live THEN [msg EXCEPT !.destroyAt = loc[p].t] ELSE msg
  /\ Done(p)
  /\ UNCHANGED <<world, receipts, acks, tomb, attachment, members, history>>
-----------------------------------------------------------------------------
(* Surroundings *)

\* addMembers and removeMember of group.service.ts, seen from this message.
Move(u) ==
  /\ u \in Movers
  /\ members' = IF u \in members THEN members \ {u} ELSE members \cup {u}
  /\ UNCHANGED <<world, msg, receipts, acks, tomb, attachment, dissolvedAt,
                 pc, loc, history>>

Tick ==
  /\ now < MaxTime
  /\ now' = now + 1
  /\ UNCHANGED <<threshold, ttl, media, crashes, rows, pc, loc, history>>

\* The process dies: every handler in flight is lost, the database stays.
Crash ==
  /\ crashes < MaxCrashes
  /\ \E p \in Procs : pc[p] # "idle"
  /\ crashes' = crashes + 1
  /\ pc' = [p \in Procs |-> "idle"]
  /\ loc' = [p \in Procs |-> NoLocal]
  /\ UNCHANGED <<now, threshold, ttl, media, rows, history>>
-----------------------------------------------------------------------------
RequestStart(p) ==
  \/ SendStart(p) \/ RecallLoad(p) \/ DestroyLoad(p) \/ DissolveLoad(p)
  \/ \E u \in Users : \/ RevealLoad(p, u) \/ ConsumeLoad(p, u)
                      \/ ListStart(p, u) \/ AckStart(p, u)

\* A handler in flight goes on to its next statement.
Continue(p) ==
  \/ Admit(p)
  \/ SendConv(p) \/ SendMembers(p) \/ SendSave(p) \/ SendReceipts(p)
  \/ RevealReceipt(p) \/ RevealCreate(p) \/ RevealStart(p)
  \/ RevealExtend(p) \/ RevealReply(p)
  \/ ConsumeReceipt(p) \/ ConsumeWrite(p)
  \/ ListLoad(p) \/ ListReceipt(p)
  \/ RecallWrite(p)
  \/ AckLoad(p) \/ AckUpsert(p) \/ PolicyCount(p) \/ PolicyNeed(p)
  \/ PurgeLoad(p) \/ PurgeTx(p) \/ PurgeFiles(p)
  \/ SweepSelect(p)
  \/ MarkSelect(p) \/ MarkUpdate(p) \/ Tell(p)
  \/ DestroyWrite(p)
  \/ DissolveTx(p)

Next ==
  \/ \E p \in Requests : RequestStart(p)
  \/ \E p \in Markers : MarkStart(p)
  \/ \E p \in Sweepers : SweepStart(p)
  \/ \E p \in Procs : Continue(p)
  \/ \E u \in Movers : Move(u)
  \/ Tick
  \/ Crash

Spec == Init /\ [][Next]_vars

\* The process keeps running: time passes, cron jobs fire, a statement that
\* was issued returns.  Nobody is obliged to send, open, acknowledge or leave.
Fairness ==
  /\ WF_vars(Tick)
  /\ \A p \in Markers : WF_vars(MarkStart(p))
  /\ \A p \in Sweepers : WF_vars(SweepStart(p))
  /\ \A p \in Procs : WF_vars(Continue(p))

FairSpec == Spec /\ Fairness
-----------------------------------------------------------------------------
(* What always holds. *)

Fate == INSTANCE MessageFate WITH
  fate <- IF Stored THEN (IF msg.destroyed THEN "destroyed" ELSE "live")
                    ELSE msg.row,
  tombstone <- tomb.exists,
  attachment <- attachment

\* The row of the message, its tombstone and its attachment follow the
\* two-phase destruction of destroy.service.ts: no path deletes a row that
\* was not marked first, a purge in flight when another one commits removes
\* nothing twice, and no late write brings a row back.
RefinesFate == Fate!Spec

\* A reader is never cheated of the time chosen by the sender: unless the
\* owner dissolved the conversation, rule R1 destroys burn messages only, and
\* none before its ttl and the fallback have both gone by since it was sent,
\* even if the row it selected was rewritten by reveals in between.
PromisedTtlKept ==
  (Stored /\ msg.reason = "fallback_expired" /\ dissolvedAt = Null) =>
    /\ ttl # 0
    /\ msg.destroyedAt >= msg.sentAt + ttl
    /\ msg.destroyedAt >= msg.sentAt + Fallback

\* A message is never "read by everyone" without a reader: R2 waits for a
\* receipt of somebody other than the sender that was opened, also when the
\* process died between the message and its receipts.
AllReadHasAReader ==
  (Stored /\ msg.reason = "all_read") =>
    \E u \in Users \ {Sender} :
      receipts[u].exists /\ receipts[u].revealedAt # Null

\* Nobody was handed the content of a burn message without a timer running
\* for him: while the row exists, whoever got the content has an opened
\* receipt, whatever was in flight when he got it.
DeliveredMeansTimed ==
  (Stored /\ ttl # 0) =>
    \A u \in delivered : receipts[u].exists /\ receipts[u].revealedAt # Null

\* Clients are told of a destruction only once it is in the database,
\* although the broadcast names every row selected before the update.
AnnouncedMeansDestroyed == announced => msg.row = "purged" \/ msg.destroyed

\* destroyed_at and destroy_reason are written once; the one exception is an
\* administrator's request that read the row before it was marked.
StampChangedOnlyByManual ==
  [][ (Stored /\ msg.destroyed /\ msg'.row = "stored") =>
        \/ msg'.destroyedAt = msg.destroyedAt /\ msg'.reason = msg.reason
        \/ /\ msg'.reason = "manual"
           /\ \E p \in Requests : pc[p] = "destroyWrite" ]_vars

\* Acknowledgements a purge without a timeout must find on file, whoever gave
\* them, the sender too; with threshold 0 at least one for each other member who
\* could not have left.
Quota ==
  IF AcksNeeded > 0 THEN AcksNeeded
  ELSE Longer(1, Cardinality(InitialMembers \ (Movers \cup {Sender})))

\* The timeout has passed since a date that destroyed_at has had.
TimedOut == AckDays > 0 /\ \E date \in stamps : date + AckDays < now

\* A row goes only with the quota of acknowledgements on file or after the
\* timeout, however the row was rewritten since the policy was judged: manually
\* destroyed rows included.  Its tombstone shows a date the row has had.
PurgeAccountable ==
  [][ (Stored /\ msg'.row = "purged") =>
        /\ Cardinality(acks) >= Quota \/ TimedOut
        /\ tomb'.destroyedAt \in stamps ]_vars

\* Every burn message is destroyed, opened or not, receipts complete or not,
\* after a crash too; a deadline pushed past the modelled clock is excused.
BurnEventuallyDestroyed ==
  (Live /\ (ttl # 0 \/ msg.destroyAt # Null))
     ~> (~Live \/ msg.destroyAt > MaxTime)

\* Every destroyed message is purged although no client acknowledges it, if
\* the timeout is on and falls within the modelled clock.
EventuallyPurged ==
  (Stored /\ msg.destroyed /\ AckDays > 0)
     ~> (msg.row = "purged" \/ msg.destroyedAt + AckDays >= MaxTime)
-----------------------------------------------------------------------------
(* What the documents promise and the code does not keep. *)

Quiet == \A p \in Requests : pc[p] = "idle"

\* docs/BURN_V2_DESIGN.md, section 3.2: destroy_at is never before any
\* personal deadline.  Two members open at the same time: the second write
\* of destroy_at is judged on a value read before the first.
DestroyAtCoversBurnAt ==
  (Live /\ Quiet /\ dissolvedAt = Null) =>
    \A u \in Users : receipts[u].burnAt <= msg.destroyAt

\* destroy.service.ts, lines 43 and 187: with threshold 0 every member other than
\* the sender must confirm.  The count holds the sender's acknowledgement as well,
\* which so stands in for that of a member.
OthersConfirm ==
  [][ (Stored /\ msg'.row = "purged" /\ AcksNeeded = 0) =>
        InitialMembers \ (Movers \cup {Sender}) \subseteq acks \/ TimedOut ]_vars

\* docs/BURN_V2_DESIGN.md, section 3.3: rule R2 needs all readers.  A reader
\* who opens between the insert of the message and the insert of the
\* receipts makes the latter fail, and stays the only reader.
AllReadMeansEveryoneOpened ==
  (Stored /\ msg.reason = "all_read") =>
    \A u \in Users \ {Sender} : receipts[u].revealedAt # Null
=============================================================================
