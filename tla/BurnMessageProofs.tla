------------------------- MODULE BurnMessageProofs --------------------------
(***************************************************************************)
(* Proofs about BurnMessage, for every set of users, requests and          *)
(* schedulers and every setting of the durations: types, the order of the  *)
(* stages of a message, that a physical deletion can be accounted for,     *)
(* that the time the sender chose is left to the reader, that content is   *)
(* read with a running timer, and that no row escapes the schedulers.      *)
(***************************************************************************)
EXTENDS BurnMessage, FiniteSetTheorems, TLAPS

USE DEF Null

-----------------------------------------------------------------------------
(* Types *)

\* A handler that goes on to a known statement with well-typed locals keeps
\* the control variables well typed.
LEMMA GotoTyped ==
  ASSUME TypeOK,
         NEW p \in Procs, NEW label \in Labels, NEW local \in Local,
         Goto(p, label, local)
  PROVE  /\ pc' \in [Procs -> Labels]
         /\ loc' \in [Procs -> Local]
BY DEF TypeOK, Goto

\* The empty locals, and those of a fresh request, are well typed.
LEMMA LocalTyped ==
  /\ NoLocal \in Local
  /\ \A op \in RequestOps \cup {"mark", "sweep"}, u \in Users :
       Begin(op, u) \in Local
BY UsersAssumption DEF NoLocal, Local, Begin, Reasons, Triggers

LEMMA DoneTyped ==
  ASSUME TypeOK, NEW p \in Procs, Done(p)
  PROVE  /\ pc' \in [Procs -> Labels]
         /\ loc' \in [Procs -> Local]
<1>1. "idle" \in Labels
  BY DEF Labels
<1> QED
  BY <1>1, GotoTyped, LocalTyped DEF Done

\* The arithmetic of the deadlines stays within the naturals.
LEMMA DurationsTyped ==
  ASSUME TypeOK, NEW sentAt \in Nat
  PROVE  /\ Window \in Nat
         /\ Promised(sentAt) \in Nat
         /\ Promised(sentAt) >= sentAt + ttl
         /\ Promised(sentAt) >= sentAt + Fallback
BY DurationsAssumption DEF TypeOK, Window, Promised, Longer

LEMMA InitTyped == Init => TypeOK
<1> SUFFICES ASSUME Init PROVE TypeOK
  OBVIOUS
<1>1. NoRow \in Row /\ NoReceipt \in Receipt /\ NoTombstone \in Tombstone
  BY DEF NoRow, Row, NoReceipt, Receipt, NoTombstone, Tombstone, Reasons
<1>2. "idle" \in Labels
  BY DEF Labels
<1> QED
  BY <1>1, <1>2, LocalTyped, UsersAssumption, DurationsAssumption
  DEF Init, TypeOK

LEMMA RequestStartTyped ==
  ASSUME TypeOK, NEW p \in Procs, RequestStart(p)
  PROVE  TypeOK'
<1>0. {"admit", "recallWrite", "destroyWrite", "dissolveTx"} \subseteq Labels
  BY DEF Labels
<1>1. CASE SendStart(p)
  <2>1. Begin("send", Sender) \in Local
    BY LocalTyped, UsersAssumption DEF RequestOps
  <2> QED
    BY <1>0, <1>1, <2>1, GotoTyped DEF SendStart, TypeOK, world, rows, history
<1>2. CASE RecallLoad(p)
  <2>1. Begin("recall", Sender) \in Local
    BY LocalTyped, UsersAssumption DEF RequestOps
  <2> QED
    BY <1>0, <1>2, <2>1, GotoTyped DEF RecallLoad, TypeOK, world, rows, history
<1>3. CASE DestroyLoad(p)
  <2>1. [Begin("destroy", Sender) EXCEPT !.t = now] \in Local
    BY LocalTyped, UsersAssumption DEF RequestOps, Local, TypeOK
  <2> QED
    BY <1>0, <1>3, <2>1, GotoTyped DEF DestroyLoad, TypeOK, world, rows, history
<1>4. CASE DissolveLoad(p)
  <2>1. [Begin("dissolve", Sender) EXCEPT !.t = now] \in Local
    BY LocalTyped, UsersAssumption DEF RequestOps, Local, TypeOK
  <2> QED
    BY <1>0, <1>4, <2>1, GotoTyped
    DEF DissolveLoad, TypeOK, world, rows, history
<1>5. ASSUME NEW u \in Users,
             RevealLoad(p, u) \/ ConsumeLoad(p, u) \/ ListStart(p, u)
               \/ AckStart(p, u)
      PROVE  TypeOK'
  <2>1. /\ [Begin("reveal", u) EXCEPT !.stamp = msg.destroyAt] \in Local
        /\ \A op \in {"consume", "list", "ack"} : Begin(op, u) \in Local
    BY LocalTyped DEF RequestOps, Local, TypeOK, Row
  <2> QED
    BY <1>0, <1>5, <2>1, GotoTyped
    DEF RevealLoad, ConsumeLoad, ListStart, AckStart, TypeOK, world, rows,
        history
<1> QED
  BY <1>1, <1>2, <1>3, <1>4, <1>5 DEF RequestStart

LEMMA SendTyped ==
  ASSUME TypeOK, NEW p \in Procs,
         \/ Admit(p) \/ SendConv(p) \/ SendMembers(p)
         \/ SendSave(p) \/ SendReceipts(p)
  PROVE  TypeOK'
<1>0. /\ loc[p] \in Local
      /\ {"sendConv", "sendMembers", "sendSave", "sendReceipts",
          "revealReceipt", "consumeReceipt", "listLoad", "ackLoad"}
           \subseteq Labels
  BY DEF TypeOK, Labels
<1>1. CASE Admit(p)
  <2>1. [loc[p] EXCEPT !.t = now] \in Local
    BY <1>0 DEF Local, TypeOK
  <2>2. \A op \in DOMAIN AfterAdmit : AfterAdmit[op] \in Labels
    BY <1>0 DEF AfterAdmit
  <2> QED
    BY <1>1, <2>1, <2>2, GotoTyped, DoneTyped
    DEF Admit, TypeOK, world, rows, history
<1>2. CASE SendConv(p)
  BY <1>0, <1>2, GotoTyped, DoneTyped
  DEF SendConv, TypeOK, world, rows, history
<1>3. CASE SendMembers(p)
  <2>1. [loc[p] EXCEPT !.audience = members] \in Local
    BY <1>0 DEF Local, TypeOK
  <2> QED
    BY <1>0, <1>3, <2>1, GotoTyped DEF SendMembers, TypeOK, world, rows, history
<1>4. CASE SendSave(p)
  <2>1. msg' \in Row
    BY <1>4, DurationsTyped DEF SendSave, NoRow, Row, TypeOK, Reasons
  <2> QED
    BY <1>0, <1>4, <2>1, GotoTyped DEF SendSave, TypeOK, world, history
<1>5. CASE SendReceipts(p)
  <2>1. receipts' \in [Users -> Receipt]
    BY <1>5 DEF SendReceipts, TypeOK, FreshReceipt, NoReceipt, Receipt
  <2> QED
    BY <1>5, <2>1, DoneTyped DEF SendReceipts, TypeOK, world, history
<1> QED
  BY <1>1, <1>2, <1>3, <1>4, <1>5

LEMMA RevealTyped ==
  ASSUME TypeOK, NEW p \in Procs,
         \/ RevealReceipt(p) \/ RevealCreate(p) \/ RevealStart(p)
         \/ RevealExtend(p) \/ RevealReply(p)
  PROVE  TypeOK'
<1>0. /\ loc[p] \in Local
      /\ loc[p].user \in Users
      /\ loc[p].t \in Nat
      /\ {"revealCreate", "revealStart", "revealExtend", "revealReply"}
           \subseteq Labels
  BY DEF TypeOK, Labels, Local
<1>1. CASE RevealReceipt(p)
  BY <1>0, <1>1, GotoTyped, DoneTyped
  DEF RevealReceipt, TypeOK, world, rows, history
<1>2. CASE RevealCreate(p)
  <2>1. FreshReceipt \in Receipt
    BY DEF FreshReceipt, NoReceipt, Receipt
  <2>2. receipts' \in [Users -> Receipt]
    BY <1>0, <1>2, <2>1 DEF RevealCreate, TypeOK
  <2> QED
    BY <1>0, <1>2, <2>2, GotoTyped, DoneTyped
    DEF RevealCreate, TypeOK, world, history
<1>3. CASE RevealStart(p)
  <2>1. loc[p].t + Window \in Nat
    BY <1>0, DurationsTyped
  <2>2. receipts' \in [Users -> Receipt]
    BY <1>0, <1>3, <2>1 DEF RevealStart, TypeOK, Receipt
  <2> QED
    BY <1>0, <1>3, <2>2, GotoTyped DEF RevealStart, TypeOK, world, history
<1>4. CASE RevealExtend(p)
  <2>1. loc[p].t + Window \in Nat
    BY <1>0, DurationsTyped
  <2>2. msg' \in Row
    BY <1>4, <2>1 DEF RevealExtend, TypeOK, Row
  <2> QED
    BY <1>0, <1>4, <2>2, GotoTyped DEF RevealExtend, TypeOK, world, history
<1>5. CASE RevealReply(p)
  BY <1>0, <1>5, DoneTyped DEF RevealReply, TypeOK, world, rows
<1> QED
  BY <1>1, <1>2, <1>3, <1>4, <1>5

LEMMA ReadTyped ==
  ASSUME TypeOK, NEW p \in Procs,
         \/ ConsumeReceipt(p) \/ ConsumeWrite(p) \/ ListLoad(p)
         \/ ListReceipt(p) \/ RecallWrite(p)
  PROVE  TypeOK'
<1>0. /\ loc[p] \in Local
      /\ loc[p].user \in Users
      /\ loc[p].t \in Nat
      /\ {"consumeWrite", "listReceipt"} \subseteq Labels
  BY DEF TypeOK, Labels, Local
<1>1. CASE ConsumeReceipt(p)
  <2>1. [loc[p] EXCEPT !.t = now] \in Local
    BY <1>0 DEF Local, TypeOK
  <2> QED
    BY <1>0, <1>1, <2>1, GotoTyped, DoneTyped
    DEF ConsumeReceipt, TypeOK, world, rows, history
<1>2. CASE ConsumeWrite(p)
  <2>1. receipts' \in [Users -> Receipt]
    BY <1>0, <1>2 DEF ConsumeWrite, TypeOK, Receipt
  <2> QED
    BY <1>2, <2>1, DoneTyped DEF ConsumeWrite, TypeOK, world, history
<1>3. CASE ListLoad(p)
  BY <1>0, <1>3, GotoTyped, DoneTyped DEF ListLoad, TypeOK, world, rows
<1>4. CASE ListReceipt(p)
  BY <1>0, <1>4, DoneTyped DEF ListReceipt, TypeOK, world, rows
<1>5. CASE RecallWrite(p)
  <2>1. msg' \in Row
    BY <1>5 DEF RecallWrite, TypeOK, Row
  <2> QED
    BY <1>5, <2>1, DoneTyped DEF RecallWrite, TypeOK, world, history
<1> QED
  BY <1>1, <1>2, <1>3, <1>4, <1>5

LEMMA AckTyped ==
  ASSUME TypeOK, NEW p \in Procs,
         AckLoad(p) \/ AckUpsert(p) \/ PolicyCount(p) \/ PolicyNeed(p)
  PROVE  TypeOK'
<1>0. /\ loc[p] \in Local
      /\ loc[p].user \in Users
      /\ {"ackUpsert", "policyCount", "policyNeed", "purgeLoad"}
           \subseteq Labels
      /\ [loc[p] EXCEPT !.trigger = "ack_by_user"] \in Local
  BY DEF TypeOK, Labels, Local, Triggers
<1>1. CASE AckLoad(p)
  BY <1>0, <1>1, GotoTyped, DoneTyped DEF AckLoad, TypeOK, world, rows, history
<1>2. CASE AckUpsert(p)
  BY <1>0, <1>2, GotoTyped DEF AckUpsert, TypeOK, world, history
<1>3. CASE PolicyCount(p)
  <2>1. Cardinality(acks) \in Nat
    BY UsersAssumption, FS_Subset, FS_CardinalityType DEF TypeOK
  <2>2. [loc[p] EXCEPT !.acks = Cardinality(acks)] \in Local
    BY <1>0, <2>1 DEF Local
  <2> QED
    BY <1>0, <1>3, <2>2, GotoTyped, DoneTyped
    DEF PolicyCount, ToPurge, TypeOK, world, rows, history
<1>4. CASE PolicyNeed(p)
  BY <1>0, <1>4, GotoTyped, DoneTyped
  DEF PolicyNeed, ToPurge, TypeOK, world, rows, history
<1> QED
  BY <1>1, <1>2, <1>3, <1>4

LEMMA PurgeTyped ==
  ASSUME TypeOK, NEW p \in Procs,
         PurgeLoad(p) \/ PurgeTx(p) \/ PurgeFiles(p) \/ SweepSelect(p)
  PROVE  TypeOK'
<1>0. /\ loc[p] \in Local
      /\ {"purgeLoad", "purgeTx", "purgeFiles"} \subseteq Labels
      /\ [loc[p] EXCEPT !.trigger = "ack_by_user"] \in Local
      /\ [loc[p] EXCEPT !.trigger = "ack_timeout"] \in Local
      /\ [loc[p] EXCEPT !.stamp = msg.destroyedAt, !.reason = msg.reason]
           \in Local
  BY DEF TypeOK, Labels, Local, Triggers, Row
<1>1. CASE PurgeLoad(p)
  BY <1>0, <1>1, GotoTyped, DoneTyped
  DEF PurgeLoad, TypeOK, world, rows, history
<1>2. CASE PurgeTx(p)
  <2>1. tomb' \in Tombstone /\ msg' \in Row /\ NoReceipt \in Receipt
    BY <1>0, <1>2
    DEF PurgeTx, Tombstone, Local, Row, NoRow, NoReceipt, Receipt, Reasons
  <2> QED
    BY <1>0, <1>2, <2>1, GotoTyped DEF PurgeTx, TypeOK, world, history
<1>3. CASE PurgeFiles(p)
  BY <1>3, DoneTyped DEF PurgeFiles, TypeOK, world, history
<1>4. CASE SweepSelect(p)
  BY <1>0, <1>4, GotoTyped, DoneTyped
  DEF SweepSelect, ToPurge, TypeOK, world, rows, history
<1> QED
  BY <1>1, <1>2, <1>3, <1>4

LEMMA MarkTyped ==
  ASSUME TypeOK, NEW p \in Procs,
         \/ MarkSelect(p) \/ MarkUpdate(p) \/ Tell(p)
         \/ DestroyWrite(p) \/ DissolveTx(p)
  PROVE  TypeOK'
<1>0. /\ loc[p] \in Local
      /\ loc[p].t \in Nat
      /\ loc[p].reason \in Reasons
      /\ {"markSelect", "markUpdate", "tell"} \subseteq Labels
      /\ [loc[p] EXCEPT !.reason = "all_read"] \in Local
  BY DEF TypeOK, Labels, Local, Reasons
<1>1. ASSUME NextRule(p)
      PROVE  pc' \in [Procs -> Labels] /\ loc' \in [Procs -> Local]
  BY <1>0, <1>1, GotoTyped, DoneTyped DEF NextRule
<1>2. CASE MarkSelect(p)
  BY <1>0, <1>1, <1>2, GotoTyped DEF MarkSelect, TypeOK, world, rows, history
<1>3. CASE MarkUpdate(p)
  <2>1. msg' \in Row
    BY <1>0, <1>3 DEF MarkUpdate, Stamp, Destroyed, TypeOK, Row
  <2>2. stamps' \subseteq Nat
    BY <1>0, <1>3 DEF MarkUpdate, Stamp, TypeOK, Local
  <2> QED
    BY <1>0, <1>3, <2>1, <2>2, GotoTyped DEF MarkUpdate, TypeOK, world
<1>4. CASE Tell(p)
  BY <1>1, <1>4, DoneTyped DEF Tell, TypeOK, world, rows
<1>5. CASE DestroyWrite(p)
  <2>1. msg' \in Row
    BY <1>0, <1>5 DEF DestroyWrite, Stamp, Destroyed, TypeOK, Row, Reasons
  <2>2. stamps' \subseteq Nat
    BY <1>0, <1>5 DEF DestroyWrite, Stamp, TypeOK, Local
  <2> QED
    BY <1>0, <1>5, <2>1, <2>2, GotoTyped DEF DestroyWrite, TypeOK, world
<1>6. CASE DissolveTx(p)
  <2>1. msg' \in Row
    BY <1>0, <1>6 DEF DissolveTx, TypeOK, Row
  <2> QED
    BY <1>0, <1>6, <2>1, DoneTyped DEF DissolveTx, TypeOK, world, history
<1> QED
  BY <1>2, <1>3, <1>4, <1>5, <1>6

\* Every step keeps the types.
LEMMA TypeStep ==
  ASSUME TypeOK, [Next]_vars
  PROVE  TypeOK'
<1>1. ASSUME NEW p \in Procs, Continue(p)
      PROVE  TypeOK'
  BY <1>1, SendTyped, RevealTyped, ReadTyped, AckTyped, PurgeTyped, MarkTyped
  DEF Continue
<1>2. ASSUME NEW p \in Markers, MarkStart(p)
      PROVE  TypeOK'
  <2>1. p \in Procs /\ "markSelect" \in Labels
    BY DEF Procs, Labels
  <2>2. Begin("mark", Sender) \in Local /\ "fallback_expired" \in Reasons
    BY LocalTyped, UsersAssumption DEF Reasons
  <2>3. [Begin("mark", Sender) EXCEPT !.t = now,
                                      !.reason = "fallback_expired"] \in Local
    BY <2>2 DEF Local, TypeOK
  <2> QED
    BY <1>2, <2>1, <2>3, GotoTyped DEF MarkStart, TypeOK, world, rows, history
<1>3. ASSUME NEW p \in Sweepers, SweepStart(p)
      PROVE  TypeOK'
  <2>1. /\ p \in Procs
        /\ "sweepSelect" \in Labels
        /\ [Begin("sweep", Sender) EXCEPT !.t = now] \in Local
    BY LocalTyped, UsersAssumption DEF Procs, Labels, Local, TypeOK
  <2> QED
    BY <1>3, <2>1, GotoTyped DEF SweepStart, TypeOK, world, rows, history
<1>4. ASSUME NEW u \in Movers, Move(u)
      PROVE  TypeOK'
  BY <1>4, UsersAssumption DEF Move, TypeOK, world, history
<1>5. CASE Tick
  BY <1>5 DEF Tick, TypeOK, rows, history
<1>6. CASE Crash
  <2>1. "idle" \in Labels
    BY DEF Labels
  <2> QED
    BY <1>6, <2>1, LocalTyped DEF Crash, TypeOK, rows, history
<1>7. CASE UNCHANGED vars
  BY <1>7 DEF vars, TypeOK
<1> QED
  BY <1>1, <1>2, <1>3, <1>4, <1>5, <1>6, <1>7, RequestStartTyped
  DEF Next, Procs

\* Every variable keeps its type, whatever runs concurrently.
THEOREM TypeCorrect == Spec => []TypeOK
<1>1. TypeOK /\ [Next]_vars => TypeOK'
  BY TypeStep
<1> QED
  BY <1>1, InitTyped, PTL DEF Spec
-----------------------------------------------------------------------------
(***************************************************************************)
(* The safety properties of BurnMessage, proved.  Each rests on what a     *)
(* handler in flight still knows about the rows it read; the invariants    *)
(* say it, one conjunct per statement the handler may issue next, as a     *)
(* predicate of that statement (label), its locals and the rows.           *)
(***************************************************************************)

(* Order: a handler never outruns the stage of the message. *)

\* The row is marked for destruction, or already gone.
Marked(m) == m.row = "purged" \/ (m.row = "stored" /\ m.destroyed)

SendSteps == {"sendConv", "sendMembers", "sendSave", "sendReceipts"}

OrderAt(p, label, local, m) ==
  /\ label \in SendSteps => local.op = "send"
  /\ (local.op = "send" /\ label \in {"admit"} \cup SendSteps)
       => (m.row = "absent" \/ label = "sendReceipts")
  /\ label \in {"markUpdate", "destroyWrite"} => m.row # "absent"
  /\ label \in {"purgeTx", "tell"} => Marked(m)
  /\ label = "purgeFiles" => m.row = "purged"
  /\ label = "destroyWrite" => p \in Requests

OneSender == \A p, q \in Procs : loc[p].op = "send" /\ loc[q].op = "send" => p = q

Order ==
  /\ \A p \in Procs : OrderAt(p, pc[p], loc[p], msg)
  /\ OneSender
  /\ msg.row = "purged" => tomb.exists
  /\ announced => Marked(msg)

\* A step of one handler keeps Order if the message only moves forward, out
\* of "absent" by the sender's hand, and the handler's own claims hold.
LEMMA OrderGoto ==
  ASSUME TypeOK, Order,
         NEW p \in Procs, NEW label, NEW local, Goto(p, label, local),
         msg.row # "absent" => msg'.row # "absent",
         Marked(msg) => Marked(msg'),
         msg.row = "purged" => msg'.row = "purged",
         msg.row = "absent" => msg'.row = "absent" \/ loc[p].op = "send",
         OrderAt(p, label, local, msg'),
         local.op = "send" =>
           \/ loc[p].op = "send"
           \/ \A q \in Procs : loc[q].op # "send",
         msg'.row = "purged" => tomb'.exists,
         announced' => Marked(msg')
  PROVE  Order'
<1>1. /\ pc'[p] = label /\ loc'[p] = local
      /\ \A q \in Procs : q # p => pc'[q] = pc[q] /\ loc'[q] = loc[q]
  BY DEF Goto, TypeOK
<1>2. ASSUME NEW q \in Procs
      PROVE  OrderAt(q, pc'[q], loc'[q], msg')
  <2>1. CASE q = p
    BY <1>1, <2>1
  <2>2. CASE q # p
    <3>1. OrderAt(q, pc[q], loc[q], msg) /\ OneSender
      BY DEF Order
    <3> QED
      BY <1>1, <2>2, <3>1 DEF OrderAt, OneSender
  <2> QED
    BY <2>1, <2>2
<1>3. OneSender'
  BY <1>1 DEF Order, OneSender
<1> QED
  BY <1>2, <1>3 DEF Order

\* The common case: the rows of the message stay as they are.
LEMMA OrderQuiet ==
  ASSUME TypeOK, Order,
         NEW p \in Procs, NEW label, NEW local, Goto(p, label, local),
         UNCHANGED <<msg, tomb, announced>>,
         OrderAt(p, label, local, msg),
         local.op = "send" =>
           \/ loc[p].op = "send"
           \/ \A q \in Procs : loc[q].op # "send"
  PROVE  Order'
<1>1. announced' => Marked(msg')
  BY DEF Order
<1>2. msg' = msg /\ (msg'.row = "purged" => tomb'.exists)
  BY DEF Order
<1> QED
  BY <1>1, <1>2, OrderGoto

\* A handler that ends claims nothing.
LEMMA OrderDone ==
  ASSUME TypeOK, Order, NEW p \in Procs, Done(p),
         UNCHANGED <<msg, tomb, announced>>
  PROVE  Order'
<1>1. OrderAt(p, "idle", NoLocal, msg) /\ NoLocal.op # "send"
  BY DEF OrderAt, SendSteps, NoLocal
<1> QED
  BY <1>1, OrderQuiet DEF Done

LEMMA OrderInit == Init => Order
BY DEF Init, Order, OrderAt, OneSender, SendSteps, NoLocal, NoRow

LEMMA OrderRequestStart ==
  ASSUME TypeOK, Order, NEW p \in Requests, RequestStart(p)
  PROVE  Order'
<1>0. p \in Procs
  BY DEF Procs
<1>1. CASE SendStart(p)
  BY <1>0, <1>1, OrderQuiet
  DEF SendStart, OrderAt, Begin, NoLocal, SendSteps, rows, history
<1>2. CASE RecallLoad(p) \/ DestroyLoad(p) \/ DissolveLoad(p)
  <2>1. Begin("recall", Sender).op = "recall"
    BY DEF Begin, NoLocal
  <2>2. /\ [Begin("destroy", Sender) EXCEPT !.t = now].op = "destroy"
        /\ [Begin("dissolve", Sender) EXCEPT !.t = now].op = "dissolve"
    BY DEF Begin, NoLocal
  <2>3. /\ OrderAt(p, "recallWrite", Begin("recall", Sender), msg)
        /\ OrderAt(p, "dissolveTx",
                   [Begin("dissolve", Sender) EXCEPT !.t = now], msg)
        /\ Live => OrderAt(p, "destroyWrite",
                           [Begin("destroy", Sender) EXCEPT !.t = now], msg)
    BY DEF OrderAt, SendSteps, Live, Stored
  <2>4. CASE RecallLoad(p)
    BY <1>0, <2>1, <2>3, <2>4, OrderQuiet DEF RecallLoad, rows, history
  <2>5. CASE DestroyLoad(p)
    BY <1>0, <2>2, <2>3, <2>5, OrderQuiet DEF DestroyLoad, rows, history
  <2>6. CASE DissolveLoad(p)
    BY <1>0, <2>2, <2>3, <2>6, OrderQuiet DEF DissolveLoad, rows, history
  <2> QED
    BY <1>2, <2>4, <2>5, <2>6
<1>3. ASSUME NEW u \in Users,
             RevealLoad(p, u) \/ ConsumeLoad(p, u) \/ ListStart(p, u)
               \/ AckStart(p, u)
      PROVE  Order'
  <2>1. /\ [Begin("reveal", u) EXCEPT !.stamp = msg.destroyAt].op = "reveal"
        /\ \A op \in {"consume", "list", "ack"} : Begin(op, u).op = op
    BY DEF Begin, NoLocal
  <2> QED
    BY <1>0, <1>3, <2>1, OrderQuiet
    DEF RevealLoad, ConsumeLoad, ListStart, AckStart, OrderAt, SendSteps,
        rows, history
<1> QED
  BY <1>1, <1>2, <1>3 DEF RequestStart

LEMMA OrderSend ==
  ASSUME TypeOK, Order, NEW p \in Procs,
         \/ Admit(p) \/ SendConv(p) \/ SendMembers(p)
         \/ SendSave(p) \/ SendReceipts(p)
  PROVE  Order'
<1>0. /\ OrderAt(p, pc[p], loc[p], msg)
      /\ [loc[p] EXCEPT !.t = now].op = loc[p].op
      /\ [loc[p] EXCEPT !.audience = members].op = loc[p].op
  BY DEF Order, TypeOK, Local
<1>1. CASE Admit(p)
  <2>1. CASE Done(p)
    BY <1>1, <2>1, OrderDone DEF Admit, rows, history
  <2>2. CASE /\ loc[p].op \in DOMAIN AfterAdmit
             /\ Goto(p, AfterAdmit[loc[p].op], [loc[p] EXCEPT !.t = now])
    <3>1. /\ AfterAdmit["send"] = "sendConv"
          /\ \A op \in DOMAIN AfterAdmit \ {"send"} :
               AfterAdmit[op] \in {"revealReceipt", "consumeReceipt",
                                   "listLoad", "ackLoad"}
      BY DEF AfterAdmit
    <3>2. OrderAt(p, AfterAdmit[loc[p].op], [loc[p] EXCEPT !.t = now], msg)
      BY <1>0, <1>1, <2>2, <3>1 DEF Admit, At, OrderAt, SendSteps
    <3> QED
      BY <1>0, <1>1, <2>2, <3>2, OrderQuiet DEF Admit, rows, history
  <2> QED
    BY <1>1, <2>1, <2>2 DEF Admit
<1>2. CASE SendConv(p)
  BY <1>0, <1>2, OrderQuiet, OrderDone
  DEF SendConv, At, OrderAt, SendSteps, rows, history
<1>3. CASE SendMembers(p)
  <2>1. OrderAt(p, "sendSave", [loc[p] EXCEPT !.audience = members], msg)
    BY <1>0, <1>3 DEF SendMembers, At, OrderAt, SendSteps
  <2> QED
    BY <1>0, <1>3, <2>1, OrderQuiet DEF SendMembers, rows, history
<1>4. CASE SendSave(p)
  <2>1. loc[p].op = "send" /\ msg.row = "absent" /\ msg'.row = "stored"
    BY <1>0, <1>4 DEF SendSave, At, OrderAt, SendSteps, NoRow
  <2>2. ~ announced' /\ UNCHANGED tomb
    BY <1>4, <2>1 DEF SendSave, Order, Marked, history
  <2> QED
    BY <1>4, <2>1, <2>2, OrderGoto DEF SendSave, OrderAt, SendSteps, Marked
<1>5. CASE SendReceipts(p)
  BY <1>5, OrderDone DEF SendReceipts, history
<1> QED
  BY <1>1, <1>2, <1>3, <1>4, <1>5

LEMMA OrderReveal ==
  ASSUME TypeOK, Order, NEW p \in Procs,
         \/ RevealReceipt(p) \/ RevealCreate(p) \/ RevealStart(p)
         \/ RevealExtend(p) \/ RevealReply(p)
  PROVE  Order'
<1>0. ASSUME NEW label \in {"revealCreate", "revealStart", "revealExtend",
                            "revealReply"}, NEW m
      PROVE  OrderAt(p, label, loc[p], m)
  BY DEF OrderAt, SendSteps
<1>1. CASE RevealReceipt(p)
  BY <1>0, <1>1, OrderQuiet, OrderDone DEF RevealReceipt, rows, history
<1>2. CASE RevealCreate(p)
  BY <1>0, <1>2, OrderQuiet, OrderDone DEF RevealCreate, history
<1>3. CASE RevealStart(p)
  BY <1>0, <1>3, OrderQuiet DEF RevealStart, history
<1>4. CASE RevealExtend(p)
  <2>1. msg'.row = msg.row /\ msg'.destroyed = msg.destroyed
    BY <1>4 DEF RevealExtend, TypeOK, Row
  <2>2. /\ msg'.row = "purged" => tomb'.exists
        /\ announced' => Marked(msg')
    BY <1>4, <2>1 DEF RevealExtend, Order, Marked, history
  <2> QED
    BY <1>0, <1>4, <2>1, <2>2, OrderGoto DEF RevealExtend, Marked
<1>5. CASE RevealReply(p)
  BY <1>5, OrderDone DEF RevealReply, rows
<1> QED
  BY <1>1, <1>2, <1>3, <1>4, <1>5

LEMMA OrderRead ==
  ASSUME TypeOK, Order, NEW p \in Procs,
         \/ ConsumeReceipt(p) \/ ConsumeWrite(p) \/ ListLoad(p)
         \/ ListReceipt(p) \/ RecallWrite(p)
  PROVE  Order'
<1>1. CASE ConsumeReceipt(p)
  <2>1. OrderAt(p, "consumeWrite", [loc[p] EXCEPT !.t = now], msg)
    BY DEF OrderAt, SendSteps
  <2>2. [loc[p] EXCEPT !.t = now].op = loc[p].op
    BY DEF TypeOK, Local
  <2> QED
    BY <1>1, <2>1, <2>2, OrderQuiet, OrderDone DEF ConsumeReceipt, rows, history
<1>2. CASE ConsumeWrite(p)
  BY <1>2, OrderDone DEF ConsumeWrite, history
<1>3. CASE ListLoad(p)
  <2>1. OrderAt(p, "listReceipt", loc[p], msg)
    BY DEF OrderAt, SendSteps
  <2> QED
    BY <1>3, <2>1, OrderQuiet, OrderDone DEF ListLoad, rows
<1>4. CASE ListReceipt(p)
  BY <1>4, OrderDone DEF ListReceipt, rows
<1>5. CASE RecallWrite(p)
  <2>1. msg'.row = msg.row /\ msg'.destroyed = msg.destroyed
    BY <1>5 DEF RecallWrite, TypeOK, Row
  <2>2. /\ msg'.row = "purged" => tomb'.exists
        /\ announced' => Marked(msg')
    BY <1>5, <2>1 DEF RecallWrite, Order, Marked, history
  <2>3. OrderAt(p, "idle", NoLocal, msg') /\ NoLocal.op # "send"
    BY DEF OrderAt, SendSteps, NoLocal
  <2> QED
    BY <1>5, <2>1, <2>2, <2>3, OrderGoto DEF RecallWrite, Done, Marked
<1> QED
  BY <1>1, <1>2, <1>3, <1>4, <1>5

LEMMA OrderAck ==
  ASSUME TypeOK, Order, NEW p \in Procs,
         AckLoad(p) \/ AckUpsert(p) \/ PolicyCount(p) \/ PolicyNeed(p)
  PROVE  Order'
<1>0. /\ [loc[p] EXCEPT !.trigger = "ack_by_user"].op = loc[p].op
      /\ [loc[p] EXCEPT !.acks = Cardinality(acks)].op = loc[p].op
      /\ \A label \in {"ackUpsert", "policyCount", "policyNeed", "purgeLoad"} :
           \A local : OrderAt(p, label, local, msg)
  BY DEF TypeOK, Local, OrderAt, SendSteps
<1>1. CASE AckLoad(p)
  BY <1>0, <1>1, OrderQuiet, OrderDone DEF AckLoad, rows, history
<1>2. CASE AckUpsert(p)
  BY <1>0, <1>2, OrderQuiet DEF AckUpsert, history
<1>3. CASE PolicyCount(p)
  BY <1>0, <1>3, OrderQuiet, OrderDone DEF PolicyCount, ToPurge, rows, history
<1>4. CASE PolicyNeed(p)
  BY <1>0, <1>4, OrderQuiet, OrderDone DEF PolicyNeed, ToPurge, rows, history
<1> QED
  BY <1>1, <1>2, <1>3, <1>4

LEMMA OrderPurge ==
  ASSUME TypeOK, Order, NEW p \in Procs,
         PurgeLoad(p) \/ PurgeTx(p) \/ PurgeFiles(p) \/ SweepSelect(p)
  PROVE  Order'
<1>0. /\ OrderAt(p, pc[p], loc[p], msg)
      /\ \A reason \in {"ack_by_user", "ack_timeout"} :
           [loc[p] EXCEPT !.trigger = reason].op = loc[p].op
      /\ [loc[p] EXCEPT !.stamp = msg.destroyedAt, !.reason = msg.reason].op
           = loc[p].op
  BY DEF Order, TypeOK, Local
<1>1. CASE PurgeLoad(p)
  <2>1. Stored /\ msg.destroyed =>
          OrderAt(p, "purgeTx", [loc[p] EXCEPT !.stamp = msg.destroyedAt,
                                               !.reason = msg.reason], msg)
    BY DEF OrderAt, SendSteps, Marked, Stored
  <2> QED
    BY <1>0, <1>1, <2>1, OrderQuiet, OrderDone DEF PurgeLoad, rows, history
<1>2. CASE PurgeTx(p)
  <2>1. msg.row # "absent"
    BY <1>0, <1>2 DEF PurgeTx, At, OrderAt, Marked
  <2>2. msg'.row = "purged" /\ tomb'.exists
    BY <1>2 DEF PurgeTx, NoRow
  <2>3. OrderAt(p, "purgeFiles", loc[p], msg')
    BY <2>2 DEF OrderAt, SendSteps
  <2> QED
    BY <1>2, <2>1, <2>2, <2>3, OrderGoto DEF PurgeTx, Marked
<1>3. CASE PurgeFiles(p)
  BY <1>3, OrderDone DEF PurgeFiles, history
<1>4. CASE SweepSelect(p)
  <2>1. \A local : OrderAt(p, "purgeLoad", local, msg)
    BY DEF OrderAt, SendSteps
  <2> QED
    BY <1>0, <1>4, <2>1, OrderQuiet, OrderDone
    DEF SweepSelect, ToPurge, rows, history
<1> QED
  BY <1>1, <1>2, <1>3, <1>4

LEMMA OrderMark ==
  ASSUME TypeOK, Order, NEW p \in Procs,
         \/ MarkSelect(p) \/ MarkUpdate(p) \/ Tell(p)
         \/ DestroyWrite(p) \/ DissolveTx(p)
  PROVE  Order'
<1>0. OrderAt(p, pc[p], loc[p], msg) /\ loc[p] \in Local
  BY DEF Order, TypeOK
<1>1. ASSUME NextRule(p), UNCHANGED <<msg, tomb>>, announced' => Marked(msg')
      PROVE  Order'
  <2>1. /\ [loc[p] EXCEPT !.reason = "all_read"].op = loc[p].op
        /\ \A local : OrderAt(p, "markSelect", local, msg)
        /\ OrderAt(p, "idle", NoLocal, msg) /\ NoLocal.op # "send"
    BY <1>0 DEF Local, OrderAt, SendSteps, NoLocal
  <2>2. msg' = msg /\ (msg'.row = "purged" => tomb'.exists)
    BY <1>1 DEF Order
  <2> QED
    BY <1>1, <2>1, <2>2, OrderGoto DEF NextRule, Done
<1>2. CASE MarkSelect(p)
  <2>1. CASE NextRule(p)
    BY <1>1, <1>2, <2>1 DEF MarkSelect, Order, rows, history
  <2>2. CASE Goto(p, "markUpdate", loc[p]) /\ Live
    <3>1. OrderAt(p, "markUpdate", loc[p], msg)
      BY <2>2 DEF OrderAt, SendSteps, Live, Stored
    <3> QED
      BY <1>2, <2>2, <3>1, OrderQuiet DEF MarkSelect, rows, history
  <2> QED
    BY <1>2, <2>1, <2>2 DEF MarkSelect, Overdue, ReadOut
<1>3. CASE MarkUpdate(p) \/ DestroyWrite(p)
  <2>1. msg.row # "absent" /\ msg.row \in {"absent", "stored", "purged"}
    BY <1>0, <1>3 DEF MarkUpdate, DestroyWrite, At, OrderAt, TypeOK, Row
  <2>2. msg'.row = msg.row /\ Marked(msg')
    BY <1>3, <2>1
    DEF MarkUpdate, DestroyWrite, Stamp, Destroyed, TypeOK, Row, Live, Stored, Marked
  <2>3. OrderAt(p, "tell", loc[p], msg')
    BY <2>2 DEF OrderAt, SendSteps
  <2>4. msg'.row = "purged" => tomb'.exists
    BY <1>3, <2>2 DEF MarkUpdate, DestroyWrite, Order
  <2> QED
    BY <1>3, <2>1, <2>2, <2>3, <2>4, OrderGoto DEF MarkUpdate, DestroyWrite
<1>4. CASE Tell(p)
  <2>1. Marked(msg') /\ UNCHANGED <<msg, tomb>>
    BY <1>0, <1>4 DEF Tell, At, OrderAt, rows
  <2>2. CASE NextRule(p)
    BY <1>1, <2>1, <2>2
  <2>3. CASE Done(p)
    <3>1. OrderAt(p, "idle", NoLocal, msg) /\ NoLocal.op # "send"
      BY DEF OrderAt, SendSteps, NoLocal
    <3>2. msg' = msg /\ (msg'.row = "purged" => tomb'.exists)
      BY <2>1 DEF Order
    <3> QED
      BY <2>1, <2>3, <3>1, <3>2, OrderGoto DEF Done
  <2> QED
    BY <1>4, <2>2, <2>3 DEF Tell
<1>5. CASE DissolveTx(p)
  <2>1. msg'.row = msg.row /\ msg'.destroyed = msg.destroyed
    BY <1>5 DEF DissolveTx, TypeOK, Row
  <2>2. /\ msg'.row = "purged" => tomb'.exists
        /\ announced' => Marked(msg')
    BY <1>5, <2>1 DEF DissolveTx, Order, Marked, history
  <2>3. OrderAt(p, "idle", NoLocal, msg') /\ NoLocal.op # "send"
    BY DEF OrderAt, SendSteps, NoLocal
  <2> QED
    BY <1>5, <2>1, <2>2, <2>3, OrderGoto DEF DissolveTx, Done, Marked
<1> QED
  BY <1>2, <1>3, <1>4, <1>5

LEMMA OrderStep ==
  ASSUME TypeOK, Order, [Next]_vars
  PROVE  Order'
<1>1. ASSUME NEW p \in Procs, Continue(p)
      PROVE  Order'
  BY <1>1, OrderSend, OrderReveal, OrderRead, OrderAck, OrderPurge, OrderMark
  DEF Continue
<1>2. ASSUME NEW p \in Markers, MarkStart(p)
      PROVE  Order'
  <2>1. /\ p \in Procs
        /\ [Begin("mark", Sender) EXCEPT
              !.t = now, !.reason = "fallback_expired"].op = "mark"
        /\ \A local : OrderAt(p, "markSelect", local, msg)
    BY DEF Procs, Begin, NoLocal, OrderAt, SendSteps
  <2> QED
    BY <1>2, <2>1, OrderQuiet DEF MarkStart, rows, history
<1>3. ASSUME NEW p \in Sweepers, SweepStart(p)
      PROVE  Order'
  <2>1. /\ p \in Procs
        /\ [Begin("sweep", Sender) EXCEPT !.t = now].op = "sweep"
        /\ \A local : OrderAt(p, "sweepSelect", local, msg)
    BY DEF Procs, Begin, NoLocal, OrderAt, SendSteps
  <2> QED
    BY <1>3, <2>1, OrderQuiet DEF SweepStart, rows, history
<1>4. CASE (\E u \in Movers : Move(u)) \/ Tick \/ UNCHANGED vars
  BY <1>4 DEF Move, Tick, vars, rows, history, Order, OneSender
<1>5. CASE Crash
  <2>1. \A p \in Procs : pc'[p] = "idle" /\ loc'[p] = NoLocal
    BY <1>5 DEF Crash
  <2>2. UNCHANGED <<msg, tomb, announced>>
    BY <1>5 DEF Crash, rows, history
  <2>3. NoLocal.op # "send"
    BY DEF NoLocal
  <2> QED
    BY <2>1, <2>2, <2>3 DEF Order, OrderAt, OneSender, SendSteps
<1> QED
  BY <1>1, <1>2, <1>3, <1>4, <1>5, OrderRequestStart DEF Next

\* Whatever a handler in flight read, its next write fits the message's stage.
THEOREM OrderCorrect == Spec => []Order
<1>1. TypeOK /\ Order /\ [Next]_vars => Order'
  BY OrderStep
<1> QED
  BY <1>1, OrderInit, TypeCorrect, PTL DEF Spec

\* No client is told of a destruction that is not in the database: when a
\* broadcast leaves, the row is marked or gone, also when the marker, an
\* administrator and a purge overlap.
THEOREM AnnouncedCorrect == Spec => []AnnouncedMeansDestroyed
<1>1. Order => AnnouncedMeansDestroyed
  BY DEF Order, AnnouncedMeansDestroyed, Marked
<1> QED
  BY <1>1, OrderCorrect, PTL
-----------------------------------------------------------------------------
(* The stages of the message, and the theorems that follow from Order. *)

StagesKept ==
  /\ msg'.row = msg.row
  /\ msg'.destroyed = msg.destroyed
  /\ msg'.destroyedAt = msg.destroyedAt
  /\ msg'.reason = msg.reason
  /\ UNCHANGED <<tomb, attachment>>

\* Five statements touch the stage of the message, its tombstone or its
\* attachment; every other step of the system leaves them alone.
LEMMA StageSteps ==
  ASSUME TypeOK, [Next]_vars
  PROVE  \/ StagesKept
         \/ \E p \in Procs : \/ SendSave(p) \/ MarkUpdate(p) \/ DestroyWrite(p)
                             \/ PurgeTx(p) \/ PurgeFiles(p)
<1>1. ASSUME UNCHANGED <<msg, tomb, attachment>>
      PROVE  StagesKept
  BY <1>1 DEF StagesKept
<1>2. ASSUME NEW p \in Requests, RequestStart(p)
      PROVE  StagesKept
  BY <1>1, <1>2
  DEF RequestStart, SendStart, RecallLoad, DestroyLoad, DissolveLoad,
      RevealLoad, ConsumeLoad, ListStart, AckStart, rows
<1>3. ASSUME NEW p \in Procs,
             \/ Admit(p) \/ SendConv(p) \/ SendMembers(p) \/ SendReceipts(p)
             \/ RevealReceipt(p) \/ RevealCreate(p) \/ RevealStart(p)
             \/ RevealReply(p) \/ ConsumeReceipt(p) \/ ConsumeWrite(p)
             \/ ListLoad(p) \/ ListReceipt(p)
      PROVE  StagesKept
  BY <1>1, <1>3
  DEF Admit, SendConv, SendMembers, SendReceipts, RevealReceipt, RevealCreate,
      RevealStart, RevealReply, ConsumeReceipt, ConsumeWrite, ListLoad,
      ListReceipt, rows
<1>4. ASSUME NEW p \in Procs,
             \/ AckLoad(p) \/ AckUpsert(p) \/ PolicyCount(p) \/ PolicyNeed(p)
             \/ PurgeLoad(p) \/ SweepSelect(p) \/ MarkSelect(p) \/ Tell(p)
      PROVE  StagesKept
  BY <1>1, <1>4
  DEF AckLoad, AckUpsert, PolicyCount, PolicyNeed, PurgeLoad, SweepSelect,
      MarkSelect, Tell, rows
<1>5. ASSUME NEW p \in Procs,
             RevealExtend(p) \/ RecallWrite(p) \/ DissolveTx(p)
      PROVE  StagesKept
  BY <1>5 DEF RevealExtend, RecallWrite, DissolveTx, StagesKept, TypeOK, Row
<1>6. ASSUME NEW p \in Markers \cup Sweepers, MarkStart(p) \/ SweepStart(p)
      PROVE  StagesKept
  BY <1>1, <1>6 DEF MarkStart, SweepStart, rows
<1>7. CASE (\E u \in Movers : Move(u)) \/ Tick \/ Crash \/ UNCHANGED vars
  BY <1>1, <1>7 DEF Move, Tick, Crash, vars, rows
<1> QED
  BY <1>2, <1>3, <1>4, <1>5, <1>6, <1>7 DEF Next, Continue

LEMMA FateInit == Init => Fate!Init
BY DEF Init, Fate!Init, NoRow, Stored, NoTombstone

\* Every step is a step of the message's fate, or none of its business.
LEMMA FateStep ==
  ASSUME TypeOK, Order, [Next]_vars
  PROVE  [Fate!Next]_(Fate!fateVars)
<1>0. \A p \in Procs : OrderAt(p, pc[p], loc[p], msg)
  BY DEF Order
<1>1. CASE StagesKept
  BY <1>1 DEF StagesKept, Fate!fateVars, Stored
<1>2. ASSUME NEW p \in Procs, SendSave(p)
      PROVE  Fate!Send
  <2>1. msg.row = "absent"
    BY <1>0, <1>2 DEF SendSave, At, OrderAt, SendSteps
  <2>2. msg'.row = "stored" /\ msg'.destroyed = FALSE
    BY <1>2 DEF SendSave, NoRow
  <2> QED
    BY <1>2, <2>1, <2>2 DEF SendSave, Fate!Send, Fate!Advance, Stored
<1>3. ASSUME NEW p \in Procs, MarkUpdate(p) \/ DestroyWrite(p)
      PROVE  [Fate!Next]_(Fate!fateVars)
  <2>1. UNCHANGED <<tomb, attachment>>
    BY <1>3 DEF MarkUpdate, DestroyWrite
  <2>2. CASE Live /\ msg'.row = "stored" /\ msg'.destroyed
    <3>1. Fate!Destroy
      BY <2>1, <2>2 DEF Fate!Destroy, Fate!Advance, Stored, Live
    <3> QED
      BY <3>1 DEF Fate!Next
  <2>3. CASE ~Live /\ msg'.row = msg.row /\ msg'.destroyed = msg.destroyed
    BY <2>1, <2>3 DEF Fate!fateVars, Stored
  <2> QED
    BY <1>3, <2>2, <2>3
    DEF MarkUpdate, DestroyWrite, Stamp, Destroyed, TypeOK, Row, Live, Stored
<1>4. ASSUME NEW p \in Procs, PurgeTx(p)
      PROVE  [Fate!Next]_(Fate!fateVars)
  <2>1. Marked(msg)
    BY <1>0, <1>4 DEF PurgeTx, At, OrderAt
  <2>2. /\ msg'.row = "purged"
        /\ tomb'.exists = TRUE
        /\ UNCHANGED attachment
    BY <1>4 DEF PurgeTx, NoRow
  <2>3. CASE msg.row = "stored"
    <3>1. Fate!Purge
      BY <2>1, <2>2, <2>3 DEF Fate!Purge, Fate!Advance, Marked, Stored
    <3> QED
      BY <3>1 DEF Fate!Next
  <2>4. CASE msg.row = "purged"
    <3>1. tomb.exists = TRUE
      BY <2>4 DEF Order, TypeOK, Tombstone
    <3> QED
      BY <2>2, <2>4, <3>1 DEF Fate!fateVars, Stored
  <2> QED
    BY <2>1, <2>3, <2>4 DEF Marked
<1>5. ASSUME NEW p \in Procs, PurgeFiles(p)
      PROVE  Fate!EraseAttachment
  <2>1. msg.row = "purged"
    BY <1>0, <1>5 DEF PurgeFiles, At, OrderAt
  <2> QED
    BY <1>5, <2>1 DEF PurgeFiles, Fate!EraseAttachment, Stored
<1> QED
  BY <1>1, <1>2, <1>3, <1>4, <1>5, StageSteps DEF Fate!Next

\* The whole system of handlers, schedulers and crashes implements the
\* two-phase destruction of MessageFate: nothing is deleted that was not
\* marked, nothing is deleted twice, the tombstone appears with the deletion
\* and the attachment goes last.
THEOREM FateRefined == Spec => RefinesFate
<1>1. TypeOK /\ Order /\ [Next]_vars => [Fate!Next]_(Fate!fateVars)
  BY FateStep
<1> QED
  BY <1>1, FateInit, TypeCorrect, OrderCorrect, PTL
  DEF Spec, RefinesFate, Fate!Spec

\* The time and the reason of a destruction are written once, whatever the
\* markers and the administrators in flight believed; only an administrator
\* who read the row before may overwrite them.
THEOREM StampCorrect == Spec => StampChangedOnlyByManual
<1> DEFINE StampKept ==
      (Stored /\ msg.destroyed /\ msg'.row = "stored") =>
        \/ msg'.destroyedAt = msg.destroyedAt /\ msg'.reason = msg.reason
        \/ /\ msg'.reason = "manual"
           /\ \E p \in Requests : pc[p] = "destroyWrite"
<1>1. ASSUME TypeOK, Order, [Next]_vars
      PROVE  StampKept
  <2>0. \A p \in Procs : OrderAt(p, pc[p], loc[p], msg)
    BY <1>1 DEF Order
  <2>1. CASE StagesKept
    BY <2>1 DEF StagesKept
  <2>2. ASSUME NEW p \in Procs, SendSave(p)
        PROVE  ~Stored
    BY <2>0, <2>2 DEF SendSave, At, OrderAt, SendSteps, Stored
  <2>3. ASSUME NEW p \in Procs, MarkUpdate(p) \/ PurgeFiles(p)
        PROVE  ~Live => msg' = msg
    BY <2>3 DEF MarkUpdate, Stamp, PurgeFiles
  <2>4. ASSUME NEW p \in Procs, PurgeTx(p)
        PROVE  msg'.row = "purged"
    BY <2>4 DEF PurgeTx, NoRow
  <2>5. ASSUME NEW p \in Procs, DestroyWrite(p)
        PROVE  StampKept
    <3>1. p \in Requests /\ pc[p] = "destroyWrite"
      BY <2>0, <2>5 DEF DestroyWrite, At, OrderAt
    <3>2. Stored => msg'.reason = "manual"
      BY <2>5, <1>1 DEF DestroyWrite, Stamp, Destroyed, TypeOK, Row
    <3> QED
      BY <3>1, <3>2
  <2> QED
    BY <1>1, <2>1, <2>2, <2>3, <2>4, <2>5, StageSteps DEF Live
<1>2. TypeOK /\ Order /\ [Next]_vars => [StampKept]_vars
  BY <1>1
<1> QED
  BY <1>2, TypeCorrect, OrderCorrect, PTL DEF Spec, StampChangedOnlyByManual
-----------------------------------------------------------------------------
(***************************************************************************)
(* Proof that a physical deletion can be accounted for.  The policy is     *)
(* judged on counts and dates read one to three statements before the      *)
(* transaction that deletes; the invariant says that what was judged       *)
(* enough then is still enough, whatever acknowledgements, departures and  *)
(* administrators came in between.                                         *)
(***************************************************************************)

PurgeSteps == {"ackUpsert", "policyCount", "policyNeed", "purgeLoad", "purgeTx"}

\* The timeout has passed at t since one of the dates s.
Waited(s, t) == AckDays > 0 /\ \E date \in s : date + AckDays < t

\* What a handler concluded about row m still holds at t, when acknowledgements a
\* are on file and destroyed_at has had the dates s.
PurgeAt(label, local, m, a, s, t) ==
  /\ label \in PurgeSteps => m.row # "absent"
  /\ label = "sweepSelect" => local.t <= t
  /\ label \in {"purgeLoad", "purgeTx"} => local.trigger \in Triggers \ {"none"}
  /\ label = "policyNeed" => AcksNeeded = 0
  /\ (label = "policyNeed" /\ m.row = "stored") =>
       local.acks <= Cardinality(a)
  /\ (/\ label \in {"purgeLoad", "purgeTx"}
      /\ m.row = "stored"
      /\ local.trigger = "ack_by_user") => Cardinality(a) >= Quota
  /\ (/\ label \in {"purgeLoad", "purgeTx"}
      /\ m.row = "stored"
      /\ local.trigger = "ack_timeout") => Waited(s, t)
  /\ (label = "purgeTx" /\ m.row = "stored") => local.stamp \in s

Accounted ==
  /\ \A p \in Procs : PurgeAt(pc[p], loc[p], msg, acks, stamps, now)
  /\ (Stored /\ msg.destroyed) => msg.destroyedAt \in stamps
  /\ InitialMembers \ Movers \subseteq members

LEMMA AcksFinite ==
  ASSUME TypeOK
  PROVE  IsFiniteSet(acks) /\ Cardinality(acks) \in Nat
BY UsersAssumption, FS_Subset, FS_CardinalityType DEF TypeOK

\* As long as the row is there, acknowledgements are only added; a date that
\* destroyed_at has had is never forgotten, and it only gets such dates.
Retained ==
  /\ msg.row # "absent" => msg'.row # "absent"
  /\ msg'.row = "stored" =>
       msg.row = "absent" \/ (msg.row = "stored" /\ acks \subseteq acks')
  /\ stamps \subseteq stamps'
  /\ (msg'.row = "stored" /\ msg'.destroyed) =>
       \/ msg'.destroyedAt \in stamps'
       \/ /\ msg.row = "stored" /\ msg.destroyed
          /\ msg'.destroyedAt = msg.destroyedAt

LEMMA AccountedGoto ==
  ASSUME TypeOK, TypeOK', Order, Accounted,
         NEW p \in Procs, NEW label, NEW local, Goto(p, label, local),
         UNCHANGED <<now, threshold, members>>, Retained,
         PurgeAt(label, local, msg', acks', stamps', now)
  PROVE  Accounted'
<1>1. /\ pc'[p] = label /\ loc'[p] = local
      /\ \A q \in Procs : q # p => pc'[q] = pc[q] /\ loc'[q] = loc[q]
  BY DEF Goto, TypeOK
<1>2. ASSUME acks \subseteq acks'
      PROVE  Cardinality(acks) <= Cardinality(acks')
  <2>1. IsFiniteSet(acks')
    BY UsersAssumption, FS_Subset DEF TypeOK
  <2> QED
    BY <1>2, <2>1, FS_Subset
<1>3. ASSUME NEW q \in Procs
      PROVE  PurgeAt(pc'[q], loc'[q], msg', acks', stamps', now)
  <2>1. CASE q = p
    BY <1>1, <2>1
  <2>2. CASE q # p
    <3>0. /\ PurgeAt(pc[q], loc[q], msg, acks, stamps, now)
          /\ pc'[q] = pc[q] /\ loc'[q] = loc[q]
          /\ loc[q].acks \in Nat
      BY <1>1, <2>2 DEF Accounted, TypeOK, Local
    <3>1. CASE msg'.row = "stored" /\ msg.row = "absent"
      BY <3>0, <3>1 DEF PurgeAt, PurgeSteps
    <3>2. CASE msg'.row = "stored" /\ msg.row # "absent"
      <4>1. /\ msg.row = "stored"
            /\ Cardinality(acks) <= Cardinality(acks')
            /\ Cardinality(acks) \in Nat /\ Cardinality(acks') \in Nat
            /\ Quota \in Nat
            /\ stamps \subseteq stamps'
            /\ Waited(stamps, now) => Waited(stamps', now)
        <5>1. msg.row = "stored" /\ acks \subseteq acks'
          BY <3>2 DEF Retained
        <5>2. Cardinality(acks') \in Nat
          BY UsersAssumption, FS_Subset, FS_CardinalityType DEF TypeOK
        <5>3. Quota \in Nat
          <6>1. IsFiniteSet(InitialMembers \ (Movers \cup {Sender}))
            BY UsersAssumption, FS_Subset
          <6> QED
            BY <6>1, FS_CardinalityType, DurationsAssumption
            DEF Quota, AcksNeeded, Longer, TypeOK
        <5>4. /\ stamps \subseteq stamps'
              /\ Waited(stamps, now) => Waited(stamps', now)
          BY DEF Retained, Waited
        <5> QED
          BY <1>2, <5>1, <5>2, <5>3, <5>4, AcksFinite
      <4> QED
        BY <3>0, <3>2, <4>1 DEF PurgeAt
    <3>3. CASE msg'.row # "stored"
      BY <3>0, <3>3 DEF PurgeAt, Retained
    <3> QED
      BY <3>1, <3>2, <3>3
  <2> QED
    BY <2>1, <2>2
<1>4. (Stored' /\ msg'.destroyed) => msg'.destroyedAt \in stamps'
  BY DEF Retained, Accounted, Stored
<1> QED
  BY <1>3, <1>4 DEF Accounted, PurgeAt, Quota, AcksNeeded

\* The common case: rows, clock and members stay.
LEMMA AccountedQuiet ==
  ASSUME TypeOK, TypeOK', Order, Accounted,
         NEW p \in Procs, NEW label, NEW local, Goto(p, label, local),
         UNCHANGED <<now, threshold, members, msg, acks, stamps>>,
         PurgeAt(label, local, msg, acks, stamps, now)
  PROVE  Accounted'
<1>1. Retained
  BY DEF Retained
<1> QED
  BY <1>1, AccountedGoto

\* Statements that conclude nothing about a purge.
Unconcerned == Labels \ ({"sweepSelect"} \cup PurgeSteps)

LEMMA PurgeUnconcerned ==
  ASSUME NEW label \in Unconcerned, NEW local, NEW m, NEW a, NEW s, NEW t
  PROVE  PurgeAt(label, local, m, a, s, t)
BY DEF Unconcerned, PurgeAt, PurgeSteps

LEMMA UnconcernedLabels ==
  {"idle", "admit", "sendConv", "sendMembers", "sendSave", "sendReceipts",
   "revealReceipt", "revealCreate", "revealStart", "revealExtend",
   "revealReply", "consumeReceipt", "consumeWrite", "listLoad", "listReceipt",
   "recallWrite", "ackLoad", "purgeFiles", "markSelect", "markUpdate",
   "destroyWrite", "tell", "dissolveTx"} \subseteq Unconcerned
BY DEF Unconcerned, Labels, PurgeSteps

LEMMA AccountedAside ==
  ASSUME TypeOK, TypeOK', Order, Accounted,
         NEW p \in Procs, NEW label \in Unconcerned, NEW local,
         Goto(p, label, local),
         UNCHANGED <<now, threshold, members>>, Retained
  PROVE  Accounted'
BY PurgeUnconcerned, AccountedGoto

LEMMA AccountedInit == Init => Accounted
<1> SUFFICES ASSUME Init PROVE Accounted
  OBVIOUS
<1>1. \A p \in Procs : PurgeAt(pc[p], loc[p], msg, acks, stamps, now)
  BY UnconcernedLabels, PurgeUnconcerned DEF Init
<1> QED
  BY <1>1 DEF Init, Accounted, Stored, NoRow

LEMMA AccountedRequestStart ==
  ASSUME TypeOK, TypeOK', Order, Accounted, NEW p \in Requests,
         RequestStart(p)
  PROVE  Accounted'
<1>0. /\ p \in Procs
      /\ UNCHANGED <<msg, acks, stamps>> => Retained
  BY DEF Procs, Retained
<1>1. CASE SendStart(p) \/ RecallLoad(p) \/ DestroyLoad(p) \/ DissolveLoad(p)
  BY <1>0, <1>1, UnconcernedLabels, AccountedAside
  DEF SendStart, RecallLoad, DestroyLoad, DissolveLoad, world, rows, history
<1>2. ASSUME NEW u \in Users,
             RevealLoad(p, u) \/ ConsumeLoad(p, u) \/ ListStart(p, u)
               \/ AckStart(p, u)
      PROVE  Accounted'
  BY <1>0, <1>2, UnconcernedLabels, AccountedAside
  DEF RevealLoad, ConsumeLoad, ListStart, AckStart, world, rows, history
<1> QED
  BY <1>1, <1>2 DEF RequestStart

\* Handlers that neither acknowledge nor purge: some write the row, none
\* takes a destruction back.
LEMMA AccountedOther ==
  ASSUME TypeOK, TypeOK', Order, Accounted, NEW p \in Procs,
         \/ SendConv(p) \/ SendMembers(p) \/ SendSave(p) \/ SendReceipts(p)
         \/ RevealReceipt(p) \/ RevealCreate(p) \/ RevealStart(p)
         \/ RevealExtend(p) \/ RevealReply(p)
         \/ ConsumeReceipt(p) \/ ConsumeWrite(p) \/ ListLoad(p)
         \/ ListReceipt(p) \/ RecallWrite(p)
         \/ PurgeFiles(p) \/ MarkSelect(p) \/ MarkUpdate(p) \/ Tell(p)
         \/ DestroyWrite(p) \/ DissolveTx(p)
  PROVE  Accounted'
<1>1. UNCHANGED <<msg, acks, stamps>> => Retained
  BY DEF Retained
<1>2. CASE SendConv(p) \/ SendMembers(p) \/ SendReceipts(p)
  BY <1>1, <1>2, UnconcernedLabels, AccountedAside
  DEF SendConv, SendMembers, SendReceipts, Done, world, rows, history
<1>3. CASE SendSave(p)
  <2>1. msg.row = "absent"
    BY <1>3 DEF SendSave, At, Order, OrderAt, SendSteps
  <2>2. Retained
    BY <1>3, <2>1 DEF Retained, SendSave, NoRow, history
  <2> QED
    BY <1>3, <2>2, UnconcernedLabels, AccountedAside DEF SendSave, world
<1>4. CASE RevealReceipt(p) \/ RevealCreate(p) \/ RevealStart(p) \/ RevealReply(p)
  BY <1>1, <1>4, UnconcernedLabels, AccountedAside
  DEF RevealReceipt, RevealCreate, RevealStart, RevealReply, Done, world, rows,
      history
<1>5. CASE ConsumeReceipt(p) \/ ConsumeWrite(p) \/ ListLoad(p) \/ ListReceipt(p)
  BY <1>1, <1>5, UnconcernedLabels, AccountedAside
  DEF ConsumeReceipt, ConsumeWrite, ListLoad, ListReceipt, Done, world, rows,
      history
<1>6. CASE RevealExtend(p) \/ RecallWrite(p) \/ DissolveTx(p)
  <2>1. /\ msg'.row = msg.row /\ msg'.destroyed = msg.destroyed
        /\ msg'.destroyedAt = msg.destroyedAt
        /\ UNCHANGED <<acks, stamps>>
    BY <1>6 DEF RevealExtend, RecallWrite, DissolveTx, TypeOK, Row, history
  <2>2. Retained
    BY <2>1 DEF Retained, TypeOK, Row
  <2> QED
    BY <1>6, <2>2, UnconcernedLabels, AccountedAside
    DEF RevealExtend, RecallWrite, DissolveTx, Done, world
<1>7. CASE MarkUpdate(p) \/ DestroyWrite(p)
  <2>1. /\ msg'.row = msg.row
        /\ msg' = msg \/ msg'.destroyedAt \in stamps'
        /\ UNCHANGED acks
        /\ stamps \subseteq stamps'
    BY <1>7 DEF MarkUpdate, DestroyWrite, Stamp, Destroyed, TypeOK, Row
  <2>2. Retained
    BY <2>1 DEF Retained, TypeOK, Row
  <2> QED
    BY <1>7, <2>2, UnconcernedLabels, AccountedAside
    DEF MarkUpdate, DestroyWrite, world
<1>8. CASE PurgeFiles(p) \/ MarkSelect(p) \/ Tell(p)
  BY <1>1, <1>8, UnconcernedLabels, AccountedAside
  DEF PurgeFiles, MarkSelect, Tell, NextRule, Done, world, rows, history
<1> QED
  BY <1>2, <1>3, <1>4, <1>5, <1>6, <1>7, <1>8

LEMMA AccountedAdmit ==
  ASSUME TypeOK, TypeOK', Order, Accounted, NEW p \in Procs, Admit(p)
  PROVE  Accounted'
<1>1. \A op \in DOMAIN AfterAdmit : AfterAdmit[op] \in Unconcerned
  BY UnconcernedLabels DEF AfterAdmit
<1>2. Retained
  BY DEF Admit, Retained, rows, history
<1> QED
  BY <1>1, <1>2, UnconcernedLabels, AccountedAside
  DEF Admit, Done, world, rows, history

\* The judgements themselves.
LEMMA AccountedAck ==
  ASSUME TypeOK, TypeOK', Order, Accounted, NEW p \in Procs,
         AckLoad(p) \/ AckUpsert(p) \/ PolicyCount(p) \/ PolicyNeed(p)
  PROVE  Accounted'
<1>0. /\ PurgeAt(pc[p], loc[p], msg, acks, stamps, now)
      /\ loc[p] \in Local
      /\ PurgeAt("idle", NoLocal, msg, acks, stamps, now)
      /\ UNCHANGED <<msg, acks, stamps>> => Retained
  BY UnconcernedLabels, PurgeUnconcerned DEF Accounted, TypeOK, Retained
<1>1. CASE AckLoad(p)
  <2>1. Stored => PurgeAt("ackUpsert", loc[p], msg, acks, stamps, now)
    BY DEF PurgeAt, PurgeSteps, Stored
  <2> QED
    BY <1>0, <1>1, <2>1, AccountedQuiet DEF AckLoad, Done, world, rows, history
<1>2. CASE AckUpsert(p)
  <2>1. Retained
    BY <1>2 DEF AckUpsert, Retained, TypeOK, Row, history
  <2>2. PurgeAt("policyCount", loc[p], msg', acks', stamps', now)
    BY <1>0, <1>2 DEF AckUpsert, At, PurgeAt, PurgeSteps
  <2> QED
    BY <1>2, <2>1, <2>2, AccountedGoto DEF AckUpsert, world
<1>3. CASE PolicyCount(p)
  <2>1. pc[p] = "policyCount" /\ msg.row # "absent"
    BY <1>0, <1>3 DEF PolicyCount, At, PurgeAt, PurgeSteps
  <2>2. CASE Done(p)
    BY <1>0, <1>3, <2>2, AccountedQuiet DEF PolicyCount, Done, world, rows, history
  <2>3. CASE /\ AcksNeeded = 0
             /\ Goto(p, "policyNeed", [loc[p] EXCEPT !.acks = Cardinality(acks)])
    <3>1. [loc[p] EXCEPT !.acks = Cardinality(acks)].acks = Cardinality(acks)
      BY <1>0 DEF Local
    <3>2. PurgeAt("policyNeed", [loc[p] EXCEPT !.acks = Cardinality(acks)],
                  msg, acks, stamps, now)
      BY <2>1, <2>3, <3>1, AcksFinite DEF PurgeAt, PurgeSteps
    <3> QED
      BY <1>3, <2>3, <3>2, AccountedQuiet DEF PolicyCount, world, rows, history
  <2>4. CASE /\ AcksNeeded # 0 /\ Cardinality(acks) >= AcksNeeded
             /\ ToPurge(p, "ack_by_user")
    <3>1. Quota = AcksNeeded
      BY <2>4 DEF Quota, AcksNeeded, TypeOK
    <3>2. [loc[p] EXCEPT !.trigger = "ack_by_user"].trigger = "ack_by_user"
      BY <1>0 DEF Local
    <3>3. PurgeAt("purgeLoad", [loc[p] EXCEPT !.trigger = "ack_by_user"],
                  msg, acks, stamps, now)
      BY <2>1, <2>4, <3>1, <3>2 DEF PurgeAt, PurgeSteps, Triggers
    <3> QED
      BY <1>3, <2>4, <3>3, AccountedQuiet
      DEF PolicyCount, ToPurge, world, rows, history
  <2> QED
    BY <1>3, <2>2, <2>3, <2>4 DEF PolicyCount
<1>4. CASE PolicyNeed(p)
  <2>1. /\ pc[p] = "policyNeed" /\ msg.row # "absent" /\ AcksNeeded = 0
        /\ msg.row = "stored" => loc[p].acks <= Cardinality(acks)
    BY <1>0, <1>4 DEF PolicyNeed, At, PurgeAt, PurgeSteps
  <2>2. CASE Done(p)
    BY <1>0, <1>4, <2>2, AccountedQuiet DEF PolicyNeed, Done, world, rows, history
  <2>3. CASE /\ ToPurge(p, "ack_by_user")
             /\ \/ ~Stored
                \/ /\ Cardinality(members \ {Sender}) > 0
                   /\ loc[p].acks >= Cardinality(members \ {Sender})
    <3>1. /\ Cardinality(InitialMembers \ (Movers \cup {Sender}))
               <= Cardinality(members \ {Sender})
          /\ Cardinality(InitialMembers \ (Movers \cup {Sender})) \in Nat
          /\ Cardinality(members \ {Sender}) \in Nat
      <4>1. /\ IsFiniteSet(members \ {Sender})
            /\ InitialMembers \ (Movers \cup {Sender})
                 \subseteq members \ {Sender}
        BY UsersAssumption, FS_Subset DEF TypeOK, Accounted
      <4> QED
        BY <4>1, FS_Subset, FS_CardinalityType
    <3>2. Stored => Cardinality(acks) >= Quota
      BY <1>0, <2>1, <2>3, <3>1, AcksFinite
      DEF Quota, Longer, Stored, Local
    <3>3. [loc[p] EXCEPT !.trigger = "ack_by_user"].trigger = "ack_by_user"
      BY <1>0 DEF Local
    <3>4. PurgeAt("purgeLoad", [loc[p] EXCEPT !.trigger = "ack_by_user"],
                  msg, acks, stamps, now)
      BY <2>1, <3>2, <3>3 DEF PurgeAt, PurgeSteps, Triggers, Stored
    <3> QED
      BY <1>4, <2>3, <3>4, AccountedQuiet
      DEF PolicyNeed, ToPurge, world, rows, history
  <2> QED
    BY <1>4, <2>2, <2>3 DEF PolicyNeed
<1> QED
  BY <1>1, <1>2, <1>3, <1>4

LEMMA AccountedPurge ==
  ASSUME TypeOK, TypeOK', Order, Accounted, NEW p \in Procs,
         SweepSelect(p) \/ PurgeLoad(p) \/ PurgeTx(p)
  PROVE  Accounted'
<1>0. /\ PurgeAt(pc[p], loc[p], msg, acks, stamps, now)
      /\ loc[p] \in Local
      /\ PurgeAt("idle", NoLocal, msg, acks, stamps, now)
  BY UnconcernedLabels, PurgeUnconcerned DEF Accounted, TypeOK
<1>1. CASE SweepSelect(p)
  <2>1. pc[p] = "sweepSelect" /\ loc[p].t <= now
    BY <1>0, <1>1 DEF SweepSelect, At, PurgeAt
  <2>2. CASE Done(p)
    BY <1>0, <1>1, <2>2, AccountedQuiet DEF SweepSelect, Done, world, rows, history
  <2>3. ASSUME NEW trigger \in {"ack_by_user", "ack_timeout"},
               ToPurge(p, trigger), Stored, msg.destroyed,
               trigger = "ack_by_user" =>
                 AcksNeeded >= 1 /\ Cardinality(acks) >= AcksNeeded,
               trigger = "ack_timeout" =>
                 AckDays > 0 /\ msg.destroyedAt + AckDays < loc[p].t
        PROVE  Accounted'
    <3>0. /\ msg.destroyedAt \in stamps /\ msg.destroyedAt \in Nat
          /\ now \in Nat /\ loc[p].t \in Nat /\ AckDays \in Nat
      BY <1>0, <2>3, DurationsAssumption DEF Accounted, TypeOK, Row, Local
    <3>1. /\ trigger = "ack_by_user" => Cardinality(acks) >= Quota
          /\ trigger = "ack_timeout" => Waited(stamps, now)
      <4>1. AcksNeeded >= 1 => Quota = AcksNeeded
        BY DEF Quota, AcksNeeded, TypeOK
      <4>2. trigger = "ack_timeout" => msg.destroyedAt + AckDays < now
        BY <2>1, <2>3, <3>0
      <4> QED
        BY <2>3, <3>0, <4>1, <4>2 DEF Waited
    <3>2. [loc[p] EXCEPT !.trigger = trigger].trigger = trigger
      BY <1>0 DEF Local
    <3>3. PurgeAt("purgeLoad", [loc[p] EXCEPT !.trigger = trigger],
                  msg, acks, stamps, now)
      BY <2>3, <3>1, <3>2 DEF PurgeAt, PurgeSteps, Triggers, Stored
    <3> QED
      BY <1>1, <2>3, <3>3, AccountedQuiet
      DEF SweepSelect, ToPurge, world, rows, history
  <2> QED
    BY <1>1, <2>2, <2>3 DEF SweepSelect
<1>2. CASE PurgeLoad(p)
  <2>1. CASE Done(p)
    BY <1>0, <1>2, <2>1, AccountedQuiet DEF PurgeLoad, Done, world, rows, history
  <2>2. CASE /\ Stored /\ msg.destroyed
             /\ Goto(p, "purgeTx", [loc[p] EXCEPT !.stamp = msg.destroyedAt,
                                                  !.reason = msg.reason])
    <3> DEFINE local == [loc[p] EXCEPT !.stamp = msg.destroyedAt,
                                       !.reason = msg.reason]
    <3>1. /\ local.trigger = loc[p].trigger
          /\ local.stamp = msg.destroyedAt /\ local.reason = msg.reason
      BY <1>0 DEF Local
    <3>2. pc[p] = "purgeLoad"
      BY <1>2 DEF PurgeLoad, At
    <3>3. PurgeAt("purgeTx", local, msg, acks, stamps, now)
      BY <1>0, <2>2, <3>1, <3>2 DEF Accounted, PurgeAt, PurgeSteps, Stored
    <3> QED
      BY <1>2, <2>2, <3>3, AccountedQuiet DEF PurgeLoad, world, rows, history
  <2> QED
    BY <1>2, <2>1, <2>2 DEF PurgeLoad
<1>3. CASE PurgeTx(p)
  <2>1. Retained
    BY <1>3 DEF PurgeTx, Retained, NoRow, history
  <2> QED
    BY <1>3, <2>1, UnconcernedLabels, AccountedAside DEF PurgeTx, world
<1> QED
  BY <1>1, <1>2, <1>3

LEMMA AccountedStep ==
  ASSUME TypeOK, TypeOK', Order, Accounted, [Next]_vars
  PROVE  Accounted'
<1>1. ASSUME NEW p \in Procs, Continue(p)
      PROVE  Accounted'
  BY <1>1, AccountedAdmit, AccountedOther, AccountedAck, AccountedPurge
  DEF Continue
<1>2. ASSUME NEW p \in Markers, MarkStart(p)
      PROVE  Accounted'
  <2>1. p \in Procs /\ Retained
    BY <1>2 DEF Procs, MarkStart, Retained, rows, history
  <2> QED
    BY <1>2, <2>1, UnconcernedLabels, AccountedAside
    DEF MarkStart, world, rows, history
<1>3. ASSUME NEW p \in Sweepers, SweepStart(p)
      PROVE  Accounted'
  <2>1. /\ p \in Procs
        /\ [Begin("sweep", Sender) EXCEPT !.t = now].t = now
    BY DEF Procs, Begin, NoLocal
  <2>2. PurgeAt("sweepSelect", [Begin("sweep", Sender) EXCEPT !.t = now],
                msg, acks, stamps, now)
    BY <2>1 DEF PurgeAt, PurgeSteps, TypeOK
  <2> QED
    BY <1>3, <2>1, <2>2, AccountedQuiet DEF SweepStart, world, rows, history
<1>4. CASE (\E u \in Movers : Move(u)) \/ Tick \/ UNCHANGED vars
  <2>1. /\ UNCHANGED <<threshold, msg, acks, stamps, pc, loc>>
        /\ now' \in {now, now + 1}
        /\ InitialMembers \ Movers \subseteq members'
    BY <1>4 DEF Move, Tick, vars, rows, world, history, Accounted
  <2>2. ASSUME NEW q \in Procs
        PROVE  PurgeAt(pc[q], loc[q], msg, acks, stamps, now')
    <3>1. /\ PurgeAt(pc[q], loc[q], msg, acks, stamps, now)
          /\ loc[q].t \in Nat /\ loc[q].stamp \in Nat
          /\ msg.destroyedAt \in Nat /\ now \in Nat
          /\ AckDays \in Nat
      BY DurationsAssumption DEF Accounted, TypeOK, Local, Row
    <3>2. Waited(stamps, now) => Waited(stamps, now')
      BY <2>1, <3>1 DEF Waited, TypeOK
    <3>3. loc[q].t <= now => loc[q].t <= now'
      BY <2>1, <3>1
    <3> QED
      BY <3>1, <3>2, <3>3 DEF PurgeAt
  <2> QED
    BY <2>1, <2>2 DEF Accounted, PurgeAt, Stored, Quota, AcksNeeded
<1>5. CASE Crash
  <2>1. \A p \in Procs : pc'[p] = "idle"
    BY <1>5 DEF Crash
  <2>2. \A p \in Procs : PurgeAt(pc'[p], loc'[p], msg', acks', stamps', now')
    BY <2>1, UnconcernedLabels, PurgeUnconcerned
  <2> QED
    BY <1>5, <2>2
    DEF Crash, rows, history, Stored, Accounted, PurgeAt, Quota, AcksNeeded
<1> QED
  BY <1>1, <1>2, <1>3, <1>4, <1>5, AccountedRequestStart DEF Next

THEOREM AccountedCorrect == Spec => []Accounted
<1>1. TypeOK /\ TypeOK' /\ Order /\ Accounted /\ [Next]_vars => Accounted'
  BY AccountedStep
<1> QED
  BY <1>1, AccountedInit, TypeCorrect, OrderCorrect, PTL DEF Spec

\* A row is deleted only with the quota of acknowledgements on file at that
\* moment, or when the timeout has passed since a date its destroyed_at has had,
\* although the policy was judged several statements earlier and an administrator
\* may have rewritten that date since; the tombstone shows such a date.
THEOREM PurgeCorrect == Spec => PurgeAccountable
<1> DEFINE Step ==
      (Stored /\ msg'.row = "purged") =>
        /\ Cardinality(acks) >= Quota \/ TimedOut
        /\ tomb'.destroyedAt \in stamps
<1>1. ASSUME TypeOK, Accounted, [Next]_vars
      PROVE  Step
  <2>1. ASSUME NEW p \in Procs, PurgeTx(p)
        PROVE  Step
    <3>1. /\ PurgeAt("purgeTx", loc[p], msg, acks, stamps, now)
          /\ loc[p].trigger \in Triggers
      BY <1>1, <2>1 DEF Accounted, PurgeTx, At, TypeOK, Local
    <3>2. tomb'.destroyedAt = loc[p].stamp
      BY <2>1 DEF PurgeTx
    <3> QED
      BY <3>1, <3>2 DEF PurgeAt, Waited, TimedOut, Triggers, Stored
  <2>2. ASSUME NEW p \in Procs,
               \/ SendSave(p) \/ MarkUpdate(p) \/ DestroyWrite(p)
               \/ PurgeFiles(p)
        PROVE  Stored => msg'.row # "purged"
    BY <1>1, <2>2
    DEF SendSave, NoRow, MarkUpdate, DestroyWrite, Stamp, Destroyed, PurgeFiles,
        TypeOK, Row, Stored
  <2>3. CASE StagesKept
    BY <2>3 DEF StagesKept, Stored
  <2> QED
    BY <1>1, <2>1, <2>2, <2>3, StageSteps
<1>2. TypeOK /\ Accounted /\ [Next]_vars => [Step]_vars
  BY <1>1
<1> QED
  BY <1>2, TypeCorrect, AccountedCorrect, PTL DEF Spec, PurgeAccountable

-----------------------------------------------------------------------------
(***************************************************************************)
(* Proof that readers are left the time the sender chose.  destroy_at is   *)
(* written by sends, reveals and dissolutions that act on what they read   *)
(* earlier, and rule R1 acts on a selection made before its update; the    *)
(* invariant carries the promised deadline through each of those memories. *)
(***************************************************************************)

RevealSteps == {"revealReceipt", "revealCreate", "revealStart",
                "revealExtend", "revealReply"}

\* Row m of an undissolved conversation has the deadline promised.
DeadlineKept(m, dissolved) ==
  (m.row = "stored" /\ dissolved = Null) =>
    IF ttl = 0 THEN m.destroyAt = Null ELSE m.destroyAt >= Promised(m.sentAt)

\* Rule R1 marked row m in time.
MarkedInTime(m, dissolved) ==
  (m.row = "stored" /\ dissolved = Null /\ m.reason = "fallback_expired") =>
    ttl # 0 /\ m.destroyedAt >= Promised(m.sentAt)

\* What a handler remembers of the deadline is still true of row m.
DeadlineAt(label, local, m, dissolved) ==
  /\ label \in RevealSteps => local.op = "reveal"
  /\ (local.op = "reveal" /\ label \in {"admit"} \cup RevealSteps) =>
       /\ ttl # 0
       /\ m.row # "absent"
       /\ (m.row = "stored" /\ dissolved = Null) =>
            local.stamp >= Promised(m.sentAt)
  /\ label = "revealExtend" => local.t + Window > local.stamp
  /\ (/\ label = "markUpdate"
      /\ local.reason = "fallback_expired"
      /\ m.row = "stored"
      /\ dissolved = Null) => ttl # 0 /\ local.t >= Promised(m.sentAt)
  /\ label = "dissolveTx" => local.t # Null

Deadlines ==
  /\ now # Null
  /\ \A p \in Procs : DeadlineAt(pc[p], loc[p], msg, dissolvedAt)
  /\ DeadlineKept(msg, dissolvedAt)
  /\ MarkedInTime(msg, dissolvedAt)

\* A step that leaves row and dissolution behind it alone, or moves the row
\* on, invalidates nobody's memory of the deadline.
SameSend ==
  /\ msg.row # "absent" => msg'.row # "absent"
  /\ (msg'.row = "stored" /\ dissolvedAt' = Null /\ msg.row # "absent") =>
        msg.row = "stored" /\ dissolvedAt = Null /\ msg'.sentAt = msg.sentAt

LEMMA DeadlineGoto ==
  ASSUME TypeOK, Order, Deadlines,
         NEW p \in Procs, NEW label, NEW local, Goto(p, label, local),
         UNCHANGED <<now, ttl, media>>,
         SameSend,
         DeadlineAt(label, local, msg', dissolvedAt'),
         DeadlineKept(msg', dissolvedAt'),
         MarkedInTime(msg', dissolvedAt')
  PROVE  Deadlines'
<1>1. /\ pc'[p] = label /\ loc'[p] = local
      /\ \A q \in Procs : q # p => pc'[q] = pc[q] /\ loc'[q] = loc[q]
  BY DEF Goto, TypeOK
<1>2. ASSUME NEW q \in Procs
      PROVE  DeadlineAt(pc'[q], loc'[q], msg', dissolvedAt')
  <2>1. CASE q = p
    BY <1>1, <2>1
  <2>2. CASE q # p
    <3>1. /\ DeadlineAt(pc[q], loc[q], msg, dissolvedAt)
          /\ OrderAt(q, pc[q], loc[q], msg)
      BY DEF Deadlines, Order
    <3> QED
      BY <1>1, <2>2, <3>1 DEF DeadlineAt, OrderAt, SameSend
  <2> QED
    BY <2>1, <2>2
<1>3. /\ Window' = Window
      /\ \A s : Promised(s)' = Promised(s)
  BY DEF Window, Promised
<1>4. /\ \A q \in Procs : DeadlineAt(pc[q], loc[q], msg, dissolvedAt)'
      /\ DeadlineKept(msg, dissolvedAt)'
      /\ MarkedInTime(msg, dissolvedAt)'
  BY <1>2, <1>3 DEF DeadlineAt, DeadlineKept, MarkedInTime
<1> QED
  BY <1>4 DEF Deadlines

\* The common case: row and dissolution stay.
LEMMA DeadlineQuiet ==
  ASSUME TypeOK, Order, Deadlines,
         NEW p \in Procs, NEW label, NEW local, Goto(p, label, local),
         UNCHANGED <<now, ttl, media, msg, dissolvedAt>>,
         DeadlineAt(label, local, msg, dissolvedAt)
  PROVE  Deadlines'
<1>1. SameSend
  BY DEF SameSend
<1>2. DeadlineKept(msg, dissolvedAt) /\ MarkedInTime(msg, dissolvedAt)
  BY DEF Deadlines
<1> QED
  BY <1>1, <1>2, DeadlineGoto

\* Statements that have nothing to do with deadlines.
Indifferent == Labels \ ({"admit", "markUpdate", "dissolveTx"} \cup RevealSteps)

LEMMA DeadlineIndifferent ==
  ASSUME NEW label \in Indifferent, NEW local, NEW m, NEW dissolved
  PROVE  DeadlineAt(label, local, m, dissolved)
BY DEF Indifferent, DeadlineAt, RevealSteps

LEMMA DeadlineInit == Init => Deadlines
BY DEF Init, Deadlines, DeadlineAt, DeadlineKept, MarkedInTime, RevealSteps,
       NoLocal, NoRow

LEMMA DeadlineRequestStart ==
  ASSUME TypeOK, Order, Deadlines, NEW p \in Requests, RequestStart(p)
  PROVE  Deadlines'
<1>0. p \in Procs
  BY DEF Procs
<1>1. CASE SendStart(p)
  <2>1. DeadlineAt("admit", Begin("send", Sender), msg, dissolvedAt)
    BY DEF DeadlineAt, RevealSteps, Begin, NoLocal
  <2> QED
    BY <1>0, <1>1, <2>1, DeadlineQuiet DEF SendStart, world, rows
<1>2. CASE RecallLoad(p) \/ DestroyLoad(p)
  <2>1. {"recallWrite", "destroyWrite"} \subseteq Indifferent
    BY DEF Indifferent, Labels, RevealSteps
  <2> QED
    BY <1>0, <1>2, <2>1, DeadlineIndifferent, DeadlineQuiet
    DEF RecallLoad, DestroyLoad, world, rows
<1>3. CASE DissolveLoad(p)
  <2>1. [Begin("dissolve", Sender) EXCEPT !.t = now].t = now
    BY DEF Begin, NoLocal
  <2>2. DeadlineAt("dissolveTx", [Begin("dissolve", Sender) EXCEPT !.t = now],
                   msg, dissolvedAt)
    BY <2>1 DEF DeadlineAt, RevealSteps, Deadlines
  <2> QED
    BY <1>0, <1>3, <2>2, DeadlineQuiet DEF DissolveLoad, world, rows
<1>4. ASSUME NEW u \in Users, RevealLoad(p, u)
      PROVE  Deadlines'
  <2>1. [Begin("reveal", u) EXCEPT !.stamp = msg.destroyAt].stamp
          = msg.destroyAt
    BY DEF Begin, NoLocal
  <2>2. msg.row = "stored" /\ ttl # 0
    BY <1>4 DEF RevealLoad, Live, Stored
  <2>3. DeadlineAt("admit",
                   [Begin("reveal", u) EXCEPT !.stamp = msg.destroyAt],
                   msg, dissolvedAt)
    BY <2>1, <2>2 DEF DeadlineAt, RevealSteps, Deadlines, DeadlineKept
  <2> QED
    BY <1>0, <1>4, <2>3, DeadlineQuiet DEF RevealLoad, world, rows
<1>5. ASSUME NEW u \in Users,
             ConsumeLoad(p, u) \/ ListStart(p, u) \/ AckStart(p, u)
      PROVE  Deadlines'
  <2>1. \A op \in {"consume", "list", "ack"} :
          DeadlineAt("admit", Begin(op, u), msg, dissolvedAt)
    BY DEF DeadlineAt, RevealSteps, Begin, NoLocal
  <2> QED
    BY <1>0, <1>5, <2>1, DeadlineQuiet
    DEF ConsumeLoad, ListStart, AckStart, world, rows
<1> QED
  BY <1>1, <1>2, <1>3, <1>4, <1>5 DEF RequestStart

LEMMA DeadlineSend ==
  ASSUME TypeOK, Order, Deadlines, NEW p \in Procs,
         \/ Admit(p) \/ SendConv(p) \/ SendMembers(p)
         \/ SendSave(p) \/ SendReceipts(p)
  PROVE  Deadlines'
<1>0. /\ DeadlineAt(pc[p], loc[p], msg, dissolvedAt)
      /\ OrderAt(p, pc[p], loc[p], msg)
      /\ loc[p] \in Local
      /\ {"idle", "sendMembers", "sendSave", "sendReceipts"}
           \subseteq Indifferent
  BY DEF Deadlines, Order, TypeOK, Indifferent, Labels, RevealSteps
<1>1. CASE Admit(p)
  <2>1. CASE Done(p)
    BY <1>0, <1>1, <2>1, DeadlineIndifferent, DeadlineQuiet
    DEF Admit, Done, world, rows
  <2>2. CASE /\ loc[p].op \in DOMAIN AfterAdmit
             /\ Goto(p, AfterAdmit[loc[p].op], [loc[p] EXCEPT !.t = now])
    <3>1. /\ AfterAdmit["reveal"] = "revealReceipt"
          /\ \A op \in DOMAIN AfterAdmit \ {"reveal"} :
               AfterAdmit[op] \in Indifferent
      BY DEF AfterAdmit, Indifferent, Labels, RevealSteps
    <3>2. /\ [loc[p] EXCEPT !.t = now].op = loc[p].op
          /\ [loc[p] EXCEPT !.t = now].stamp = loc[p].stamp
      BY <1>0 DEF Local
    <3>3. pc[p] = "admit"
      BY <1>1 DEF Admit, At
    <3>4. CASE loc[p].op = "reveal"
      <4>1. DeadlineAt("revealReceipt", [loc[p] EXCEPT !.t = now], msg,
                       dissolvedAt)
        BY <1>0, <3>2, <3>3, <3>4 DEF DeadlineAt, RevealSteps
      <4> QED
        BY <1>1, <2>2, <3>1, <3>4, <4>1, DeadlineQuiet DEF Admit, world, rows
    <3>5. CASE loc[p].op # "reveal"
      <4>1. DeadlineAt(AfterAdmit[loc[p].op], [loc[p] EXCEPT !.t = now], msg,
                       dissolvedAt)
        BY <2>2, <3>1, <3>5, DeadlineIndifferent
      <4> QED
        BY <1>1, <2>2, <4>1, DeadlineQuiet DEF Admit, world, rows
    <3> QED
      BY <3>4, <3>5
  <2> QED
    BY <1>1, <2>1, <2>2 DEF Admit
<1>2. CASE SendConv(p)
  BY <1>0, <1>2, DeadlineIndifferent, DeadlineQuiet
  DEF SendConv, Done, world, rows
<1>3. CASE SendMembers(p)
  BY <1>0, <1>3, DeadlineIndifferent, DeadlineQuiet DEF SendMembers, world, rows
<1>4. CASE SendSave(p)
  <2>1. msg.row = "absent"
    BY <1>0, <1>4 DEF SendSave, At, OrderAt, SendSteps
  <2>2. /\ msg'.row = "stored" /\ msg'.sentAt = now /\ msg'.reason = "none"
        /\ msg'.destroyAt = IF ttl = 0 THEN Null ELSE Promised(now)
    BY <1>4 DEF SendSave, NoRow
  <2>3. Promised(now) \in Nat
    BY DurationsTyped DEF TypeOK
  <2>4. /\ SameSend
        /\ DeadlineKept(msg', dissolvedAt')
        /\ MarkedInTime(msg', dissolvedAt')
    BY <2>1, <2>2, <2>3 DEF SameSend, DeadlineKept, MarkedInTime
  <2>5. DeadlineAt("sendReceipts", loc[p], msg', dissolvedAt')
    BY <1>0, DeadlineIndifferent
  <2> QED
    BY <1>4, <2>4, <2>5, DeadlineGoto DEF SendSave, world
<1>5. CASE SendReceipts(p)
  BY <1>0, <1>5, DeadlineIndifferent, DeadlineQuiet
  DEF SendReceipts, Done, world
<1> QED
  BY <1>1, <1>2, <1>3, <1>4, <1>5

LEMMA DeadlineReveal ==
  ASSUME TypeOK, Order, Deadlines, NEW p \in Procs,
         \/ RevealReceipt(p) \/ RevealCreate(p) \/ RevealStart(p)
         \/ RevealExtend(p) \/ RevealReply(p)
  PROVE  Deadlines'
<1>0. /\ DeadlineAt(pc[p], loc[p], msg, dissolvedAt)
      /\ loc[p] \in Local
      /\ loc[p].t \in Nat /\ loc[p].stamp \in Nat
      /\ Window \in Nat
      /\ "idle" \in Indifferent
  BY DurationsTyped
  DEF Deadlines, TypeOK, Local, Indifferent, Labels, RevealSteps
<1>1. ASSUME pc[p] \in RevealSteps,
             NEW label \in RevealSteps,
             label = "revealExtend" => loc[p].t + Window > loc[p].stamp
      PROVE  DeadlineAt(label, loc[p], msg, dissolvedAt)
  BY <1>0, <1>1 DEF DeadlineAt, RevealSteps
<1>2. DeadlineAt("idle", NoLocal, msg, dissolvedAt)
  BY <1>0, DeadlineIndifferent
<1>3. CASE RevealReceipt(p)
  BY <1>1, <1>2, <1>3, DeadlineQuiet
  DEF RevealReceipt, At, RevealSteps, Done, world, rows
<1>4. CASE RevealCreate(p)
  BY <1>1, <1>2, <1>4, DeadlineQuiet
  DEF RevealCreate, At, RevealSteps, Done, world
<1>5. CASE RevealStart(p)
  BY <1>1, <1>5, DeadlineQuiet DEF RevealStart, At, RevealSteps, world
<1>6. CASE RevealExtend(p)
  <2>1. /\ pc[p] = "revealExtend"
        /\ UNCHANGED <<now, ttl, media, dissolvedAt>>
        /\ Goto(p, "revealReply", loc[p])
    BY <1>6 DEF RevealExtend, At, world
  <2>2. /\ msg'.row = msg.row /\ msg'.sentAt = msg.sentAt
        /\ msg'.reason = msg.reason /\ msg'.destroyedAt = msg.destroyedAt
        /\ msg.row = "stored" => msg'.destroyAt = loc[p].t + Window
    BY <1>6 DEF RevealExtend, TypeOK, Row, Stored
  <2>3. /\ ttl # 0
        /\ loc[p].t + Window > loc[p].stamp
        /\ (msg.row = "stored" /\ dissolvedAt = Null) =>
             loc[p].stamp >= Promised(msg.sentAt)
    BY <1>0, <2>1 DEF DeadlineAt, RevealSteps
  <2>4. Promised(msg.sentAt) \in Nat
    BY DurationsTyped DEF TypeOK, Row
  <2>5. DeadlineKept(msg', dissolvedAt')
    BY <1>0, <2>1, <2>2, <2>3, <2>4 DEF DeadlineKept
  <2>6. MarkedInTime(msg', dissolvedAt') /\ SameSend
    BY <2>1, <2>2 DEF Deadlines, MarkedInTime, SameSend
  <2>7. DeadlineAt("revealReply", loc[p], msg', dissolvedAt')
    BY <1>0, <2>1, <2>2 DEF DeadlineAt, RevealSteps
  <2> QED
    BY <2>1, <2>5, <2>6, <2>7, DeadlineGoto
<1>7. CASE RevealReply(p)
  BY <1>2, <1>7, DeadlineQuiet DEF RevealReply, Done, world, rows
<1> QED
  BY <1>3, <1>4, <1>5, <1>6, <1>7

\* Handlers of the reading, acknowledging and purging kind neither read nor
\* write a deadline.
LEMMA DeadlineAside ==
  ASSUME TypeOK, Order, Deadlines, NEW p \in Procs,
         \/ ConsumeReceipt(p) \/ ConsumeWrite(p) \/ ListLoad(p) \/ ListReceipt(p)
         \/ AckLoad(p) \/ AckUpsert(p) \/ PolicyCount(p) \/ PolicyNeed(p)
         \/ PurgeLoad(p) \/ PurgeFiles(p) \/ SweepSelect(p)
  PROVE  Deadlines'
<1>0. {"idle", "consumeWrite", "listReceipt", "ackUpsert", "policyCount",
       "policyNeed", "purgeLoad", "purgeTx"} \subseteq Indifferent
  BY DEF Indifferent, Labels, RevealSteps
<1>1. ASSUME NEW label \in Indifferent, NEW local, Goto(p, label, local),
             UNCHANGED <<now, ttl, media, msg, dissolvedAt>>
      PROVE  Deadlines'
  BY <1>1, DeadlineIndifferent, DeadlineQuiet
<1>2. CASE ConsumeReceipt(p) \/ ConsumeWrite(p) \/ ListLoad(p) \/ ListReceipt(p)
  BY <1>0, <1>1, <1>2
  DEF ConsumeReceipt, ConsumeWrite, ListLoad, ListReceipt, Done, world, rows
<1>3. CASE AckLoad(p) \/ AckUpsert(p) \/ PolicyCount(p) \/ PolicyNeed(p)
  BY <1>0, <1>1, <1>3
  DEF AckLoad, AckUpsert, PolicyCount, PolicyNeed, ToPurge, Done, world, rows
<1>4. CASE PurgeLoad(p) \/ PurgeFiles(p) \/ SweepSelect(p)
  BY <1>0, <1>1, <1>4
  DEF PurgeLoad, PurgeFiles, SweepSelect, ToPurge, Done, world, rows
<1> QED
  BY <1>2, <1>3, <1>4

LEMMA DeadlineWrite ==
  ASSUME TypeOK, Order, Deadlines, NEW p \in Procs,
         RecallWrite(p) \/ PurgeTx(p) \/ DestroyWrite(p) \/ DissolveTx(p)
  PROVE  Deadlines'
<1>0. {"idle", "purgeFiles", "tell"} \subseteq Indifferent
  BY DEF Indifferent, Labels, RevealSteps
<1>1. CASE RecallWrite(p)
  <2>1. /\ msg'.row = msg.row /\ msg'.sentAt = msg.sentAt
        /\ msg'.reason = msg.reason /\ msg'.destroyedAt = msg.destroyedAt
        /\ msg'.destroyAt = msg.destroyAt
        /\ UNCHANGED dissolvedAt
    BY <1>1 DEF RecallWrite, TypeOK, Row
  <2>2. /\ SameSend
        /\ DeadlineKept(msg', dissolvedAt')
        /\ MarkedInTime(msg', dissolvedAt')
    BY <2>1 DEF SameSend, DeadlineKept, MarkedInTime, Deadlines
  <2> QED
    BY <1>0, <1>1, <2>2, DeadlineIndifferent, DeadlineGoto
    DEF RecallWrite, Done, world
<1>2. CASE PurgeTx(p)
  <2>1. msg'.row = "purged" /\ UNCHANGED dissolvedAt
    BY <1>2 DEF PurgeTx, NoRow
  <2>2. /\ SameSend
        /\ DeadlineKept(msg', dissolvedAt')
        /\ MarkedInTime(msg', dissolvedAt')
    BY <2>1 DEF SameSend, DeadlineKept, MarkedInTime
  <2> QED
    BY <1>0, <1>2, <2>2, DeadlineIndifferent, DeadlineGoto DEF PurgeTx, world
<1>3. CASE DestroyWrite(p)
  <2>1. /\ msg'.row = msg.row /\ msg'.sentAt = msg.sentAt
        /\ msg'.destroyAt = msg.destroyAt
        /\ msg.row = "stored" => msg'.reason = "manual"
        /\ UNCHANGED dissolvedAt
    BY <1>3 DEF DestroyWrite, Stamp, Destroyed, TypeOK, Row, Stored
  <2>2. /\ SameSend
        /\ DeadlineKept(msg', dissolvedAt')
        /\ MarkedInTime(msg', dissolvedAt')
    BY <2>1 DEF SameSend, DeadlineKept, MarkedInTime, Deadlines
  <2> QED
    BY <1>0, <1>3, <2>2, DeadlineIndifferent, DeadlineGoto
    DEF DestroyWrite, world
<1>4. CASE DissolveTx(p)
  <2>1. DeadlineAt(pc[p], loc[p], msg, dissolvedAt)
    BY DEF Deadlines
  <2>2. dissolvedAt' # Null
    BY <1>4, <2>1 DEF DissolveTx, At, DeadlineAt
  <2>3. msg'.row = msg.row
    BY <1>4 DEF DissolveTx, TypeOK, Row
  <2>4. /\ SameSend
        /\ DeadlineKept(msg', dissolvedAt')
        /\ MarkedInTime(msg', dissolvedAt')
    BY <2>2, <2>3 DEF SameSend, DeadlineKept, MarkedInTime
  <2> QED
    BY <1>0, <1>4, <2>4, DeadlineIndifferent, DeadlineGoto
    DEF DissolveTx, Done, world
<1> QED
  BY <1>1, <1>2, <1>3, <1>4

\* Rule R1 selects by the deadline of the row and marks with the clock it
\* selected by: it is in time even if the row changed in between.
LEMMA DeadlineMark ==
  ASSUME TypeOK, Order, Deadlines, NEW p \in Procs,
         MarkSelect(p) \/ MarkUpdate(p) \/ Tell(p)
  PROVE  Deadlines'
<1>0. /\ DeadlineAt(pc[p], loc[p], msg, dissolvedAt)
      /\ {"idle", "markSelect", "tell"} \subseteq Indifferent
      /\ loc[p].t \in Nat
  BY DEF Deadlines, Indifferent, Labels, RevealSteps, TypeOK, Local
<1>1. ASSUME NextRule(p) \/ Done(p),
             UNCHANGED <<now, ttl, media, msg, dissolvedAt>>
      PROVE  Deadlines'
  BY <1>0, <1>1, DeadlineIndifferent, DeadlineQuiet DEF NextRule, Done
<1>2. CASE MarkSelect(p)
  <2>1. CASE NextRule(p)
    BY <1>1, <1>2, <2>1 DEF MarkSelect, world, rows
  <2>2. CASE /\ Goto(p, "markUpdate", loc[p])
             /\ \/ loc[p].reason = "fallback_expired" /\ Overdue(loc[p].t)
                \/ loc[p].reason = "all_read"
    <3>1. Promised(msg.sentAt) \in Nat /\ msg.destroyAt \in Nat
      BY DurationsTyped DEF TypeOK, Row
    <3>2. pc[p] = "markSelect"
      BY <1>2 DEF MarkSelect, At
    <3>3. DeadlineAt("markUpdate", loc[p], msg, dissolvedAt)
      BY <1>0, <2>2, <3>1
      DEF DeadlineAt, RevealSteps, Overdue, Deadlines, DeadlineKept
    <3> QED
      BY <1>2, <2>2, <3>3, DeadlineQuiet DEF MarkSelect, world, rows
  <2> QED
    BY <1>2, <2>1, <2>2 DEF MarkSelect
<1>3. CASE MarkUpdate(p)
  <2>1. /\ msg'.row = msg.row /\ msg'.sentAt = msg.sentAt
        /\ msg'.destroyAt = msg.destroyAt
        /\ \/ msg'.reason = msg.reason /\ msg'.destroyedAt = msg.destroyedAt
           \/ msg'.reason = loc[p].reason /\ msg'.destroyedAt = loc[p].t
        /\ UNCHANGED dissolvedAt
        /\ pc[p] = "markUpdate"
    BY <1>3 DEF MarkUpdate, Stamp, Destroyed, TypeOK, Row, At
  <2>2. MarkedInTime(msg', dissolvedAt')
    BY <1>0, <2>1 DEF MarkedInTime, Deadlines, DeadlineAt
  <2>3. SameSend /\ DeadlineKept(msg', dissolvedAt')
    BY <2>1 DEF SameSend, DeadlineKept, Deadlines
  <2> QED
    BY <1>0, <1>3, <2>2, <2>3, DeadlineIndifferent, DeadlineGoto
    DEF MarkUpdate, world
<1>4. CASE Tell(p)
  BY <1>1, <1>4 DEF Tell, world, rows
<1> QED
  BY <1>2, <1>3, <1>4

LEMMA DeadlineStep ==
  ASSUME TypeOK, Order, Deadlines, [Next]_vars
  PROVE  Deadlines'
<1>1. ASSUME NEW p \in Procs, Continue(p)
      PROVE  Deadlines'
  BY <1>1, DeadlineSend, DeadlineReveal, DeadlineAside, DeadlineWrite,
     DeadlineMark
  DEF Continue
<1>2. ASSUME NEW p \in Markers \cup Sweepers, MarkStart(p) \/ SweepStart(p)
      PROVE  Deadlines'
  <2>1. p \in Procs /\ {"markSelect", "sweepSelect"} \subseteq Indifferent
    BY DEF Procs, Indifferent, Labels, RevealSteps
  <2> QED
    BY <1>2, <2>1, DeadlineIndifferent, DeadlineQuiet
    DEF MarkStart, SweepStart, world, rows
<1>3. CASE (\E u \in Movers : Move(u)) \/ Tick \/ UNCHANGED vars
  <2>1. UNCHANGED <<ttl, media, msg, dissolvedAt, pc, loc>> /\ now' # Null
    BY <1>3 DEF Move, Tick, vars, world, rows, Deadlines, TypeOK
  <2>2. Window' = Window /\ \A s : Promised(s)' = Promised(s)
    BY <2>1 DEF Window, Promised
  <2> QED
    BY <2>1, <2>2 DEF Deadlines, DeadlineAt, DeadlineKept, MarkedInTime
<1>4. CASE Crash
  <2>1. /\ UNCHANGED <<now, ttl, media, msg, dissolvedAt>>
        /\ \A p \in Procs : pc'[p] = "idle" /\ loc'[p] = NoLocal
    BY <1>4 DEF Crash, rows
  <2>2. \A s : Promised(s)' = Promised(s)
    BY <2>1 DEF Promised
  <2>3. NoLocal.op # "reveal"
    BY DEF NoLocal
  <2> QED
    BY <2>1, <2>2, <2>3
    DEF Deadlines, DeadlineAt, DeadlineKept, MarkedInTime, RevealSteps
<1> QED
  BY <1>1, <1>2, <1>3, <1>4, DeadlineRequestStart DEF Next

THEOREM DeadlinesCorrect == Spec => []Deadlines
<1>1. TypeOK /\ Order /\ Deadlines /\ [Next]_vars => Deadlines'
  BY DeadlineStep
<1> QED
  BY <1>1, DeadlineInit, TypeCorrect, OrderCorrect, PTL DEF Spec

\* Unless the owner dissolves the conversation, rule R1 destroys a burn
\* message no earlier than its ttl and the fallback after it was sent,
\* whatever reveals and administrators write to the row meanwhile.
THEOREM PromiseCorrect == Spec => []PromisedTtlKept
<1>1. TypeOK /\ Deadlines => PromisedTtlKept
  <2> SUFFICES ASSUME TypeOK, Deadlines, Stored, dissolvedAt = Null,
                      msg.reason = "fallback_expired"
               PROVE  /\ ttl # 0
                      /\ msg.destroyedAt >= msg.sentAt + ttl
                      /\ msg.destroyedAt >= msg.sentAt + Fallback
    BY DEF PromisedTtlKept
  <2>1. ttl # 0 /\ msg.destroyedAt >= Promised(msg.sentAt)
    BY DEF Deadlines, MarkedInTime, Stored
  <2>2. /\ msg.sentAt \in Nat /\ msg.destroyedAt \in Nat
        /\ ttl \in Nat /\ Fallback \in Nat
    BY DurationsAssumption DEF TypeOK, Row
  <2> QED
    BY <2>1, <2>2, DurationsTyped
<1> QED
  BY <1>1, TypeCorrect, DeadlinesCorrect, PTL
-----------------------------------------------------------------------------
(***************************************************************************)
(* Proof that content is read with a running timer and that rule R2 acts   *)
(* on a reader who exists.  A reveal answers two statements after it wrote *)
(* the receipt, and R2 marks one statement after it looked at the receipts *)
(* of everybody; the invariant says what those handlers may still rely on  *)
(* while other reveals, the late receipts of the send and a purge go on.   *)
(***************************************************************************)

Opened(receipt) == receipt.exists /\ receipt.revealedAt # Null

\* Somebody other than the sender has opened, according to the receipts r.
HasReader(r) == \E u \in Users \ {Sender} : Opened(r[u])

\* What a handler remembers of the receipts is still true of them.
ReceiptAt(label, local, m, r) ==
  /\ label \in RevealSteps => local.t # Null
  /\ (label \in {"revealStart", "revealExtend", "revealReply"}
        /\ m.row = "stored") => r[local.user].exists
  /\ (label \in {"revealExtend", "revealReply"} /\ m.row = "stored")
       => Opened(r[local.user])
  /\ label = "listReceipt" => m.row # "absent"
  /\ (label = "markUpdate" /\ local.reason = "all_read" /\ m.row = "stored")
       => HasReader(r)

\* An opening is recorded in a receipt that exists.
Solid(r) == \A u \in Users : r[u].revealedAt # Null => Opened(r[u])

\* AllReadHasAReader and DeliveredMeansTimed of the rows m and r.
ReaderBehind(m, r) == (m.row = "stored" /\ m.reason = "all_read") => HasReader(r)

TimerBehind(m, r, d) ==
  (m.row = "stored" /\ ttl # 0) => \A u \in d : Opened(r[u])

Reading ==
  /\ \A p \in Procs : ReceiptAt(pc[p], loc[p], msg, receipts)
  /\ Solid(receipts)
  /\ msg.row = "absent" => delivered = {}
  /\ ReaderBehind(msg, receipts)
  /\ TimerBehind(msg, receipts, delivered)

\* While the row stays, no receipt is lost or closed again.
Kept ==
  /\ msg.row # "absent" => msg'.row # "absent"
  /\ msg'.row = "stored" =>
       \/ msg.row = "absent"
       \/ /\ msg.row = "stored"
          /\ \A u \in Users :
               /\ receipts[u].exists => receipts'[u].exists
               /\ Opened(receipts[u]) => Opened(receipts'[u])

LEMMA ReadingGoto ==
  ASSUME TypeOK, Order, Deadlines, Reading,
         NEW p \in Procs, NEW label, NEW local, Goto(p, label, local),
         UNCHANGED ttl, Kept,
         ReceiptAt(label, local, msg', receipts'),
         Solid(receipts'),
         msg'.row = "absent" => delivered' = {},
         ReaderBehind(msg', receipts'),
         TimerBehind(msg', receipts', delivered')
  PROVE  Reading'
<1>1. /\ pc'[p] = label /\ loc'[p] = local
      /\ \A q \in Procs : q # p => pc'[q] = pc[q] /\ loc'[q] = loc[q]
  BY DEF Goto, TypeOK
<1>2. ASSUME NEW q \in Procs
      PROVE  ReceiptAt(pc'[q], loc'[q], msg', receipts')
  <2>1. CASE q = p
    BY <1>1, <2>1
  <2>2. CASE q # p
    <3>1. /\ ReceiptAt(pc[q], loc[q], msg, receipts)
          /\ DeadlineAt(pc[q], loc[q], msg, dissolvedAt)
          /\ OrderAt(q, pc[q], loc[q], msg)
          /\ loc[q].user \in Users
      BY DEF Reading, Deadlines, Order, TypeOK, Local
    <3>2. CASE msg'.row = "stored" /\ msg.row = "absent"
      <4>1. pc[q] \notin RevealSteps \cup {"markUpdate", "listReceipt"}
        BY <3>1, <3>2 DEF ReceiptAt, DeadlineAt, OrderAt, RevealSteps
      <4> QED
        BY <1>1, <2>2, <4>1 DEF ReceiptAt, RevealSteps
    <3>3. CASE msg'.row = "stored" /\ msg.row # "absent"
      <4>1. /\ msg.row = "stored"
            /\ receipts[loc[q].user].exists => receipts'[loc[q].user].exists
            /\ Opened(receipts[loc[q].user]) => Opened(receipts'[loc[q].user])
            /\ HasReader(receipts) => HasReader(receipts')
        BY <3>1, <3>3 DEF Kept, HasReader
      <4> QED
        BY <1>1, <2>2, <3>1, <3>3, <4>1 DEF ReceiptAt
    <3>4. CASE msg'.row # "stored"
      BY <1>1, <2>2, <3>1, <3>4 DEF ReceiptAt, Kept
    <3> QED
      BY <3>2, <3>3, <3>4
  <2> QED
    BY <2>1, <2>2
<1>3. TimerBehind(msg, receipts, delivered)'
  BY DEF TimerBehind
<1> QED
  BY <1>2, <1>3 DEF Reading, ReceiptAt, Solid, ReaderBehind, HasReader, Opened

\* The common case: receipts and row stay, nobody is handed anything.
LEMMA ReadingQuiet ==
  ASSUME TypeOK, Order, Deadlines, Reading,
         NEW p \in Procs, NEW label, NEW local, Goto(p, label, local),
         UNCHANGED <<ttl, msg, receipts, delivered>>,
         ReceiptAt(label, local, msg, receipts)
  PROVE  Reading'
<1>1. Kept
  BY DEF Kept
<1>2. /\ Solid(receipts) /\ ReaderBehind(msg, receipts)
      /\ TimerBehind(msg, receipts, delivered)
      /\ msg.row = "absent" => delivered = {}
  BY DEF Reading
<1> QED
  BY <1>1, <1>2, ReadingGoto

\* Statements that rely on no receipt.
Blind == Labels \ ({"listReceipt", "markUpdate"} \cup RevealSteps)

LEMMA ReadingBlind ==
  ASSUME NEW label \in Blind, NEW local, NEW m, NEW r
  PROVE  ReceiptAt(label, local, m, r)
BY DEF Blind, ReceiptAt, RevealSteps

LEMMA BlindLabels ==
  {"idle", "admit", "sendConv", "sendMembers", "sendSave", "sendReceipts",
   "consumeReceipt", "consumeWrite", "listLoad", "recallWrite", "ackLoad",
   "ackUpsert", "policyCount", "policyNeed", "purgeLoad", "purgeTx",
   "purgeFiles", "sweepSelect", "markSelect", "destroyWrite", "tell",
   "dissolveTx"} \subseteq Blind
BY DEF Blind, Labels, RevealSteps

\* A handler that goes to such a statement and leaves the rows alone.
LEMMA ReadingAside ==
  ASSUME TypeOK, Order, Deadlines, Reading,
         NEW p \in Procs, NEW label \in Blind, NEW local,
         Goto(p, label, local),
         UNCHANGED <<ttl, msg, receipts, delivered>>
  PROVE  Reading'
BY ReadingBlind, ReadingQuiet

LEMMA ReadingInit == Init => Reading
<1> SUFFICES ASSUME Init PROVE Reading
  OBVIOUS
<1>1. \A p \in Procs : ReceiptAt(pc[p], loc[p], msg, receipts)
  BY DEF Init, ReceiptAt, RevealSteps
<1> QED
  BY <1>1 DEF Init, Reading, Solid, ReaderBehind, TimerBehind, NoRow, NoReceipt

\* What no handler but the one that writes it can change: a step that leaves
\* row and receipts alone keeps every claim about them.
LEMMA ReadingRequestStart ==
  ASSUME TypeOK, Order, Deadlines, Reading, NEW p \in Requests,
         RequestStart(p)
  PROVE  Reading'
<1>0. p \in Procs
  BY DEF Procs
<1>1. CASE SendStart(p) \/ RecallLoad(p) \/ DestroyLoad(p) \/ DissolveLoad(p)
  BY <1>0, <1>1, BlindLabels, ReadingAside
  DEF SendStart, RecallLoad, DestroyLoad, DissolveLoad, world, rows, history
<1>2. ASSUME NEW u \in Users,
             RevealLoad(p, u) \/ ConsumeLoad(p, u) \/ ListStart(p, u)
               \/ AckStart(p, u)
      PROVE  Reading'
  BY <1>0, <1>2, BlindLabels, ReadingAside
  DEF RevealLoad, ConsumeLoad, ListStart, AckStart, world, rows, history
<1> QED
  BY <1>1, <1>2 DEF RequestStart

LEMMA ReadingSend ==
  ASSUME TypeOK, Order, Deadlines, Reading, NEW p \in Procs,
         \/ Admit(p) \/ SendConv(p) \/ SendMembers(p)
         \/ SendSave(p) \/ SendReceipts(p)
  PROVE  Reading'
<1>0. /\ OrderAt(p, pc[p], loc[p], msg)
      /\ Solid(receipts) /\ TimerBehind(msg, receipts, delivered)
      /\ ReaderBehind(msg, receipts)
      /\ msg.row = "absent" => delivered = {}
  BY DEF Order, Reading
<1>1. CASE Admit(p)
  <2>1. CASE Done(p)
    BY <1>1, <2>1, BlindLabels, ReadingAside DEF Admit, Done, world, rows, history
  <2>2. CASE /\ loc[p].op \in DOMAIN AfterAdmit
             /\ Goto(p, AfterAdmit[loc[p].op], [loc[p] EXCEPT !.t = now])
    <3>1. [loc[p] EXCEPT !.t = now].t = now /\ now # Null
      BY DEF TypeOK, Local, Deadlines
    <3>2. \A op \in DOMAIN AfterAdmit :
            AfterAdmit[op] \in Blind \/ AfterAdmit[op] = "revealReceipt"
      BY BlindLabels DEF AfterAdmit
    <3>3. ReceiptAt(AfterAdmit[loc[p].op], [loc[p] EXCEPT !.t = now],
                    msg, receipts)
      <4>1. CASE AfterAdmit[loc[p].op] \in Blind
        BY <4>1, ReadingBlind
      <4>2. CASE AfterAdmit[loc[p].op] = "revealReceipt"
        BY <3>1, <4>2 DEF ReceiptAt
      <4> QED
        BY <2>2, <3>2, <4>1, <4>2
    <3> QED
      BY <1>1, <2>2, <3>3, ReadingQuiet DEF Admit, world, rows, history
  <2> QED
    BY <1>1, <2>1, <2>2 DEF Admit
<1>2. CASE SendConv(p) \/ SendMembers(p)
  BY <1>2, BlindLabels, ReadingAside
  DEF SendConv, SendMembers, Done, world, rows, history
<1>3. CASE SendSave(p)
  <2>1. /\ msg.row = "absent" /\ msg'.row = "stored" /\ msg'.reason = "none"
        /\ UNCHANGED <<ttl, receipts, delivered>>
        /\ Goto(p, "sendReceipts", loc[p])
    BY <1>0, <1>3
    DEF SendSave, At, OrderAt, SendSteps, NoRow, world, history
  <2>2. /\ Kept
        /\ ReaderBehind(msg', receipts')
        /\ TimerBehind(msg', receipts', delivered')
        /\ Solid(receipts')
    BY <1>0, <2>1 DEF Kept, ReaderBehind, TimerBehind
  <2>3. ReceiptAt("sendReceipts", loc[p], msg', receipts')
    BY BlindLabels, ReadingBlind
  <2> QED
    BY <2>1, <2>2, <2>3, ReadingGoto
<1>4. CASE SendReceipts(p)
  <2>1. /\ UNCHANGED <<ttl, msg, delivered>>
        /\ Goto(p, "idle", NoLocal)
        /\ \A u \in Users : receipts'[u] \in {receipts[u], FreshReceipt}
        /\ \A u \in Users : receipts[u].exists => receipts'[u] = receipts[u]
    BY <1>4 DEF SendReceipts, Done, world, history, TypeOK
  <2>2. ~ FreshReceipt.revealedAt # Null /\ FreshReceipt.exists
    BY DEF FreshReceipt, NoReceipt
  <2>3. \A u \in Users : Opened(receipts[u]) => Opened(receipts'[u])
    BY <2>1 DEF Opened
  <2>4. Solid(receipts')
    BY <1>0, <2>1, <2>2 DEF Solid
  <2>5. delivered \subseteq Users
    BY DEF TypeOK
  <2>6. /\ ReaderBehind(msg', receipts')
        /\ TimerBehind(msg', receipts', delivered')
        /\ msg'.row = "absent" => delivered' = {}
    BY <1>0, <2>1, <2>3, <2>5 DEF ReaderBehind, HasReader, TimerBehind
  <2>7. Kept
    BY <2>1, <2>3 DEF Kept, TypeOK, Row
  <2>8. ReceiptAt("idle", NoLocal, msg', receipts')
    BY BlindLabels, ReadingBlind
  <2> QED
    BY <2>1, <2>4, <2>6, <2>7, <2>8, ReadingGoto
<1> QED
  BY <1>1, <1>2, <1>3, <1>4

LEMMA ReadingReveal ==
  ASSUME TypeOK, Order, Deadlines, Reading, NEW p \in Procs,
         \/ RevealReceipt(p) \/ RevealCreate(p) \/ RevealStart(p)
         \/ RevealExtend(p) \/ RevealReply(p)
  PROVE  Reading'
<1>0. /\ ReceiptAt(pc[p], loc[p], msg, receipts)
      /\ DeadlineAt(pc[p], loc[p], msg, dissolvedAt)
      /\ loc[p].user \in Users /\ loc[p].t \in Nat /\ Window \in Nat
      /\ receipts \in [Users -> Receipt]
      /\ Solid(receipts) /\ ReaderBehind(msg, receipts)
      /\ TimerBehind(msg, receipts, delivered)
      /\ msg.row = "absent" => delivered = {}
  BY DurationsTyped DEF Reading, Deadlines, TypeOK, Local
<1>1. /\ ReceiptAt("idle", NoLocal, msg, receipts)
      /\ "idle" \in Blind
  BY BlindLabels, ReadingBlind
<1>2. CASE RevealReceipt(p)
  <2>1. pc[p] = "revealReceipt" /\ loc[p].t # Null
    BY <1>0, <1>2 DEF RevealReceipt, At, ReceiptAt, RevealSteps
  <2>2. CASE Done(p)
    BY <1>1, <1>2, <2>2, ReadingAside
    DEF RevealReceipt, Done, world, rows, history
  <2>3. ASSUME NEW label \in {"revealCreate", "revealStart", "revealReply"},
               Goto(p, label, loc[p]),
               label # "revealCreate" => receipts[loc[p].user].exists,
               label = "revealReply" => receipts[loc[p].user].revealedAt # Null
        PROVE  Reading'
    <3>1. ReceiptAt(label, loc[p], msg, receipts)
      BY <2>1, <2>3 DEF ReceiptAt, Opened
    <3> QED
      BY <1>2, <2>3, <3>1, ReadingQuiet DEF RevealReceipt, world, rows, history
  <2> QED
    BY <1>2, <2>2, <2>3 DEF RevealReceipt
<1>3. CASE RevealCreate(p)
  <2>1. pc[p] = "revealCreate" /\ loc[p].t # Null
    BY <1>0, <1>3 DEF RevealCreate, At, ReceiptAt, RevealSteps
  <2>2. CASE receipts[loc[p].user].exists
    BY <1>1, <1>3, <2>2, ReadingAside
    DEF RevealCreate, Done, world, history
  <2>3. CASE ~ receipts[loc[p].user].exists
    <3>1. /\ receipts' = [receipts EXCEPT ![loc[p].user] = FreshReceipt]
          /\ Goto(p, "revealStart", loc[p])
          /\ UNCHANGED <<ttl, msg, delivered>>
      BY <1>3, <2>3 DEF RevealCreate, world, history
    <3>2. FreshReceipt.exists /\ FreshReceipt.revealedAt = Null
      BY DEF FreshReceipt, NoReceipt
    <3>3. /\ receipts'[loc[p].user].exists
          /\ \A u \in Users :
               /\ receipts[u].exists => receipts'[u] = receipts[u]
               /\ Opened(receipts[u]) => Opened(receipts'[u])
               /\ receipts'[u] \in {receipts[u], FreshReceipt}
      BY <1>0, <2>3, <3>1, <3>2 DEF Opened
    <3>4. Solid(receipts')
      BY <1>0, <3>2, <3>3 DEF Solid
    <3>5. Kept
      BY <3>1, <3>3 DEF Kept, TypeOK, Row
    <3>6. /\ ReaderBehind(msg', receipts')
          /\ TimerBehind(msg', receipts', delivered')
      BY <1>0, <3>1, <3>3 DEF ReaderBehind, HasReader, TimerBehind, TypeOK
    <3>7. ReceiptAt("revealStart", loc[p], msg', receipts')
      BY <2>1, <3>3 DEF ReceiptAt
    <3> QED
      BY <1>0, <3>1, <3>4, <3>5, <3>6, <3>7, ReadingGoto
  <2> QED
    BY <2>2, <2>3
<1>4. CASE RevealStart(p)
  <2>1. /\ pc[p] = "revealStart" /\ loc[p].t # Null
        /\ msg.row = "stored" => receipts[loc[p].user].exists
    BY <1>0, <1>4 DEF RevealStart, At, ReceiptAt, RevealSteps
  <2>2. /\ UNCHANGED <<ttl, msg, delivered>>
        /\ \/ Goto(p, "revealExtend", loc[p])
           \/ Goto(p, "revealReply", loc[p])
    BY <1>4 DEF RevealStart, world, history
  <2>3. /\ receipts[loc[p].user].exists => Opened(receipts'[loc[p].user])
        /\ ~ receipts[loc[p].user].exists => receipts' = receipts
        /\ \A u \in Users : u # loc[p].user => receipts'[u] = receipts[u]
        /\ \A u \in Users : receipts[u].exists => receipts'[u].exists
    BY <1>0, <1>4, <2>1 DEF RevealStart, Opened, Receipt
  <2>4. \A u \in Users : Opened(receipts[u]) => Opened(receipts'[u])
    BY <1>0, <2>3 DEF Opened
  <2>5. Solid(receipts') /\ Kept
    BY <1>0, <2>2, <2>3, <2>4 DEF Solid, Kept, TypeOK, Row
  <2>6. ReaderBehind(msg', receipts') /\ TimerBehind(msg', receipts', delivered')
    BY <1>0, <2>2, <2>4 DEF ReaderBehind, HasReader, TimerBehind, TypeOK
  <2>7. \A label \in {"revealExtend", "revealReply"} :
          ReceiptAt(label, loc[p], msg', receipts')
    BY <1>0, <2>1, <2>2, <2>3 DEF ReceiptAt, Opened
  <2> QED
    BY <1>0, <2>2, <2>5, <2>6, <2>7, ReadingGoto
<1>5. CASE RevealExtend(p)
  <2>1. /\ pc[p] = "revealExtend"
        /\ UNCHANGED <<ttl, receipts, delivered>>
        /\ Goto(p, "revealReply", loc[p])
        /\ msg'.row = msg.row /\ msg'.reason = msg.reason
    BY <1>5 DEF RevealExtend, At, world, history, TypeOK, Row
  <2>2. ReceiptAt("revealReply", loc[p], msg', receipts')
    BY <1>0, <2>1 DEF ReceiptAt, RevealSteps
  <2>3. /\ Kept /\ Solid(receipts')
        /\ ReaderBehind(msg', receipts')
        /\ TimerBehind(msg', receipts', delivered')
    BY <1>0, <2>1 DEF Kept, ReaderBehind, TimerBehind
  <2> QED
    BY <1>0, <2>1, <2>2, <2>3, ReadingGoto
<1>6. CASE RevealReply(p)
  <2>1. /\ pc[p] = "revealReply"
        /\ UNCHANGED <<ttl, msg, receipts>>
        /\ Goto(p, "idle", NoLocal)
        /\ delivered' = delivered \cup {loc[p].user}
    BY <1>6 DEF RevealReply, At, Done, world, rows
  <2>2. /\ msg.row # "absent"
        /\ msg.row = "stored" => Opened(receipts[loc[p].user])
    BY <1>0, <2>1 DEF ReceiptAt, DeadlineAt, RevealSteps
  <2>3. Kept /\ TimerBehind(msg', receipts', delivered')
    BY <1>0, <2>1, <2>2 DEF Kept, TimerBehind
  <2> QED
    BY <1>0, <1>1, <2>1, <2>2, <2>3, ReadingGoto
<1> QED
  BY <1>2, <1>3, <1>4, <1>5, <1>6

LEMMA ReadingView ==
  ASSUME TypeOK, Order, Deadlines, Reading, NEW p \in Procs,
         ConsumeReceipt(p) \/ ConsumeWrite(p) \/ ListLoad(p) \/ ListReceipt(p)
  PROVE  Reading'
<1>0. /\ ReceiptAt(pc[p], loc[p], msg, receipts)
      /\ loc[p].user \in Users
      /\ receipts \in [Users -> Receipt]
      /\ Solid(receipts) /\ ReaderBehind(msg, receipts)
      /\ TimerBehind(msg, receipts, delivered)
      /\ msg.row = "absent" => delivered = {}
  BY DEF Reading, TypeOK, Local
<1>1. \A m, r : ReceiptAt("idle", NoLocal, m, r)
  BY BlindLabels, ReadingBlind
<1>2. CASE ConsumeReceipt(p)
  BY <1>2, BlindLabels, ReadingAside
  DEF ConsumeReceipt, Done, world, rows, history
<1>3. CASE ConsumeWrite(p)
  <2>1. /\ UNCHANGED <<ttl, msg, delivered>>
        /\ Goto(p, "idle", NoLocal)
        /\ \A u \in Users : /\ receipts'[u].exists = receipts[u].exists
                            /\ receipts'[u].revealedAt = receipts[u].revealedAt
    BY <1>0, <1>3 DEF ConsumeWrite, Done, world, history, Receipt
  <2>2. \A u \in Users : Opened(receipts'[u]) <=> Opened(receipts[u])
    BY <2>1 DEF Opened
  <2>3. /\ Kept /\ Solid(receipts')
        /\ ReaderBehind(msg', receipts')
        /\ TimerBehind(msg', receipts', delivered')
    BY <1>0, <2>1, <2>2
    DEF Kept, Solid, ReaderBehind, HasReader, TimerBehind, TypeOK, Row
  <2> QED
    BY <1>0, <1>1, <2>1, <2>3, ReadingGoto
<1>4. CASE ListLoad(p)
  <2>1. /\ UNCHANGED <<ttl, msg, receipts>>
        /\ \/ delivered' = delivered
           \/ /\ delivered' = delivered \cup {loc[p].user}
              /\ ttl = 0 /\ msg.row = "stored"
        /\ \/ Goto(p, "idle", NoLocal)
           \/ Goto(p, "listReceipt", loc[p]) /\ msg.row = "stored"
    BY <1>4 DEF ListLoad, Done, Live, Stored, world, rows
  <2>2. Kept
    BY <2>1 DEF Kept
  <2>3. /\ TimerBehind(msg', receipts', delivered')
        /\ msg'.row = "absent" => delivered' = {}
    BY <1>0, <2>1 DEF TimerBehind
  <2>4. msg.row = "stored" => ReceiptAt("listReceipt", loc[p], msg', receipts')
    BY <2>1 DEF ReceiptAt, RevealSteps
  <2> QED
    BY <1>0, <1>1, <2>1, <2>2, <2>3, <2>4, ReadingGoto
<1>5. CASE ListReceipt(p)
  <2>1. /\ pc[p] = "listReceipt"
        /\ UNCHANGED <<ttl, msg, receipts>>
        /\ Goto(p, "idle", NoLocal)
        /\ \/ delivered' = delivered
           \/ /\ delivered' = delivered \cup {loc[p].user}
              /\ receipts[loc[p].user].revealedAt # Null
    BY <1>5 DEF ListReceipt, At, Done, world, rows
  <2>2. msg.row # "absent"
    BY <1>0, <2>1 DEF ReceiptAt
  <2>3. Kept /\ TimerBehind(msg', receipts', delivered')
    BY <1>0, <2>1 DEF Kept, TimerBehind, Solid
  <2> QED
    BY <1>0, <1>1, <2>1, <2>2, <2>3, ReadingGoto
<1> QED
  BY <1>2, <1>3, <1>4, <1>5

LEMMA ReadingAcknowledge ==
  ASSUME TypeOK, Order, Deadlines, Reading, NEW p \in Procs,
         \/ AckLoad(p) \/ AckUpsert(p) \/ PolicyCount(p) \/ PolicyNeed(p)
         \/ PurgeLoad(p) \/ PurgeFiles(p) \/ SweepSelect(p)
  PROVE  Reading'
<1>1. CASE AckLoad(p) \/ AckUpsert(p) \/ PolicyCount(p) \/ PolicyNeed(p)
  BY <1>1, BlindLabels, ReadingAside
  DEF AckLoad, AckUpsert, PolicyCount, PolicyNeed, ToPurge, Done, world, rows,
      history
<1>2. CASE PurgeLoad(p) \/ PurgeFiles(p) \/ SweepSelect(p)
  BY <1>2, BlindLabels, ReadingAside
  DEF PurgeLoad, PurgeFiles, SweepSelect, ToPurge, Done, world, rows, history
<1> QED
  BY <1>1, <1>2

\* Writers of the row that say nothing about readers, and the purge, after
\* which there is no row to speak about.
LEMMA ReadingWrite ==
  ASSUME TypeOK, Order, Deadlines, Reading, NEW p \in Procs,
         RecallWrite(p) \/ PurgeTx(p) \/ DestroyWrite(p) \/ DissolveTx(p)
  PROVE  Reading'
<1>0. /\ Solid(receipts) /\ ReaderBehind(msg, receipts)
      /\ TimerBehind(msg, receipts, delivered)
      /\ msg.row = "absent" => delivered = {}
      /\ \A label \in {"idle", "tell", "purgeFiles"} :
           \A local, m, r : ReceiptAt(label, local, m, r)
  BY BlindLabels, ReadingBlind DEF Reading
<1>1. ASSUME NEW label \in {"idle", "tell"}, NEW local, Goto(p, label, local),
             UNCHANGED <<ttl, receipts, delivered>>, msg'.row = msg.row,
             msg.row = "stored" => msg'.reason \in {msg.reason, "manual"}
      PROVE  Reading'
  <2>1. /\ Kept /\ Solid(receipts')
        /\ ReaderBehind(msg', receipts')
        /\ TimerBehind(msg', receipts', delivered')
    BY <1>0, <1>1 DEF Kept, ReaderBehind, TimerBehind, TypeOK, Row
  <2> QED
    BY <1>0, <1>1, <2>1, ReadingGoto
<1>2. CASE RecallWrite(p) \/ DissolveTx(p)
  <2>1. msg'.row = msg.row /\ msg'.reason = msg.reason
    BY <1>2 DEF RecallWrite, DissolveTx, TypeOK, Row
  <2> QED
    BY <1>1, <1>2, <2>1 DEF RecallWrite, DissolveTx, Done, world, history
<1>3. CASE DestroyWrite(p)
  <2>1. msg'.row = msg.row /\ msg'.reason \in {msg.reason, "manual"}
    BY <1>3 DEF DestroyWrite, Stamp, Destroyed, TypeOK, Row
  <2> QED
    BY <1>1, <1>3, <2>1 DEF DestroyWrite, world, history
<1>4. CASE PurgeTx(p)
  <2>1. /\ msg'.row = "purged"
        /\ \A u \in Users : receipts'[u].revealedAt = Null
        /\ UNCHANGED ttl
        /\ Goto(p, "purgeFiles", loc[p])
    BY <1>4 DEF PurgeTx, NoRow, NoReceipt, world
  <2>2. /\ Kept /\ Solid(receipts')
        /\ ReaderBehind(msg', receipts')
        /\ TimerBehind(msg', receipts', delivered')
    BY <2>1 DEF Kept, Solid, ReaderBehind, TimerBehind
  <2> QED
    BY <1>0, <2>1, <2>2, ReadingGoto
<1> QED
  BY <1>2, <1>3, <1>4

\* Rule R2 looks at all receipts in one statement and marks in the next.
LEMMA ReadingMark ==
  ASSUME TypeOK, Order, Deadlines, Reading, NEW p \in Procs,
         MarkSelect(p) \/ MarkUpdate(p) \/ Tell(p)
  PROVE  Reading'
<1>0. /\ ReceiptAt(pc[p], loc[p], msg, receipts)
      /\ Solid(receipts) /\ ReaderBehind(msg, receipts)
      /\ TimerBehind(msg, receipts, delivered)
      /\ msg.row = "absent" => delivered = {}
      /\ \A local, m, r : ReceiptAt("tell", local, m, r)
  BY BlindLabels, ReadingBlind DEF Reading
<1>1. ASSUME NextRule(p) \/ Done(p), UNCHANGED <<ttl, msg, receipts, delivered>>
      PROVE  Reading'
  BY <1>1, BlindLabels, ReadingAside DEF NextRule, Done
<1>2. CASE MarkSelect(p)
  <2>1. CASE NextRule(p)
    BY <1>1, <1>2, <2>1 DEF MarkSelect, world, rows, history
  <2>2. CASE /\ Goto(p, "markUpdate", loc[p])
             /\ \/ loc[p].reason = "fallback_expired"
                \/ loc[p].reason = "all_read" /\ ReadOut(loc[p].t)
    <3>1. loc[p].reason = "all_read" => HasReader(receipts)
      BY <2>2 DEF ReadOut, HasReader, Opened
    <3>2. ReceiptAt("markUpdate", loc[p], msg, receipts)
      BY <3>1 DEF ReceiptAt, RevealSteps
    <3> QED
      BY <1>2, <2>2, <3>2, ReadingQuiet DEF MarkSelect, world, rows, history
  <2> QED
    BY <1>2, <2>1, <2>2 DEF MarkSelect
<1>3. CASE MarkUpdate(p)
  <2>1. /\ msg'.row = msg.row
        /\ \/ msg'.reason = msg.reason
           \/ msg'.reason = loc[p].reason
        /\ UNCHANGED <<ttl, receipts, delivered>>
        /\ pc[p] = "markUpdate"
        /\ Goto(p, "tell", loc[p])
    BY <1>3 DEF MarkUpdate, Stamp, Destroyed, TypeOK, Row, At, world, history
  <2>2. ReaderBehind(msg', receipts')
    BY <1>0, <2>1 DEF ReaderBehind, ReceiptAt
  <2>3. Kept /\ TimerBehind(msg', receipts', delivered')
    BY <1>0, <2>1 DEF Kept, TimerBehind, TypeOK, Row
  <2> QED
    BY <1>0, <2>1, <2>2, <2>3, ReadingGoto
<1>4. CASE Tell(p)
  BY <1>1, <1>4 DEF Tell, world, rows
<1> QED
  BY <1>2, <1>3, <1>4

LEMMA ReadingStep ==
  ASSUME TypeOK, Order, Deadlines, Reading, [Next]_vars
  PROVE  Reading'
<1>1. ASSUME NEW p \in Procs, Continue(p)
      PROVE  Reading'
  BY <1>1, ReadingSend, ReadingReveal, ReadingView, ReadingAcknowledge,
     ReadingWrite, ReadingMark
  DEF Continue
<1>2. ASSUME NEW p \in Markers \cup Sweepers, MarkStart(p) \/ SweepStart(p)
      PROVE  Reading'
  BY <1>2, BlindLabels, ReadingAside
  DEF MarkStart, SweepStart, Procs, world, rows, history
<1>3. CASE (\E u \in Movers : Move(u)) \/ Tick \/ UNCHANGED vars
  <2>1. UNCHANGED <<ttl, msg, receipts, delivered, pc, loc>>
    BY <1>3 DEF Move, Tick, vars, world, rows, history
  <2> QED
    BY <2>1
    DEF Reading, ReceiptAt, Solid, ReaderBehind, HasReader, Opened, TimerBehind
<1>4. CASE Crash
  <2>1. /\ UNCHANGED <<ttl, msg, receipts, delivered>>
        /\ \A p \in Procs : pc'[p] = "idle" /\ loc'[p] = NoLocal
    BY <1>4 DEF Crash, rows, history
  <2>2. \A p \in Procs : ReceiptAt(pc'[p], loc'[p], msg', receipts')
    BY <2>1, BlindLabels, ReadingBlind
  <2> QED
    BY <2>1, <2>2
    DEF Reading, ReceiptAt, Solid, ReaderBehind, HasReader, Opened, TimerBehind
<1> QED
  BY <1>1, <1>2, <1>3, <1>4, ReadingRequestStart DEF Next

THEOREM ReadingCorrect == Spec => []Reading
<1>1. TypeOK /\ Order /\ Deadlines /\ Reading /\ [Next]_vars => Reading'
  BY ReadingStep
<1> QED
  BY <1>1, ReadingInit, TypeCorrect, OrderCorrect, DeadlinesCorrect, PTL
  DEF Spec

\* Rule R2 of the scheduler never counts a message as read by everyone when
\* nobody but the sender has opened it, whatever became of its receipts.
THEOREM ReaderCorrect == Spec => []AllReadHasAReader
<1>1. Reading => AllReadHasAReader
  BY DEF Reading, ReaderBehind, HasReader, Opened, AllReadHasAReader, Stored
<1> QED
  BY <1>1, ReadingCorrect, PTL

\* Whoever was handed the content of a burn message by a reveal or a listing
\* has an opened receipt, for as long as the row exists.
THEOREM TimerCorrect == Spec => []DeliveredMeansTimed
<1>1. Reading => DeliveredMeansTimed
  BY DEF Reading, TimerBehind, Opened, DeliveredMeansTimed, Stored
<1> QED
  BY <1>1, ReadingCorrect, PTL

-----------------------------------------------------------------------------
(***************************************************************************)
(* Proof that nothing escapes the schedulers.  Both select by dates, and a *)
(* NULL there would hide a row for ever: this is the safety half of what   *)
(* BurnEventuallyDestroyed and EventuallyPurged say under fairness.        *)
(***************************************************************************)

\* Schedulers find what they have to destroy and to purge: a burn message has a
\* deadline for rule R1, a destroyed one a date for the timeout of the sweep,
\* and so has the tombstone it leaves.
InReach ==
  /\ Stored /\ ttl # 0 => msg.destroyAt # Null
  /\ Stored /\ msg.destroyed => msg.destroyedAt # Null
  /\ tomb.exists => tomb.destroyedAt # Null

\* Handlers that are about to write a date have one.
Dated(label, local) ==
  /\ label \in {"markSelect", "markUpdate", "destroyWrite"} => local.t # Null
  /\ label = "tell" /\ local.op = "mark" => local.t # Null
  /\ label = "purgeTx" => local.stamp # Null

Reach == InReach /\ \A p \in Procs : Dated(pc[p], loc[p])

\* Statements that write no date.
Dateless ==
  Labels \ {"markSelect", "markUpdate", "destroyWrite", "tell", "purgeTx"}

LEMMA DatelessDated ==
  ASSUME NEW label \in Dateless, NEW local
  PROVE  Dated(label, local)
BY DEF Dateless, Dated

\* A handler goes on to a statement for which it has its date, and leaves the
\* dates in the rows in order.
LEMMA ReachGoto ==
  ASSUME TypeOK, Reach, NEW p \in Procs, NEW label, NEW local,
         Goto(p, label, local), Dated(label, local), InReach'
  PROVE  Reach'
<1>1. ASSUME NEW q \in Procs PROVE Dated(pc'[q], loc'[q])
  BY DEF Goto, TypeOK, Reach
<1> QED
  BY <1>1 DEF Reach, Dated

\* The common case: the rows with dates stay.
LEMMA ReachQuiet ==
  ASSUME TypeOK, Reach, NEW p \in Procs, NEW label, NEW local,
         Goto(p, label, local), Dated(label, local),
         UNCHANGED <<msg, ttl, tomb>>
  PROVE  Reach'
<1>1. InReach'
  BY DEF Reach, InReach, Stored
<1> QED
  BY <1>1, ReachGoto

LEMMA ReachInit == Init => Reach
BY DEF Init, Reach, InReach, Dated, Stored, NoRow, NoTombstone

\* Requests and schedulers begin with the clock, which is not NULL.
LEMMA ReachStart ==
  ASSUME TypeOK, Deadlines, Reach, NEW p \in Procs,
         RequestStart(p) \/ MarkStart(p) \/ SweepStart(p)
  PROVE  Reach'
<1>0. /\ {"admit", "recallWrite", "dissolveTx", "sweepSelect"} \subseteq Dateless
      /\ now # Null
  BY DEF Dateless, Labels, Deadlines
<1>1. CASE DestroyLoad(p)
  <2>1. [Begin("destroy", Sender) EXCEPT !.t = now].t = now
    BY DEF Begin, NoLocal
  <2>2. Dated("destroyWrite", [Begin("destroy", Sender) EXCEPT !.t = now])
    BY <1>0, <2>1 DEF Dated
  <2> QED
    BY <1>1, <2>2, ReachQuiet DEF DestroyLoad, world, rows
<1>2. CASE MarkStart(p)
  <2>1. [Begin("mark", Sender) EXCEPT !.t = now,
                                      !.reason = "fallback_expired"].t = now
    BY DEF Begin, NoLocal
  <2>2. Dated("markSelect", [Begin("mark", Sender) EXCEPT
                               !.t = now, !.reason = "fallback_expired"])
    BY <1>0, <2>1 DEF Dated
  <2> QED
    BY <1>2, <2>2, ReachQuiet DEF MarkStart, world, rows
<1>3. CASE \/ SendStart(p) \/ RecallLoad(p) \/ DissolveLoad(p) \/ SweepStart(p)
           \/ \E u \in Users : \/ RevealLoad(p, u) \/ ConsumeLoad(p, u)
                               \/ ListStart(p, u) \/ AckStart(p, u)
  BY <1>0, <1>3, DatelessDated, ReachQuiet
  DEF SendStart, RecallLoad, DissolveLoad, SweepStart, RevealLoad, ConsumeLoad,
      ListStart, AckStart, world, rows
<1> QED
  BY <1>1, <1>2, <1>3 DEF RequestStart

\* Handlers that read, or write receipts, acknowledgements and files.
LEMMA ReachAside ==
  ASSUME TypeOK, Reach, NEW p \in Procs,
         \/ Admit(p) \/ SendConv(p) \/ SendMembers(p) \/ SendReceipts(p)
         \/ RevealReceipt(p) \/ RevealCreate(p) \/ RevealStart(p)
         \/ RevealReply(p) \/ ConsumeReceipt(p) \/ ConsumeWrite(p)
         \/ ListLoad(p) \/ ListReceipt(p) \/ AckLoad(p) \/ AckUpsert(p)
         \/ PolicyCount(p) \/ PolicyNeed(p) \/ PurgeFiles(p) \/ SweepSelect(p)
  PROVE  Reach'
<1>0. /\ {"idle", "admit", "sendMembers", "sendSave", "sendReceipts",
          "revealReceipt", "revealCreate", "revealStart", "revealExtend",
          "revealReply", "consumeReceipt", "consumeWrite", "listLoad",
          "listReceipt", "ackLoad", "ackUpsert", "policyCount", "policyNeed",
          "purgeLoad", "sendConv"} \subseteq Dateless
      /\ \A op \in DOMAIN AfterAdmit : AfterAdmit[op] \in Dateless
  BY DEF Dateless, Labels, AfterAdmit
<1>1. UNCHANGED <<msg, ttl, tomb>>
  BY DEF Admit, SendConv, SendMembers, SendReceipts, RevealReceipt, RevealCreate,
         RevealStart, RevealReply, ConsumeReceipt, ConsumeWrite, ListLoad,
         ListReceipt, AckLoad, AckUpsert, PolicyCount, PolicyNeed, PurgeFiles,
         SweepSelect, world, rows
<1>2. ASSUME NEW label \in Dateless, NEW local, Goto(p, label, local)
      PROVE  Reach'
  BY <1>1, <1>2, DatelessDated, ReachQuiet
<1>3. CASE Done(p)
  BY <1>0, <1>2, <1>3 DEF Done
<1>4. CASE \E trigger \in Triggers : ToPurge(p, trigger)
  BY <1>0, <1>2, <1>4 DEF ToPurge
<1>5. CASE Admit(p) \/ SendConv(p) \/ SendMembers(p) \/ SendReceipts(p)
  BY <1>0, <1>2, <1>3, <1>5 DEF Admit, SendConv, SendMembers, SendReceipts
<1>6. CASE RevealReceipt(p) \/ RevealCreate(p) \/ RevealStart(p) \/ RevealReply(p)
  BY <1>0, <1>2, <1>3, <1>6
  DEF RevealReceipt, RevealCreate, RevealStart, RevealReply
<1>7. CASE \/ ConsumeReceipt(p) \/ ConsumeWrite(p)
           \/ ListLoad(p) \/ ListReceipt(p)
  BY <1>0, <1>2, <1>3, <1>7
  DEF ConsumeReceipt, ConsumeWrite, ListLoad, ListReceipt
<1>8. CASE AckLoad(p) \/ AckUpsert(p) \/ PurgeFiles(p)
  BY <1>0, <1>2, <1>3, <1>8 DEF AckLoad, AckUpsert, PurgeFiles
<1>9. CASE PolicyCount(p) \/ PolicyNeed(p) \/ SweepSelect(p)
  BY <1>0, <1>2, <1>3, <1>4, <1>9
  DEF PolicyCount, PolicyNeed, SweepSelect, Triggers
<1> QED
  BY <1>5, <1>6, <1>7, <1>8, <1>9

\* Handlers that write a date, or a row with dates in it.
LEMMA ReachWrite ==
  ASSUME TypeOK, Deadlines, Reach, NEW p \in Procs,
         \/ SendSave(p) \/ RevealExtend(p) \/ RecallWrite(p) \/ PurgeLoad(p)
         \/ PurgeTx(p) \/ MarkSelect(p) \/ MarkUpdate(p) \/ Tell(p)
         \/ DestroyWrite(p) \/ DissolveTx(p)
  PROVE  Reach'
<1>0. /\ Dated(pc[p], loc[p]) /\ DeadlineAt(pc[p], loc[p], msg, dissolvedAt)
      /\ loc[p] \in Local /\ msg \in Row /\ tomb \in Tombstone /\ now \in Nat
      /\ {"idle", "sendReceipts", "revealReply", "purgeFiles"} \subseteq Dateless
      /\ InReach /\ now # Null
  BY DEF Reach, Deadlines, TypeOK, Dateless, Labels
<1>1. CASE SendSave(p)
  <2>1. Promised(now) \in Nat /\ Promised(now) # Null
    BY <1>0, DurationsTyped, DurationsAssumption DEF TypeOK
  <2>2. /\ msg'.destroyed = FALSE /\ tomb' = tomb /\ ttl' = ttl
        /\ msg'.destroyAt = IF ttl = 0 THEN Null ELSE Promised(now)
    BY <1>1 DEF SendSave, NoRow, world
  <2>3. InReach'
    BY <1>0, <2>1, <2>2 DEF InReach, Stored
  <2> QED
    BY <1>0, <1>1, <2>3, DatelessDated, ReachGoto DEF SendSave
<1>2. CASE RevealExtend(p)
  <2>1. loc[p].t + Window # Null
    BY <1>0, <1>2, DurationsTyped, 1 \in Nat
    DEF RevealExtend, At, DeadlineAt, Local, TypeOK
  <2>2. /\ msg'.row = msg.row /\ msg'.destroyed = msg.destroyed
        /\ msg'.destroyedAt = msg.destroyedAt
        /\ Stored => msg'.destroyAt = loc[p].t + Window
        /\ tomb' = tomb /\ ttl' = ttl
    BY <1>0, <1>2 DEF RevealExtend, Row, world
  <2>3. InReach'
    BY <1>0, <2>1, <2>2 DEF InReach, Stored
  <2> QED
    BY <1>0, <1>2, <2>3, DatelessDated, ReachGoto DEF RevealExtend
<1>3. CASE RecallWrite(p)
  <2>1. /\ msg'.row = msg.row /\ msg'.destroyed = msg.destroyed
        /\ msg'.destroyedAt = msg.destroyedAt /\ msg'.destroyAt = msg.destroyAt
        /\ tomb' = tomb /\ ttl' = ttl
    BY <1>0, <1>3 DEF RecallWrite, Row, world
  <2>2. InReach'
    BY <1>0, <2>1 DEF InReach, Stored
  <2> QED
    BY <1>0, <1>3, <2>2, DatelessDated, ReachGoto DEF RecallWrite, Done
<1>4. CASE PurgeLoad(p)
  <2>1. CASE Stored /\ msg.destroyed
    <3> DEFINE local == [loc[p] EXCEPT !.stamp = msg.destroyedAt,
                                       !.reason = msg.reason]
    <3>1. local.stamp = msg.destroyedAt
      BY <1>0 DEF Local
    <3>2. Dated("purgeTx", local)
      BY <1>0, <2>1, <3>1 DEF Dated, InReach
    <3> QED
      BY <1>4, <2>1, <3>2, ReachQuiet DEF PurgeLoad, world, rows
  <2>2. CASE ~(Stored /\ msg.destroyed)
    BY <1>0, <1>4, <2>2, DatelessDated, ReachQuiet DEF PurgeLoad, Done, world, rows
  <2> QED
    BY <2>1, <2>2
<1>5. CASE PurgeTx(p)
  <2>1. /\ msg'.row = "purged" /\ tomb'.destroyedAt = loc[p].stamp
        /\ loc[p].stamp # Null
    BY <1>0, <1>5 DEF PurgeTx, NoRow, At, Dated
  <2>2. InReach'
    BY <2>1 DEF InReach, Stored
  <2> QED
    BY <1>0, <1>5, <2>2, DatelessDated, ReachGoto DEF PurgeTx
<1>6. ASSUME NextRule(p), UNCHANGED <<msg, ttl, tomb>>, loc[p].t # Null
      PROVE  Reach'
  <2>1. CASE Goto(p, "markSelect", [loc[p] EXCEPT !.reason = "all_read"])
    <3>1. [loc[p] EXCEPT !.reason = "all_read"].t = loc[p].t
      BY <1>0 DEF Local
    <3>2. Dated("markSelect", [loc[p] EXCEPT !.reason = "all_read"])
      BY <1>6, <3>1 DEF Dated
    <3> QED
      BY <1>6, <2>1, <3>2, ReachQuiet
  <2>2. CASE Done(p)
    BY <1>0, <1>6, <2>2, DatelessDated, ReachQuiet DEF Done
  <2> QED
    BY <1>6, <2>1, <2>2 DEF NextRule
<1>7. CASE MarkSelect(p)
  <2>1. loc[p].t # Null /\ UNCHANGED <<msg, ttl, tomb>>
    BY <1>0, <1>7 DEF MarkSelect, At, Dated, world, rows
  <2>2. CASE Goto(p, "markUpdate", loc[p])
    BY <2>1, <2>2, ReachQuiet DEF Dated
  <2> QED
    BY <1>6, <1>7, <2>1, <2>2 DEF MarkSelect
<1>8. CASE MarkUpdate(p) \/ DestroyWrite(p)
  <2>1. loc[p].t # Null /\ Goto(p, "tell", loc[p])
    BY <1>0, <1>8 DEF MarkUpdate, DestroyWrite, At, Dated
  <2>2. /\ msg'.row = msg.row /\ msg'.destroyAt = msg.destroyAt
        /\ \/ msg'.destroyed = msg.destroyed /\ msg'.destroyedAt = msg.destroyedAt
           \/ msg'.destroyedAt = loc[p].t
        /\ tomb' = tomb /\ ttl' = ttl
    BY <1>0, <1>8 DEF MarkUpdate, DestroyWrite, Stamp, Destroyed, Row, world
  <2>3. InReach'
    BY <1>0, <2>1, <2>2 DEF InReach, Stored
  <2>4. Dated("tell", loc[p])
    BY <2>1 DEF Dated
  <2> QED
    BY <2>1, <2>3, <2>4, ReachGoto
<1>9. CASE Tell(p)
  <2>1. UNCHANGED <<msg, ttl, tomb>> /\ pc[p] = "tell"
    BY <1>9 DEF Tell, At, world, rows
  <2>2. CASE loc[p].op = "mark"
    BY <1>0, <1>6, <1>9, <2>1, <2>2 DEF Tell, Dated
  <2>3. CASE loc[p].op # "mark"
    BY <1>0, <1>9, <2>1, <2>3, DatelessDated, ReachQuiet DEF Tell, Done
  <2> QED
    BY <2>2, <2>3
<1>10. CASE DissolveTx(p)
  <2>1. loc[p].t # Null
    BY <1>0, <1>10 DEF DissolveTx, At, DeadlineAt
  <2>2. /\ msg'.row = msg.row /\ msg'.destroyed = msg.destroyed
        /\ msg'.destroyedAt = msg.destroyedAt
        /\ msg'.destroyAt \in {msg.destroyAt, loc[p].t}
        /\ tomb' = tomb /\ ttl' = ttl
    BY <1>0, <1>10 DEF DissolveTx, Row, world
  <2>3. InReach'
    BY <1>0, <2>1, <2>2 DEF InReach, Stored
  <2> QED
    BY <1>0, <1>10, <2>3, DatelessDated, ReachGoto DEF DissolveTx, Done
<1> QED
  BY <1>1, <1>2, <1>3, <1>4, <1>5, <1>7, <1>8, <1>9, <1>10

LEMMA ReachStep ==
  ASSUME TypeOK, Deadlines, Reach, [Next]_vars
  PROVE  Reach'
<1>1. ASSUME NEW p \in Procs, Continue(p)
      PROVE  Reach'
  BY <1>1, ReachAside, ReachWrite DEF Continue
<1>2. ASSUME NEW p \in Procs, RequestStart(p) \/ MarkStart(p) \/ SweepStart(p)
      PROVE  Reach'
  BY <1>2, ReachStart
<1>3. CASE (\E u \in Movers : Move(u)) \/ Tick \/ UNCHANGED vars
  <2>1. UNCHANGED <<ttl, msg, tomb, pc, loc>>
    BY <1>3 DEF Move, Tick, vars, world, rows
  <2> QED
    BY <2>1 DEF Reach, InReach, Dated, Stored
<1>4. CASE Crash
  <2>1. /\ UNCHANGED <<ttl, msg, tomb>>
        /\ \A p \in Procs : pc'[p] = "idle"
    BY <1>4 DEF Crash, rows
  <2> QED
    BY <2>1 DEF Reach, InReach, Dated, Stored
<1> QED
  BY <1>1, <1>2, <1>3, <1>4 DEF Next, Procs

\* Whatever reveals, dissolutions, administrators, schedulers and crashes write:
\* no burn message is ever without a deadline, and no destroyed message and no
\* tombstone without the date that the schedulers judge it by.
THEOREM InReachCorrect == Spec => []InReach
<1>1. TypeOK /\ Deadlines /\ Reach /\ [Next]_vars => Reach'
  BY ReachStep
<1>2. Reach => InReach
  BY DEF Reach
<1> QED
  BY <1>1, <1>2, ReachInit, TypeCorrect, DeadlinesCorrect, PTL DEF Spec
=============================================================================
