--------------------- MODULE ConversationReadingProofs ---------------------
(***************************************************************************)
(* Proofs about ConversationReading for any number of messages, any script *)
(* of kinds and stamps, any number of requests and any page size.          *)
(*                                                                         *)
(* A page is put together by four queries while messages are opened,       *)
(* destroyed and purged.  The invariant says what a request in flight may  *)
(* still rely on: which ids its items and its rows have, who had opened    *)
(* what it shows, and why a message it left out was left out.              *)
(***************************************************************************)
EXTENDS ConversationReading, FiniteSetTheorems, TLAPS

Away == {"destroyed", "purged"}

\* Opened is read, and only a receipt that is there can be either.
Solid ==
  \A m \in Ids : /\ receipt[m].read => receipt[m].exists
                 /\ receipt[m].revealed => receipt[m].read
                 /\ receipt[m].burnt => receipt[m].revealed

\* The messages sent are the first ones.
Numbered == \E n \in 0 .. MaxMessages : Sent = 1 .. n

Single(items) == \A i, j \in items : i.id = j.id => i = j

\* InRange for the page of any record.
Within(record, m, stamps) ==
  LET shown == Shown(record.items)
  IN IF shown = {} THEN stamps[m] < record.bound
     ELSE \E x, y \in shown : stamps[x] <= stamps[m] /\ stamps[m] <= stamps[y]

\* What a record says whatever the rows are now.
Shape(record, stamps) ==
  /\ record.step = "advance" <=> record.top # None
  /\ record.step \in {"bound", "find", "create", "write"} => record.msg \in Ids
  /\ record.step \notin {"view", "holes", "count", "answer"} =>
       record.items = {}
  /\ record.step \notin {"view", "holes", "answer"} =>
       /\ record.rows = {} /\ record.todo = {}
       /\ record.gone = {} /\ record.erased = {}
  /\ Single(record.items)
  /\ record.step = "view" => record.rows \cap Shown(record.items) = {}
  /\ record.step = "holes" => \A m \in record.rows : Within(record, m, stamps)
  /\ record.step = "answer" =>
       record.todo = {} /\ record.rows \subseteq Shown(record.items)

\* Content of a burn message was collected for somebody who had opened it.
Honest(record, rows, kinds, receipts) ==
  \A i \in record.items :
    i.form = "full" /\ kinds[i.id] = "burn" /\ rows[i.id] # "purged" =>
      receipts[i.id].revealed

\* What was gone when the request began has not come back.
Past(record, rows) ==
  /\ \A m \in record.gone : rows[m] \in Away
  /\ \A m \in record.erased : rows[m] = "purged"

\* A message gone is there, or out of range, or Limit others took its place.
There(record) == record.rows \cup Shown(record.items)
Packed(record, m, rows) ==
  \E set \in SUBSET There(record) :
    Cardinality(set) = Limit /\ m \notin set /\ \A x \in set : rows[x] \in Away
Covers(record, m, rows, stamps) ==
  Within(record, m, stamps) => m \in There(record) \/ Packed(record, m, rows)
Filled(record, rows, stamps) ==
  record.step \in {"holes", "answer"} =>
    /\ "tombstones" \notin record.todo =>
         \A m \in record.erased : Covers(record, m, rows, stamps)
    /\ "marked" \notin record.todo =>
         \A m \in record.gone :
           rows[m] = "destroyed" => Covers(record, m, rows, stamps)

Known(record, rows, kinds, stamps, receipts) ==
  /\ Shape(record, stamps) /\ Honest(record, rows, kinds, receipts)
  /\ Past(record, rows) /\ Filled(record, rows, stamps)

Knowing == \A r \in Requests : Known(loc[r], row, kind, stamp, receipt)

Inv == TypeOK /\ Solid /\ Numbered /\ Knowing

\* Messages and receipts only go forward: a message that is gone stays so, and
\* an opened one stays opened until it is purged.
Forward(rows, rows2, receipts, receipts2) ==
  \A m \in Ids : /\ rows[m] = "purged" => rows2[m] = "purged"
                 /\ rows[m] = "destroyed" => rows2[m] \in Away
                 /\ receipts[m].revealed =>
                      receipts2[m].revealed \/ rows2[m] = "purged"

Rows == [Ids -> {"absent", "stored", "due", "destroyed", "purged"}]

USE BoundsAssumption, LimitAssumption

-----------------------------------------------------------------------------
\* The empty records are well typed, and nothing is wrong with them.
LEMMA EmptyTyped ==
  /\ NoLocal \in Local
  /\ NoReceipt \in Receipt /\ Unread \in Receipt
  /\ Unread.exists /\ ~Unread.read /\ ~Unread.revealed /\ ~Unread.burnt
BY DEF NoLocal, Local, NoReceipt, Unread, Receipt, Unbounded

\* A record that has collected nothing knows nothing that could become wrong.
LEMMA PlainKnown ==
  ASSUME NEW record, NEW rows, NEW kinds, NEW stamps, NEW receipts,
         record.items = {}, record.rows = {}, record.todo = {},
         record.gone = {}, record.erased = {},
         record.step \notin {"view", "holes", "answer"},
         record.step = "advance" <=> record.top # None,
         record.step \in {"bound", "find", "create", "write"} =>
           record.msg \in Ids
  PROVE  Known(record, rows, kinds, stamps, receipts)
BY DEF Known, Shape, Single, Honest, Past, Filled

LEMMA NothingKnown ==
  \A rows, kinds, stamps, receipts :
    Known(NoLocal, rows, kinds, stamps, receipts)
<1>1. /\ NoLocal.step = "idle" /\ NoLocal.items = {} /\ NoLocal.rows = {}
      /\ NoLocal.todo = {} /\ NoLocal.gone = {} /\ NoLocal.erased = {}
      /\ NoLocal.top = None
  BY DEF NoLocal
<1> QED
  BY <1>1, PlainKnown

\* What a request knows stays true while others go forward.
LEMMA KnownKept ==
  ASSUME NEW record \in Local, NEW rows \in Rows, NEW rows2 \in Rows,
         NEW kinds, NEW stamps, NEW receipts, NEW receipts2,
         Forward(rows, rows2, receipts, receipts2),
         Known(record, rows, kinds, stamps, receipts)
  PROVE  Known(record, rows2, kinds, stamps, receipts2)
<1>1. /\ record.items \subseteq Items /\ record.rows \subseteq Ids
      /\ record.gone \subseteq Ids /\ record.erased \subseteq Ids
      /\ Shown(record.items) \subseteq Ids
  BY DEF Local, Items, Shown
<1>2. Shape(record, stamps)
  BY DEF Known
<1>3. Honest(record, rows2, kinds, receipts2)
  BY <1>1 DEF Known, Honest, Forward, Items
<1>4. Past(record, rows2)
  BY <1>1 DEF Known, Past, Forward, Away
<1>5. \A x \in Ids : rows[x] \in Away => rows2[x] \in Away
  BY DEF Forward, Away
<1>6. ASSUME NEW m \in Ids, Covers(record, m, rows, stamps)
      PROVE  Covers(record, m, rows2, stamps)
  <2>1. There(record) \subseteq Ids
    BY <1>1 DEF There
  <2>2. Packed(record, m, rows) => Packed(record, m, rows2)
    BY <1>5, <2>1 DEF Packed
  <2> QED
    BY <1>6, <2>2 DEF Covers
<1>7. Filled(record, rows2, stamps)
  <2>1. \A m \in record.gone : rows2[m] = "destroyed" => rows[m] = "destroyed"
    BY <1>1 DEF Known, Past, Forward, Away
  <2> QED
    BY <1>1, <1>6, <2>1 DEF Known, Filled
<1> QED
  BY <1>2, <1>3, <1>4, <1>7 DEF Known

\* A step of one request, of nobody, or of all keeps what the others know.
LEMMA OwnStep ==
  ASSUME Inv, NEW r \in Requests, NEW record \in Local, Goto(r, record),
         row' \in Rows, Forward(row, row', receipt, receipt'),
         UNCHANGED <<kind, stamp>>,
         Known(record, row', kind, stamp, receipt')
  PROVE  /\ loc' \in [Requests -> Local]
         /\ \A q \in Requests : At(q, "advance")' <=> loc'[q].top # None
         /\ Knowing'
<1>1. /\ loc' \in [Requests -> Local] /\ loc'[r] = record
      /\ \A q \in Requests \ {r} : loc'[q] = loc[q]
  BY DEF Goto, Inv, TypeOK
<1>2. ASSUME NEW q \in Requests
      PROVE  Known(loc'[q], row', kind, stamp, receipt')
  <2>1. CASE q = r
    BY <1>1, <2>1
  <2>2. CASE q # r
    <3>1. /\ loc[q] \in Local /\ row \in Rows
          /\ Known(loc[q], row, kind, stamp, receipt)
      BY DEF Inv, TypeOK, Knowing, Rows
    <3> QED
      BY <1>1, <2>2, <3>1, KnownKept
  <2> QED
    BY <2>1, <2>2
<1>3. \A q \in Requests : loc'[q].step = "advance" <=> loc'[q].top # None
  BY <1>2 DEF Known, Shape
<1> QED
  BY <1>1, <1>2, <1>3 DEF Knowing, At

LEMMA OtherStep ==
  ASSUME Inv, UNCHANGED loc,
         row' \in Rows, Forward(row, row', receipt, receipt'),
         UNCHANGED <<kind, stamp>>
  PROVE  Knowing'
<1>1. ASSUME NEW q \in Requests
      PROVE  Known(loc[q], row', kind, stamp, receipt')
  <2>1. /\ loc[q] \in Local /\ row \in Rows
        /\ Known(loc[q], row, kind, stamp, receipt)
    BY DEF Inv, TypeOK, Knowing, Rows
  <2> QED
    BY <2>1, KnownKept
<1> QED
  BY <1>1 DEF Knowing

\* A request that only reads keeps the invariant if it knows what it remembers.
LEMMA ReadStep ==
  ASSUME Inv, NEW r \in Requests, NEW record \in Local, Goto(r, record),
         Reads, Known(record, row, kind, stamp, receipt)
  PROVE  Inv'
<1>1. row' \in Rows /\ Forward(row, row', receipt, receipt')
  BY DEF Inv, TypeOK, Rows, Reads, Forward, Away
<1>2. UNCHANGED <<row, kind, stamp, receipt, watermark, sending, ops>>
  BY DEF Reads
<1>3. Knowing' /\ TypeOK'
  BY <1>1, <1>2, OwnStep DEF Inv, TypeOK
<1> QED
  BY <1>2, <1>3 DEF Inv, Solid, Numbered, Sent

\* A page that leaves out something of its query is full.
LEMMA NewestFull ==
  ASSUME NEW set \in SUBSET Ids, NEW n \in Nat, NEW top \in Newest(set, n)
  PROVE  /\ top \subseteq set
         /\ \A m \in set \ top : Cardinality(top) = n
<1>1. IsFiniteSet(Ids)
  BY FS_Interval DEF Ids
<1>2. IsFiniteSet(set)
  BY <1>1, FS_Subset
<1>3. top \subseteq set
  BY DEF Newest
<1>4. Cardinality(top) =
        IF Cardinality(set) < n THEN Cardinality(set) ELSE n
  BY DEF Newest
<1>5. ASSUME NEW m \in set \ top PROVE Cardinality(top) # Cardinality(set)
  BY <1>2, <1>3, FS_Subset
<1> QED
  BY <1>3, <1>4, <1>5

-----------------------------------------------------------------------------
\* The next number is free: a purged message never comes back as another.
LEMMA Sending ==
  ASSUME Inv, SendRow
  PROVE  Inv'
<1> USE DEF Inv
<1> DEFINE m == Cardinality(Sent) + 1
<1>1. /\ m \in Ids /\ row' = [row EXCEPT ![m] = "stored"] /\ sending' = m
      /\ UNCHANGED <<kind, stamp, receipt, watermark, loc, ops>>
  BY DEF SendRow
<1>2. PICK n \in 0 .. MaxMessages : Sent = 1 .. n
  BY DEF Numbered
<1>3. m = n + 1
  BY <1>2, FS_Interval
<1>4. m \notin Sent
  BY <1>2, <1>3
<1>5. row[m] = "absent" /\ row' \in Rows
  BY <1>1, <1>4 DEF Sent, TypeOK, Rows
<1> HIDE DEF m
<1>6. Sent' = Sent \cup {m}
  BY <1>1, <1>5 DEF Sent, TypeOK, Rows
<1>7. Numbered'
  <2>1. n + 1 \in 0 .. MaxMessages /\ 1 .. (n + 1) = (1 .. n) \cup {m}
    BY <1>1, <1>3 DEF Ids
  <2> QED
    BY <1>2, <1>6, <2>1 DEF Numbered
<1>8. Forward(row, row', receipt, receipt')
  BY <1>1, <1>5 DEF Forward, TypeOK, Away
<1>9. Knowing'
  BY <1>1, <1>5, <1>8, OtherStep
<1>10. TypeOK' /\ Solid'
  BY <1>1, <1>5 DEF TypeOK, At, Rows, Solid
<1> QED
  BY <1>7, <1>9, <1>10

\* A receipt is added where none was, burnt, or removed with its message; a
\* message moves on from where it was.
LEMMA Fate ==
  ASSUME Inv, NEW m \in Ids,
         SendReceipts \/ Due(m) \/ BurnOut(m) \/ Destroy(m) \/ Purge(m)
  PROVE  Inv'
<1> USE DEF Inv
<1>1. UNCHANGED <<kind, stamp, watermark, loc, ops>>
  BY DEF SendReceipts, Due, BurnOut, Destroy, Purge
<1>2. sending' \in Ids \cup {None}
  BY DEF SendReceipts, Due, BurnOut, Destroy, Purge, TypeOK
<1>3. row' \in Rows /\ Sent' = Sent
  BY DEF SendReceipts, Due, BurnOut, Destroy, Purge, TypeOK, Rows, Sent,
         NotDestroyed
<1>4. receipt' \in [Ids -> Receipt]
  <2>1. CASE SendReceipts
    BY <2>1, EmptyTyped DEF SendReceipts, TypeOK
  <2>2. CASE Due(m) \/ Destroy(m)
    BY <2>2 DEF Due, Destroy, TypeOK
  <2>3. CASE BurnOut(m)
    BY <2>3 DEF BurnOut, TypeOK, Receipt
  <2>4. CASE Purge(m)
    BY <2>4, EmptyTyped DEF Purge, TypeOK
  <2> QED
    BY <2>1, <2>2, <2>3, <2>4
<1>5. Solid'
  <2>1. CASE SendReceipts
    BY <2>1, EmptyTyped DEF SendReceipts, Solid, TypeOK
  <2>2. CASE Due(m) \/ Destroy(m)
    BY <2>2 DEF Due, Destroy, Solid
  <2>3. CASE BurnOut(m)
    BY <2>3 DEF BurnOut, Solid, TypeOK, Receipt
  <2>4. CASE Purge(m)
    BY <2>4 DEF Purge, Solid, TypeOK, NoReceipt
  <2> QED
    BY <2>1, <2>2, <2>3, <2>4
<1>6. Forward(row, row', receipt, receipt')
  <2>1. CASE SendReceipts
    BY <2>1, EmptyTyped DEF SendReceipts, Forward, Solid, TypeOK, Away
  <2>2. CASE Due(m) \/ Destroy(m)
    BY <2>2 DEF Due, Destroy, NotDestroyed, Forward, TypeOK, Away
  <2>3. CASE BurnOut(m)
    BY <2>3 DEF BurnOut, Forward, TypeOK, Receipt, Away
  <2>4. CASE Purge(m)
    BY <2>4 DEF Purge, Forward, TypeOK, Away
  <2> QED
    BY <2>1, <2>2, <2>3, <2>4
<1>7. Knowing'
  BY <1>1, <1>3, <1>6, OtherStep
<1>8. TypeOK'
  BY <1>1, <1>2, <1>3, <1>4 DEF TypeOK, At, Rows
<1> QED
  BY <1>3, <1>5, <1>7, <1>8 DEF Numbered

-----------------------------------------------------------------------------
\* A request that writes keeps the invariant if it only moves things forward.
LEMMA WriteStep ==
  ASSUME Inv, NEW r \in Requests, NEW record \in Local, Goto(r, record),
         row' \in Rows, Sent' = Sent, receipt' \in [Ids -> Receipt],
         watermark' \in Ids \cup {None},
         UNCHANGED <<kind, stamp, sending, ops>>,
         Solid', Forward(row, row', receipt, receipt'),
         Known(record, row', kind, stamp, receipt')
  PROVE  Inv'
<1>1. /\ loc' \in [Requests -> Local]
      /\ \A q \in Requests : At(q, "advance")' <=> loc'[q].top # None
      /\ Knowing'
  BY OwnStep
<1>2. TypeOK'
  BY <1>1 DEF Inv, TypeOK, Rows
<1> QED
  BY <1>1, <1>2 DEF Inv, Numbered

\* The steps of markAsRead and markMessagesRead that read.
LEMMA MarkReads ==
  ASSUME Inv, NEW r \in Requests,
         \/ \E upTo \in Sent \cup {None} : MarkStart(r, upTo)
         \/ \E ids \in (SUBSET Sent) \ {{}} : MarkIdsStart(r, ids)
         \/ MarkBound(r) \/ MarkLast(r) \/ MarkIdsLatest(r)
  PROVE  Inv'
<1> USE DEF Inv
<1>a. loc[r] \in Local /\ Sent \subseteq Ids /\ NoLocal \in Local
  BY EmptyTyped DEF TypeOK, Sent
<1>b. Shape(loc[r], stamp)
  BY DEF Knowing, Known
<1>1. ASSUME NEW upTo \in Sent \cup {None}, MarkStart(r, upTo) PROVE Inv'
  <2> DEFINE step == IF upTo = None THEN "update" ELSE "bound"
             record == [NoLocal EXCEPT !.step = step, !.msg = upTo]
  <2>1. record \in Local
    BY <1>a DEF Local
  <2>2. /\ record.step = step /\ record.msg = upTo /\ record.items = {}
        /\ record.rows = {} /\ record.todo = {} /\ record.gone = {}
        /\ record.erased = {} /\ record.top = None
    BY DEF NoLocal
  <2>3. step \in {"update", "bound"} /\ (step = "bound" => upTo \in Ids)
    BY <1>a
  <2>4. Goto(r, record) /\ Reads
    BY <1>1 DEF MarkStart, Begin
  <2> HIDE DEF record, step, Inv
  <2>5. Known(record, row, kind, stamp, receipt)
    BY <2>2, <2>3, PlainKnown
  <2> QED
    BY <2>1, <2>4, <2>5, ReadStep
<1>2. ASSUME NEW ids \in SUBSET Sent, MarkIdsStart(r, ids) PROVE Inv'
  <2> DEFINE record == [NoLocal EXCEPT !.step = "updateIds", !.ids = ids]
  <2>1. record \in Local
    BY <1>a DEF Local
  <2>2. /\ record.step = "updateIds" /\ record.items = {}
        /\ record.rows = {} /\ record.todo = {} /\ record.gone = {}
        /\ record.erased = {} /\ record.top = None
    BY DEF NoLocal
  <2>3. Goto(r, record) /\ Reads
    BY <1>2 DEF MarkIdsStart, Begin
  <2> HIDE DEF record, Inv
  <2>4. Known(record, row, kind, stamp, receipt)
    BY <2>2, PlainKnown
  <2> QED
    BY <2>1, <2>3, <2>4, ReadStep
<1>3. CASE MarkBound(r)
  <2> DEFINE bound == IF loc[r].msg \in Present THEN stamp[loc[r].msg]
                                                ELSE loc[r].bound
             record == [loc[r] EXCEPT !.step = "update", !.bound = bound]
  <2>1. bound \in Stamps \cup {Unbounded}
    BY <1>a DEF Local, Present, TypeOK
  <2>2. Goto(r, record) /\ Reads /\ At(r, "bound")
    BY <1>3 DEF MarkBound
  <2> HIDE DEF bound
  <2>3. record \in Local
    BY <1>a, <2>1 DEF Local
  <2>4. /\ record.step = "update" /\ record.items = {}
        /\ record.rows = {} /\ record.todo = {} /\ record.gone = {}
        /\ record.erased = {} /\ record.top = None
    BY <1>a, <1>b, <2>2 DEF Shape, At, Local
  <2> HIDE DEF record, Inv
  <2>5. Known(record, row, kind, stamp, receipt)
    BY <2>4, PlainKnown
  <2> QED
    BY <2>2, <2>3, <2>5, ReadStep
<1>4. ASSUME NEW set \in SUBSET Ids, Candidate(r, set), Reads,
             At(r, "last") \/ At(r, "latest")
      PROVE  Inv'
  <2>1. CASE Goto(r, NoLocal)
    <3> HIDE DEF Inv
    <3> QED
      BY <1>4, <1>a, <2>1, NothingKnown, ReadStep
  <2>2. ASSUME NEW top \in Newest(set, 1), NEW m \in top,
               Goto(r, [loc[r] EXCEPT !.step = "advance", !.top = m])
        PROVE  Inv'
    <3> DEFINE record == [loc[r] EXCEPT !.step = "advance", !.top = m]
    <3>1. m \in Ids /\ m # None
      BY DEF Newest, Ids, None
    <3>2. record \in Local
      BY <1>a, <3>1 DEF Local
    <3>3. /\ record.step = "advance" /\ record.items = {}
          /\ record.rows = {} /\ record.todo = {} /\ record.gone = {}
          /\ record.erased = {} /\ record.top = m
      BY <1>4, <1>a, <1>b DEF Shape, At, Local
    <3> HIDE DEF record, Inv
    <3>4. Known(record, row, kind, stamp, receipt)
      BY <3>1, <3>3, PlainKnown
    <3> QED
      BY <1>4, <2>2, <3>2, <3>4, ReadStep DEF record
  <2> QED
    BY <1>4, <2>1, <2>2 DEF Candidate
<1>5. CASE MarkLast(r)
  <2>1. {m \in Present : stamp[m] <= loc[r].bound} \in SUBSET Ids
    BY DEF Present
  <2> QED
    BY <1>4, <1>5, <2>1 DEF MarkLast
<1>6. CASE MarkIdsLatest(r)
  <2>1. loc[r].ids \cap Present \in SUBSET Ids
    BY DEF Present
  <2> QED
    BY <1>4, <1>6, <2>1 DEF MarkIdsLatest
<1> QED
  BY <1>1, <1>2, <1>3, <1>5, <1>6

\* Marking touches receipts that are there and does not open anything.
LEMMA Marks ==
  ASSUME Inv, NEW r \in Requests, NEW marked \in SUBSET Ids, NEW record \in Local,
         receipt' = [m \in Ids |-> IF m \in marked
                                   THEN [receipt[m] EXCEPT !.read = TRUE]
                                   ELSE receipt[m]],
         \A m \in marked : receipt[m].exists,
         Goto(r, record), UNCHANGED <<row, kind, stamp, watermark, sending, ops>>,
         Known(record, row, kind, stamp, receipt')
  PROVE  Inv'
<1>1. \A m \in Ids : /\ receipt[m] \in Receipt /\ receipt'[m] \in Receipt
                     /\ receipt'[m].exists = receipt[m].exists
                     /\ receipt'[m].revealed = receipt[m].revealed
                     /\ receipt'[m].burnt = receipt[m].burnt
                     /\ receipt[m].read => receipt'[m].read
                     /\ receipt'[m].read => receipt[m].read \/ m \in marked
  BY DEF Inv, TypeOK, Receipt
<1>2. receipt' \in [Ids -> Receipt]
  BY <1>1
<1>3. Solid' /\ Forward(row, row', receipt, receipt')
  BY <1>1 DEF Inv, TypeOK, Solid, Forward, Away
<1>4. /\ row' \in Rows /\ Sent' = Sent
      /\ watermark' \in Ids \cup {None}
  BY DEF Inv, TypeOK, Rows, Sent
<1> QED
  BY <1>2, <1>3, <1>4, WriteStep

LEMMA MarkWrites ==
  ASSUME Inv, NEW r \in Requests, MarkUpdate(r) \/ MarkIdsUpdate(r)
  PROVE  Inv'
<1> USE DEF Inv
<1>a. loc[r] \in Local /\ NoLocal \in Local
  BY EmptyTyped DEF TypeOK
<1>b. Shape(loc[r], stamp)
  BY DEF Knowing, Known
<1>1. CASE MarkUpdate(r)
  <2> DEFINE marked == {m \in Ids : Markable(m) /\ stamp[m] <= loc[r].bound}
             record == [loc[r] EXCEPT !.step = "last"]
  <2>1. /\ receipt' = [m \in Ids |-> IF m \in marked
                                     THEN [receipt[m] EXCEPT !.read = TRUE]
                                     ELSE receipt[m]]
        /\ Goto(r, record) /\ At(r, "update")
        /\ UNCHANGED <<row, kind, stamp, watermark, sending, ops>>
    BY <1>1 DEF MarkUpdate
  <2>2. marked \in SUBSET Ids /\ \A m \in marked : receipt[m].exists
    BY DEF Markable
  <2>3. record \in Local
    BY <1>a DEF Local
  <2>4. /\ record.step = "last" /\ record.items = {}
        /\ record.rows = {} /\ record.todo = {} /\ record.gone = {}
        /\ record.erased = {} /\ record.top = None
    BY <1>a, <1>b, <2>1 DEF Shape, At, Local
  <2> HIDE DEF record, marked, Inv
  <2>5. Known(record, row, kind, stamp, receipt')
    BY <2>4, PlainKnown
  <2> QED
    BY <2>1, <2>2, <2>3, <2>5, Marks
<1>2. CASE MarkIdsUpdate(r)
  <2> DEFINE marked == {m \in loc[r].ids \cap NotDestroyed :
                          receipt[m].exists /\ ~receipt[m].read}
             record == IF marked = {} THEN NoLocal
                       ELSE [loc[r] EXCEPT !.step = "latest"]
  <2>1. /\ receipt' = [m \in Ids |-> IF m \in marked
                                     THEN [receipt[m] EXCEPT !.read = TRUE]
                                     ELSE receipt[m]]
        /\ Goto(r, record) /\ At(r, "updateIds")
        /\ UNCHANGED <<row, kind, stamp, watermark, sending, ops>>
    BY <1>2 DEF MarkIdsUpdate
  <2>2. marked \in SUBSET Ids /\ \A m \in marked : receipt[m].exists
    BY DEF NotDestroyed
  <2> HIDE DEF marked
  <2>3. record \in Local
    BY <1>a DEF Local
  <2>4. \/ record = NoLocal
        \/ /\ record.step = "latest" /\ record.items = {}
           /\ record.rows = {} /\ record.todo = {} /\ record.gone = {}
           /\ record.erased = {} /\ record.top = None
    BY <1>a, <1>b, <2>1 DEF Shape, At, Local
  <2> HIDE DEF record, Inv
  <2>5. Known(record, row, kind, stamp, receipt')
    BY <2>4, PlainKnown, NothingKnown
  <2> QED
    BY <2>1, <2>2, <2>3, <2>5, Marks
<1> QED
  BY <1>1, <1>2

LEMMA Advances ==
  ASSUME Inv, NEW r \in Requests, Advance(r)
  PROVE  Inv'
<1>1. watermark' \in Ids \cup {None} /\ Goto(r, NoLocal)
  BY DEF Inv, TypeOK, Advance, Present
<1>2. UNCHANGED <<row, kind, stamp, receipt, sending, ops>>
  BY DEF Advance
<1>3. /\ row' \in Rows /\ Sent' = Sent /\ receipt' \in [Ids -> Receipt]
      /\ Solid' /\ Forward(row, row', receipt, receipt')
  BY <1>2 DEF Inv, TypeOK, Rows, Sent, Solid, Forward, Away
<1> QED
  BY <1>1, <1>2, <1>3, EmptyTyped, NothingKnown, WriteStep

\* The steps of revealMessage that read.
LEMMA RevealReads ==
  ASSUME Inv, NEW r \in Requests, NEW m \in Ids,
         RevealStart(r, m) \/ RevealFind(r)
  PROVE  Inv'
<1> USE DEF Inv
<1>a. loc[r] \in Local /\ NoLocal \in Local
  BY EmptyTyped DEF TypeOK
<1>b. Shape(loc[r], stamp)
  BY DEF Knowing, Known
<1>1. CASE RevealStart(r, m)
  <2> DEFINE record == [NoLocal EXCEPT !.step = "find", !.msg = m]
  <2>1. record \in Local
    BY <1>a DEF Local
  <2>2. /\ record.step = "find" /\ record.msg = m /\ record.items = {}
        /\ record.rows = {} /\ record.todo = {} /\ record.gone = {}
        /\ record.erased = {} /\ record.top = None
    BY DEF NoLocal
  <2>3. Goto(r, record) /\ Reads
    BY <1>1 DEF RevealStart, Begin
  <2> HIDE DEF record, Inv
  <2>4. Known(record, row, kind, stamp, receipt)
    BY <2>2, PlainKnown
  <2> QED
    BY <2>1, <2>3, <2>4, ReadStep
<1>2. ASSUME RevealFind(r), NEW step \in {"create", "write"},
             Goto(r, [loc[r] EXCEPT !.step = step])
      PROVE  Inv'
  <2> DEFINE record == [loc[r] EXCEPT !.step = step]
  <2>1. record \in Local
    BY <1>a DEF Local
  <2>2. At(r, "find") /\ Reads
    BY <1>2 DEF RevealFind
  <2>3. /\ record.step = step /\ record.msg \in Ids /\ record.items = {}
        /\ record.rows = {} /\ record.todo = {} /\ record.gone = {}
        /\ record.erased = {} /\ record.top = None
    BY <1>a, <1>b, <2>2 DEF Shape, At, Local
  <2> HIDE DEF record, Inv
  <2>4. Known(record, row, kind, stamp, receipt)
    BY <2>3, PlainKnown
  <2> QED
    BY <1>2, <2>1, <2>2, <2>4, ReadStep DEF record
<1>3. ASSUME RevealFind(r), Goto(r, NoLocal) PROVE Inv'
  <2> HIDE DEF Inv
  <2> QED
    BY <1>3, <1>a, NothingKnown, ReadStep DEF RevealFind
<1> QED
  BY <1>1, <1>2, <1>3 DEF RevealFind

\* A receipt is created only where none was; opening also reads.
LEMMA RevealWrites ==
  ASSUME Inv, NEW r \in Requests, RevealCreate(r) \/ RevealWrite(r)
  PROVE  Inv'
<1> USE DEF Inv
<1> DEFINE m == loc[r].msg
<1>a. loc[r] \in Local /\ NoLocal \in Local
  BY EmptyTyped DEF TypeOK
<1>b. Shape(loc[r], stamp)
  BY DEF Knowing, Known
<1>c. m \in Ids /\ receipt[m] \in Receipt
  BY <1>b DEF Shape, RevealCreate, RevealWrite, At, TypeOK
<1>1. CASE RevealCreate(r) /\ receipt[m].exists
  <2>1. Goto(r, NoLocal) /\ Reads
    BY <1>1 DEF RevealCreate, Reads
  <2> HIDE DEF Inv
  <2> QED
    BY <2>1, <1>a, NothingKnown, ReadStep
<1>2. CASE RevealCreate(r) /\ ~receipt[m].exists
  <2> DEFINE record == [loc[r] EXCEPT !.step = "write"]
  <2>1. /\ receipt' = [receipt EXCEPT ![m] = Unread]
        /\ Goto(r, record) /\ At(r, "create")
        /\ UNCHANGED <<row, kind, stamp, watermark, sending, ops>>
    BY <1>2 DEF RevealCreate
  <2>2. record \in Local
    BY <1>a DEF Local
  <2>3. /\ record.step = "write" /\ record.msg \in Ids /\ record.items = {}
        /\ record.rows = {} /\ record.todo = {} /\ record.gone = {}
        /\ record.erased = {} /\ record.top = None
    BY <1>a, <1>b, <1>c, <2>1 DEF Shape, At, Local
  <2>4. /\ receipt' \in [Ids -> Receipt] /\ row' \in Rows /\ Sent' = Sent
        /\ watermark' \in Ids \cup {None}
    BY <2>1, EmptyTyped DEF TypeOK, Rows, Sent
  <2>5. Solid' /\ Forward(row, row', receipt, receipt')
    BY <1>2, <1>c, <2>1, EmptyTyped DEF Solid, Forward, TypeOK, Away
  <2> HIDE DEF record, Inv, m
  <2>6. Known(record, row', kind, stamp, receipt')
    BY <2>3, PlainKnown
  <2> QED
    BY <2>1, <2>2, <2>4, <2>5, <2>6, WriteStep
<1>3. CASE RevealWrite(r)
  <2>1. /\ receipt' = IF receipt[m].exists
                      THEN [receipt EXCEPT ![m].revealed = TRUE,
                                           ![m].read = TRUE,
                                           ![m].burnt = FALSE]
                      ELSE receipt
        /\ row' = IF row[m] = "due" THEN [row EXCEPT ![m] = "stored"] ELSE row
        /\ Goto(r, NoLocal)
        /\ UNCHANGED <<kind, stamp, watermark, sending, ops>>
    BY <1>3 DEF RevealWrite
  <2> HIDE DEF m
  <2>2. row' \in Rows /\ Sent' = Sent /\ watermark' \in Ids \cup {None}
    BY <1>c, <2>1 DEF TypeOK, Rows, Sent
  <2>3. /\ receipt' \in [Ids -> Receipt]
        /\ \A x \in Ids :
             \/ receipt'[x] = receipt[x]
             \/ /\ receipt[x].exists /\ receipt'[x].exists
                /\ receipt'[x].revealed /\ receipt'[x].read
                /\ ~receipt'[x].burnt
    <3>1. [receipt[m] EXCEPT !.revealed = TRUE, !.read = TRUE, !.burnt = FALSE]
            \in Receipt
      BY <1>c DEF Receipt
    <3> QED
      BY <1>c, <2>1, <3>1 DEF TypeOK, Receipt
  <2>4. Solid'
    BY <2>3 DEF Solid
  <2>5. Forward(row, row', receipt, receipt')
    BY <1>c, <2>1, <2>3 DEF Forward, TypeOK, Away
  <2> HIDE DEF Inv
  <2> QED
    BY <1>a, <2>1, <2>2, <2>3, <2>4, <2>5, NothingKnown, WriteStep
<1> QED
  BY <1>1, <1>2, <1>3

-----------------------------------------------------------------------------
\* The steps of a page and of a search that keep no more than they did, or
\* nothing.
LEMMA PageEnds ==
  ASSUME Inv, NEW r \in Requests,
         \/ \E all \in BOOLEAN, before \in Sent \cup {None} :
              ListStart(r, all, before)
         \/ SearchTotal(r) \/ Answer(r)
  PROVE  Inv'
<1> USE DEF Inv
<1>a. loc[r] \in Local /\ NoLocal \in Local
  BY EmptyTyped DEF TypeOK
<1>b. Known(loc[r], row, kind, stamp, receipt)
  BY DEF Knowing
<1>1. ASSUME NEW all \in BOOLEAN, NEW before \in Sent \cup {None},
             ListStart(r, all, before)
      PROVE  Inv'
  <2> DEFINE bound == IF before = None THEN Unbounded ELSE stamp[before]
             record == [NoLocal EXCEPT !.step = "rows", !.all = all,
                                       !.bound = bound]
  <2>1. bound \in Stamps \cup {Unbounded}
    BY DEF TypeOK, Sent
  <2>2. Goto(r, record) /\ Reads
    BY <1>1 DEF ListStart, Begin
  <2> HIDE DEF bound
  <2>3. record \in Local
    BY <1>a, <2>1 DEF Local
  <2>4. /\ record.step = "rows" /\ record.items = {}
        /\ record.rows = {} /\ record.todo = {} /\ record.gone = {}
        /\ record.erased = {} /\ record.top = None
    BY DEF NoLocal
  <2> HIDE DEF record, Inv
  <2>5. Known(record, row, kind, stamp, receipt)
    BY <2>4, PlainKnown
  <2> QED
    BY <2>2, <2>3, <2>5, ReadStep
<1>2. CASE SearchTotal(r)
  <2> DEFINE record == [loc[r] EXCEPT !.step = "answer"]
  <2>1. Goto(r, record) /\ Reads /\ At(r, "count")
    BY <1>2 DEF SearchTotal
  <2>2. record \in Local
    BY <1>a DEF Local
  <2>3. /\ record.step = "answer" /\ record.items = loc[r].items
        /\ record.rows = {} /\ record.todo = {} /\ record.gone = {}
        /\ record.erased = {} /\ record.top = None
    BY <1>a, <1>b, <2>1 DEF Known, Shape, At, Local
  <2> HIDE DEF record
  <2>4. Shape(record, stamp)
    BY <1>b, <2>3 DEF Known, Shape
  <2>5. Honest(record, row, kind, receipt)
    BY <1>b, <2>3 DEF Known, Honest
  <2>6. Past(record, row) /\ Filled(record, row, stamp)
    BY <2>3 DEF Past, Filled
  <2> HIDE DEF Inv
  <2> QED
    BY <2>1, <2>2, <2>4, <2>5, <2>6, ReadStep DEF Known
<1>3. CASE Answer(r)
  <2>1. Goto(r, NoLocal) /\ Reads
    BY <1>3 DEF Answer
  <2> HIDE DEF Inv
  <2> QED
    BY <1>a, <2>1, NothingKnown, ReadStep
<1> QED
  BY <1>1, <1>2, <1>3

\* One item of a form for each message of a set.
LEMMA ItemsOf ==
  ASSUME NEW set \in SUBSET Ids, NEW form \in {"full", "masked", "tombstone"}
  PROVE  /\ {Item(m, form) : m \in set} \subseteq Items
         /\ Shown({Item(m, form) : m \in set}) = set
         /\ Single({Item(m, form) : m \in set})
         /\ \A i \in {Item(m, form) : m \in set} : i.form = form /\ i.id \in set
<1> DEFINE items == {Item(m, form) : m \in set}
<1>1. \A m \in set : /\ Item(m, form) \in Items /\ Item(m, form) \in items
                     /\ Item(m, form).id = m /\ Item(m, form).form = form
  BY DEF Item, Items
<1>2. \A i \in items : \E m \in set : i = Item(m, form)
  OBVIOUS
<1> HIDE DEF items
<1>3. Shown(items) = set
  BY <1>1, <1>2 DEF Shown
<1>4. items \subseteq Items /\ Single(items)
  BY <1>1, <1>2 DEF Single
<1>5. \A i \in items : i.form = form /\ i.id \in set
  BY <1>1, <1>2
<1> QED
  BY <1>3, <1>4, <1>5 DEF items

\* The first query of a page: what is visible is looked at next, what is marked
\* is a placeholder.
LEMMA PageRows ==
  ASSUME Inv, NEW r \in Requests, ListRows(r)
  PROVE  Inv'
<1> USE DEF Inv
<1>a. loc[r] \in Local
  BY DEF TypeOK
<1>b. Shape(loc[r], stamp) /\ At(r, "rows") /\ Reads
  BY DEF Knowing, Known, ListRows
<1>1. PICK found \in SUBSET Ids :
        Goto(r, [loc[r] EXCEPT
          !.step = "view", !.rows = found \cap Visible,
          !.items = Tombstones(found \ Visible),
          !.gone = {m \in Ids : row[m] = "destroyed"},
          !.erased = {m \in Ids : row[m] = "purged"}])
  <2>1. {m \in IF loc[r].all THEN Present ELSE Visible :
           stamp[m] < loc[r].bound} \in SUBSET Ids
    BY DEF Present, Visible
  <2>2. \A set \in SUBSET Ids : Newest(set, Limit) \subseteq SUBSET Ids
    BY DEF Newest
  <2> QED
    BY <2>1, <2>2 DEF ListRows
<1> DEFINE items == Tombstones(found \ Visible)
           gone == {m \in Ids : row[m] = "destroyed"}
           erased == {m \in Ids : row[m] = "purged"}
           rows == found \cap Visible
           record == [loc[r] EXCEPT !.step = "view", !.rows = rows,
                        !.items = items, !.gone = gone, !.erased = erased]
<1>2. /\ items \subseteq Items /\ Shown(items) = found \ Visible
      /\ Single(items) /\ \A i \in items : i.form = "tombstone"
  BY ItemsOf DEF Tombstones
<1>3. /\ rows \subseteq Ids /\ rows \cap Shown(items) = {}
      /\ gone \subseteq Ids /\ erased \subseteq Ids
      /\ \A m \in gone : row[m] = "destroyed"
      /\ \A m \in erased : row[m] = "purged"
  BY <1>2
<1>4. Goto(r, record)
  BY <1>1
<1> HIDE DEF items, rows, gone, erased
<1>5. record \in Local
  BY <1>a, <1>2, <1>3 DEF Local
<1>6. /\ record.step = "view" /\ record.items = items /\ record.rows = rows
      /\ record.gone = gone /\ record.erased = erased
      /\ record.top = None
  BY <1>a, <1>b DEF Local, Shape, At
<1> HIDE DEF record
<1>7. Shape(record, stamp)
  BY <1>2, <1>3, <1>6 DEF Shape
<1>8. Honest(record, row, kind, receipt) /\ Past(record, row)
      /\ Filled(record, row, stamp)
  BY <1>2, <1>3, <1>6 DEF Honest, Past, Filled, Away
<1> HIDE DEF Inv
<1> QED
  BY <1>b, <1>4, <1>5, <1>7, <1>8, ReadStep DEF Known

\* The member's view of a message is one item of that message or none; content
\* of a burn message takes an opened receipt.
LEMMA ViewOf ==
  ASSUME NEW m \in Ids
  PROVE  /\ BurnView(m) \subseteq Items
         /\ \A i \in BurnView(m) : i.id = m
         /\ \A i, j \in BurnView(m) : i = j
         /\ \A i \in BurnView(m) :
              i.form = "full" /\ kind[m] = "burn" => receipt[m].revealed
BY DEF BurnView, Item, Items

LEMMA PageView ==
  ASSUME Inv, NEW r \in Requests, ListView(r)
  PROVE  Inv'
<1> USE DEF Inv
<1>a. loc[r] \in Local /\ loc[r].rows \subseteq Ids
  BY DEF TypeOK, Local
<1>b. Known(loc[r], row, kind, stamp, receipt) /\ At(r, "view") /\ Reads
  BY DEF Knowing, ListView
<1> DEFINE seen == UNION {BurnView(m) : m \in loc[r].rows}
           items == loc[r].items \cup seen
           record == [loc[r] EXCEPT
                        !.step = "holes", !.todo = {"tombstones", "marked"},
                        !.items = items, !.rows = {}]
<1>1. Goto(r, record)
  BY DEF ListView
<1>2. /\ seen \subseteq Items
      /\ \A i \in seen : i.id \in loc[r].rows
      /\ \A i, j \in seen : i.id = j.id => i = j
      /\ \A i \in seen : i.form = "full" /\ kind[i.id] = "burn" =>
           receipt[i.id].revealed
  BY <1>a, ViewOf
<1> HIDE DEF seen
<1>3. Single(items)
  BY <1>b, <1>2 DEF Known, Shape, Single, Shown, At
<1>4. items \subseteq Items
  BY <1>a, <1>2 DEF Local
<1>5. \A i \in items :
        i.form = "full" /\ kind[i.id] = "burn" /\ row[i.id] # "purged" =>
          receipt[i.id].revealed
  BY <1>b, <1>2 DEF Known, Honest
<1> HIDE DEF items
<1>6. record \in Local
  BY <1>a, <1>4 DEF Local
<1>7. /\ record.step = "holes" /\ record.items = items /\ record.rows = {}
      /\ record.todo = {"tombstones", "marked"}
      /\ record.gone = loc[r].gone /\ record.erased = loc[r].erased
      /\ record.top = None
  BY <1>a, <1>b DEF Local, Known, Shape, At
<1> HIDE DEF record
<1>8. Shape(record, stamp)
  BY <1>3, <1>7 DEF Shape
<1>9. Honest(record, row, kind, receipt) /\ Past(record, row)
      /\ Filled(record, row, stamp)
  BY <1>b, <1>5, <1>7 DEF Known, Honest, Past, Filled
<1> HIDE DEF Inv
<1> QED
  BY <1>b, <1>1, <1>6, <1>8, <1>9, ReadStep DEF Known

\* A query for placeholders finds each message it should, or Limit others that
\* are gone as well.
LEMMA Fills ==
  ASSUME Inv, NEW r \in Requests, NEW query \in {"tombstones", "marked"},
         NEW found \in SUBSET Ids,
         At(r, "holes"), Fill(r, query, found), Reads,
         \A m \in found : row[m] \in Away,
         query = "tombstones" => \A m \in loc[r].erased : m \in found,
         query = "marked" =>
           \A m \in loc[r].gone : row[m] = "destroyed" => m \in found
  PROVE  Inv'
<1> USE DEF Inv
<1>a. /\ loc[r] \in Local /\ loc[r].rows \subseteq Ids
      /\ loc[r].gone \subseteq Ids /\ loc[r].erased \subseteq Ids
  BY DEF TypeOK, Local
<1>b. Known(loc[r], row, kind, stamp, receipt)
  BY DEF Knowing
<1> DEFINE asked == {m \in found : InRange(r, m)}
<1>1. PICK new \in Newest(asked, Limit) :
        Goto(r, [loc[r] EXCEPT !.todo = @ \ {query}, !.rows = @ \cup new])
  BY DEF Fill
<1>2. new \subseteq asked /\ \A m \in asked \ new : Cardinality(new) = Limit
  <2>1. asked \in SUBSET Ids /\ Limit \in Nat
    OBVIOUS
  <2> HIDE DEF asked
  <2> QED
    BY <2>1, NewestFull
<1>3. \A m \in asked : /\ m \in Ids /\ row[m] \in Away
                       /\ Within(loc[r], m, stamp)
  BY DEF InRange, Within
<1>4. \A m \in found : Within(loc[r], m, stamp) => m \in asked
  BY DEF InRange, Within
<1> DEFINE todo == loc[r].todo \ {query}
           rows == loc[r].rows \cup new
           record == [loc[r] EXCEPT !.todo = todo, !.rows = rows]
<1>5. Goto(r, record)
  BY <1>1
<1>6. todo \subseteq {"tombstones", "marked"} /\ rows \subseteq Ids
  BY <1>a, <1>2, <1>3 DEF Local
<1> HIDE DEF todo, rows
<1>7. record \in Local
  BY <1>a, <1>6 DEF Local
<1>8. /\ record.step = "holes" /\ record.items = loc[r].items
      /\ record.rows = rows /\ record.todo = todo
      /\ record.gone = loc[r].gone /\ record.erased = loc[r].erased
      /\ record.bound = loc[r].bound /\ record.top = loc[r].top
  BY <1>a DEF Local, At
<1> HIDE DEF record
<1>9. \A m \in Ids : Within(record, m, stamp) <=> Within(loc[r], m, stamp)
  BY <1>8 DEF Within
<1>10. There(record) = There(loc[r]) \cup new
  BY <1>8 DEF There, rows
<1>11. Shape(record, stamp)
  <2>1. \A m \in record.rows : Within(record, m, stamp)
    BY <1>a, <1>b, <1>2, <1>3, <1>8, <1>9 DEF Known, Shape, At, rows
  <2> QED
    BY <1>b, <1>8, <2>1 DEF Known, Shape, At
<1>12. Honest(record, row, kind, receipt) /\ Past(record, row)
  BY <1>b, <1>8 DEF Known, Honest, Past
<1>13. ASSUME NEW m \in Ids, Covers(loc[r], m, row, stamp)
       PROVE  Covers(record, m, row, stamp)
  BY <1>9, <1>10, <1>13 DEF Covers, Packed
<1>14. ASSUME NEW m \in found
       PROVE  Covers(record, m, row, stamp)
  <2> SUFFICES ASSUME Within(record, m, stamp), m \notin There(record)
               PROVE  Packed(record, m, row)
    BY DEF Covers
  <2>1. m \in asked \ new
    BY <1>4, <1>9, <1>10
  <2>2. /\ new \in SUBSET There(record) /\ Cardinality(new) = Limit
        /\ m \notin new /\ \A x \in new : row[x] \in Away
    BY <1>2, <1>3, <1>10, <2>1
  <2> QED
    BY <2>2 DEF Packed
<1>15. Filled(record, row, stamp)
  <2>1. CASE query = "tombstones"
    BY <1>a, <1>b, <1>8, <1>13, <1>14, <2>1 DEF Known, Filled, At, todo
  <2>2. CASE query = "marked"
    BY <1>a, <1>b, <1>8, <1>13, <1>14, <2>2 DEF Known, Filled, At, todo
  <2> QED
    BY <2>1, <2>2
<1> HIDE DEF Inv
<1> QED
  BY <1>5, <1>7, <1>11, <1>12, <1>15, ReadStep DEF Known

LEMMA PageFills ==
  ASSUME Inv, NEW r \in Requests, ListTombstones(r) \/ ListMarked(r)
  PROVE  Inv'
<1>1. /\ Past(loc[r], row)
      /\ loc[r].gone \subseteq Ids /\ loc[r].erased \subseteq Ids
  BY DEF Inv, Knowing, Known, TypeOK, Local
<1>2. CASE ListTombstones(r)
  <2> DEFINE found == {m \in Ids : row[m] = "purged"}
  <2>1. /\ found \in SUBSET Ids /\ \A m \in found : row[m] \in Away
        /\ \A m \in loc[r].erased : m \in found
    BY <1>1 DEF Away, Past
  <2>2. At(r, "holes") /\ Fill(r, "tombstones", found) /\ Reads
    BY <1>2 DEF ListTombstones
  <2> HIDE DEF found
  <2> QED
    BY <2>1, <2>2, Fills
<1>3. CASE ListMarked(r)
  <2> DEFINE found == {m \in Ids : row[m] = "destroyed"}
  <2>1. /\ found \in SUBSET Ids /\ \A m \in found : row[m] \in Away
        /\ \A m \in loc[r].gone : row[m] = "destroyed" => m \in found
    BY <1>1 DEF Away
  <2>2. At(r, "holes") /\ Fill(r, "marked", found) /\ Reads
    BY <1>3 DEF ListMarked
  <2> HIDE DEF found
  <2> QED
    BY <2>1, <2>2, Fills
<1> QED
  BY <1>2, <1>3

\* Placeholders lie within the page, so adding them does not widen it.
LEMMA NoWider ==
  ASSUME NEW stamps \in [Ids -> Stamps],
         NEW record \in Local, NEW wider \in Local,
         wider.bound = record.bound,
         Shown(wider.items) = Shown(record.items) \cup record.rows,
         \A x \in record.rows : Within(record, x, stamps),
         NEW m \in Ids, Within(wider, m, stamps)
  PROVE  Within(record, m, stamps)
<1>1. /\ Shown(record.items) \subseteq Ids /\ record.rows \subseteq Ids
      /\ record.bound \in Int
      /\ \A x \in Ids : stamps[x] \in Int
  BY DEF Local, Shown, Items, Ids, Stamps, Unbounded
<1>2. CASE Shown(wider.items) = {}
  BY <1>2 DEF Within
<1>3. CASE Shown(wider.items) # {}
  <2>1. PICK x \in Shown(wider.items), y \in Shown(wider.items) :
          stamps[x] <= stamps[m] /\ stamps[m] <= stamps[y]
    BY <1>3 DEF Within
  <2>2. x \in Ids /\ y \in Ids
    BY <1>1, <2>1
  <2>3. CASE Shown(record.items) = {}
    <3>1. stamps[y] < record.bound
      BY <2>1, <2>3 DEF Within
    <3>2. stamps[m] < record.bound
      BY <1>1, <2>1, <2>2, <3>1
    <3> QED
      BY <2>3, <3>2 DEF Within
  <2>4. CASE Shown(record.items) # {}
    <3>1. \A z \in Shown(wider.items) :
            \E a, b \in Shown(record.items) :
              stamps[a] <= stamps[z] /\ stamps[z] <= stamps[b]
      <4>1. ASSUME NEW z \in Shown(record.items)
            PROVE  stamps[z] <= stamps[z]
        BY <1>1
      <4> QED
        BY <2>4, <4>1 DEF Within
    <3>2. PICK a \in Shown(record.items) : stamps[a] <= stamps[x]
      BY <2>1, <3>1
    <3>3. PICK b \in Shown(record.items) : stamps[y] <= stamps[b]
      BY <2>1, <3>1
    <3>4. stamps[a] <= stamps[m] /\ stamps[m] <= stamps[b]
      BY <1>1, <2>1, <2>2, <3>2, <3>3
    <3> QED
      BY <2>4, <3>2, <3>3, <3>4 DEF Within
  <2> QED
    BY <2>3, <2>4
<1> QED
  BY <1>2, <1>3

LEMMA PageMerge ==
  ASSUME Inv, NEW r \in Requests, ListMerge(r)
  PROVE  Inv'
<1> USE DEF Inv
<1>a. /\ loc[r] \in Local /\ loc[r].rows \subseteq Ids
      /\ loc[r].items \subseteq Items /\ stamp \in [Ids -> Stamps]
      /\ loc[r].gone \subseteq Ids /\ loc[r].erased \subseteq Ids
  BY DEF TypeOK, Local
<1>b. /\ Known(loc[r], row, kind, stamp, receipt)
      /\ At(r, "holes") /\ loc[r].todo = {} /\ Reads
  BY DEF Knowing, ListMerge
<1> DEFINE new == loc[r].rows \ Shown(loc[r].items)
           added == Tombstones(new)
           items == loc[r].items \cup added
           record == [loc[r] EXCEPT !.step = "answer", !.items = items]
<1>1. Goto(r, record)
  BY DEF ListMerge
<1>2. /\ added \subseteq Items /\ Shown(added) = new /\ Single(added)
      /\ \A i \in added : i.form = "tombstone" /\ i.id \in new
  BY <1>a, ItemsOf DEF Tombstones
<1> HIDE DEF added
<1>3. items \subseteq Items
  BY <1>a, <1>2
<1>4. Shown(items) = Shown(loc[r].items) \cup loc[r].rows
  BY <1>2 DEF Shown
<1>5. Single(items)
  BY <1>b, <1>2 DEF Known, Shape, Single, Shown
<1>6. \A i \in items :
        i.form = "full" /\ kind[i.id] = "burn" /\ row[i.id] # "purged" =>
          receipt[i.id].revealed
  BY <1>b, <1>2 DEF Known, Honest
<1> HIDE DEF items, new
<1>7. record \in Local
  BY <1>a, <1>3 DEF Local
<1>8. /\ record.step = "answer" /\ record.items = items
      /\ record.rows = loc[r].rows /\ record.todo = {}
      /\ record.gone = loc[r].gone /\ record.erased = loc[r].erased
      /\ record.bound = loc[r].bound /\ record.top = None
  BY <1>a, <1>b DEF Local, Known, Shape, At
<1> HIDE DEF record
<1>9. Shape(record, stamp)
  BY <1>4, <1>5, <1>8 DEF Shape
<1>10. Honest(record, row, kind, receipt) /\ Past(record, row)
  BY <1>b, <1>6, <1>8 DEF Known, Honest, Past
<1>11. ASSUME NEW m \in Ids, Covers(loc[r], m, row, stamp)
       PROVE  Covers(record, m, row, stamp)
  <2>1. There(record) = There(loc[r])
    BY <1>4, <1>8 DEF There
  <2>2. \A x \in loc[r].rows : Within(loc[r], x, stamp)
    BY <1>b DEF Known, Shape, At
  <2>3. Within(record, m, stamp) => Within(loc[r], m, stamp)
    BY <1>a, <1>4, <1>7, <1>8, <2>2, NoWider
  <2> QED
    BY <1>11, <2>1, <2>3 DEF Covers, Packed
<1>12. Filled(record, row, stamp)
  BY <1>a, <1>b, <1>8, <1>11 DEF Known, Filled, At
<1> HIDE DEF Inv
<1> QED
  BY <1>b, <1>1, <1>7, <1>9, <1>10, <1>12, ReadStep DEF Known

\* A search finds what is neither encrypted nor to be opened first.
LEMMA Searches ==
  ASSUME Inv, NEW r \in Requests, Search(r) \/ SearchGlobal(r)
  PROVE  Inv'
<1>1. ASSUME NEW found \in SUBSET Searchable, NEW step \in {"answer", "count"},
             Goto(r, [NoLocal EXCEPT
                        !.step = step,
                        !.items = {Item(m, "full") : m \in found}]),
             Reads
      PROVE  Inv'
  <2> DEFINE items == {Item(m, "full") : m \in found}
             record == [NoLocal EXCEPT !.step = step, !.items = items]
  <2>1. found \in SUBSET Ids /\ \A m \in found : kind[m] = "plain"
    BY DEF Searchable, Visible
  <2>2. /\ items \subseteq Items /\ Single(items)
        /\ \A i \in items : i.id \in found
    BY <2>1, ItemsOf
  <2> HIDE DEF items
  <2>3. record \in Local
    BY <2>2, EmptyTyped DEF Local
  <2>4. /\ record.step = step /\ record.items = items
        /\ record.rows = {} /\ record.todo = {} /\ record.gone = {}
        /\ record.erased = {} /\ record.top = None
    BY DEF NoLocal
  <2>5. Goto(r, record)
    BY <1>1 DEF items
  <2> HIDE DEF record
  <2>6. Shape(record, stamp)
    BY <2>2, <2>4 DEF Shape
  <2>7. Honest(record, row, kind, receipt)
    BY <2>1, <2>2, <2>4 DEF Honest
  <2>8. Past(record, row) /\ Filled(record, row, stamp)
    BY <2>4 DEF Past, Filled
  <2> QED
    BY <1>1, <2>3, <2>5, <2>6, <2>7, <2>8, ReadStep DEF Known
<1>2. CASE Search(r)
  <2>1. PICK found \in Newest(Searchable, Limit) :
          /\ Goto(r, [NoLocal EXCEPT
                        !.step = "answer",
                        !.items = {Item(m, "full") : m \in found}])
          /\ Reads
    BY <1>2 DEF Search, Begin
  <2>2. found \in SUBSET Searchable
    BY DEF Newest
  <2> QED
    BY <1>1, <2>1, <2>2
<1>3. CASE SearchGlobal(r)
  BY <1>1, <1>3 DEF SearchGlobal, Begin
<1> QED
  BY <1>2, <1>3

-----------------------------------------------------------------------------
LEMMA InitInv == Init => Inv
<1> SUFFICES ASSUME Init PROVE Inv
  OBVIOUS
<1>1. PICK n \in Stored :
        /\ row = [m \in Ids |-> IF m <= n THEN "stored" ELSE "absent"]
        /\ receipt = [m \in Ids |-> IF m <= n THEN Unread ELSE NoReceipt]
  BY DEF Init
<1>2. PICK s \in Scripts : /\ kind = [m \in Ids |-> s[m].kind]
                           /\ stamp = [m \in Ids |-> s[m].stamp]
  BY DEF Init
<1>3. kind \in [Ids -> Kinds] /\ stamp \in [Ids -> Stamps]
  <2>1. \A m \in Ids : s[m].kind \in Kinds /\ s[m].stamp \in Stamps
    BY ScriptsAssumption
  <2> QED
    BY <1>2, <2>1
<1>4. Solid
  BY <1>1 DEF Solid, Unread, NoReceipt
<1>5. Numbered
  <2>1. Sent = {m \in Ids : m <= n}
    BY <1>1 DEF Sent
  <2>2. n \in 0 .. MaxMessages /\ {m \in Ids : m <= n} = 1 .. n
    BY DEF Ids
  <2> QED
    BY <2>1, <2>2 DEF Numbered
<1>6. \A r \in Requests : loc[r] = NoLocal
  BY DEF Init
<1>7. Knowing
  BY <1>6, NothingKnown DEF Knowing
<1>8. TypeOK
  BY <1>1, <1>3, <1>6, EmptyTyped, ScenariosAssumption
  DEF Init, TypeOK, At, NoLocal, None
<1> QED
  BY <1>4, <1>5, <1>7, <1>8 DEF Inv

LEMMA StepInv == Inv /\ [Next]_vars => Inv'
<1> SUFFICES ASSUME Inv, [Next]_vars PROVE Inv'
  OBVIOUS
<1>1. CASE UNCHANGED vars
  BY <1>1
  DEF vars, Inv, TypeOK, At, Solid, Numbered, Sent, Knowing
<1>2. CASE SendRow
  BY <1>2, Sending
<1>3. CASE \E m \in Ids : Due(m) \/ BurnOut(m) \/ Destroy(m)
                          \/ Purge(m)
  BY <1>3, Fate
<1>4. CASE SendReceipts
  <2>1. sending \in Ids
    BY <1>4 DEF SendReceipts, Inv, TypeOK
  <2> QED
    BY <1>4, <2>1, Fate
<1>5. CASE \E r \in Requests :
             \/ \E upTo \in Sent \cup {None} : MarkStart(r, upTo)
             \/ MarkBound(r) \/ MarkUpdate(r) \/ MarkLast(r) \/ Advance(r)
             \/ \E ids \in (SUBSET Sent) \ {{}} : MarkIdsStart(r, ids)
             \/ MarkIdsUpdate(r) \/ MarkIdsLatest(r)
  BY <1>5, MarkReads, MarkWrites, Advances
<1>6. CASE \E r \in Requests :
             \/ \E m \in Ids : RevealStart(r, m)
             \/ RevealCreate(r) \/ RevealWrite(r)
  BY <1>6, RevealReads, RevealWrites
<1>7. ASSUME NEW r \in Requests, RevealFind(r) PROVE Inv'
  <2>1. loc[r].msg \in Ids
    BY <1>7 DEF RevealFind, At, Inv, Knowing, Known, Shape
  <2> QED
    BY <1>7, <2>1, RevealReads
<1>8. CASE \E r \in Requests :
             \/ \E all \in BOOLEAN, before \in Sent \cup {None} :
                  ListStart(r, all, before)
             \/ ListRows(r) \/ ListView(r) \/ ListTombstones(r) \/ ListMarked(r)
             \/ ListMerge(r) \/ Search(r) \/ SearchGlobal(r) \/ SearchTotal(r)
             \/ Answer(r)
  BY <1>8, PageEnds, PageRows, PageView, PageFills, PageMerge, Searches
<1> QED
  BY <1>1, <1>2, <1>3, <1>4, <1>5, <1>6, <1>7, <1>8 DEF Next

\* What the proofs rest on holds in every reachable state.
LEMMA Invariance == Spec => []Inv
BY InitInv, StepInv, PTL DEF Spec

-----------------------------------------------------------------------------
\* The rows and the requests in flight stay well typed.
THEOREM ReadingTyped == Spec => []TypeOK
<1>1. Inv => TypeOK
  BY DEF Inv
<1> QED
  BY <1>1, Invariance, PTL

\* The unread count contains nothing the list would leave out: a message whose
\* time the member has used up was opened, and what was opened was read.
THEOREM CountedIsSeen == Spec => []CountedCanBeSeen
<1>1. Inv => CountedCanBeSeen
  BY DEF Inv, Solid, CountedCanBeSeen, Counted, Visible, BurnView
<1> QED
  BY <1>1, Invariance, PTL

\* A page shows each message once, although a message may be live for one of its
\* queries, marked for the next and purged for the third.
THEOREM ShownOnceAlways == Spec => []ShownOnce
<1>1. Inv => ShownOnce
  BY DEF Inv, Knowing, Known, Shape, Single, ShownOnce, Answered
<1> QED
  BY <1>1, Invariance, PTL

\* An answer carries the content of a burn message only for somebody who opened
\* it, whatever was opened, destroyed or purged between its queries.
THEOREM ContentIsEarned == Spec => []ContentOnlyOnceOpened
<1>1. Inv => ContentOnlyOnceOpened
  BY DEF Inv, Knowing, Known, Honest, ContentOnlyOnceOpened, Answered
<1> QED
  BY <1>1, Invariance, PTL

\* A page has no gap among what was gone when it was asked for: what a query for
\* placeholders left out had Limit others in its place, more than the page holds.
LEMMA NoGap == Inv => GapsAreFilled
<1> SUFFICES ASSUME Inv, NEW r \in Requests, Answered(r),
                    Cardinality(Gone(r)) <= Limit, NEW m \in Gone(r),
                    \/ m \in loc[r].gone /\ row[m] = "destroyed"
                    \/ m \in loc[r].erased
             PROVE  m \in Shown(loc[r].items)
  BY DEF GapsAreFilled
<1>1. /\ Known(loc[r], row, kind, stamp, receipt)
      /\ loc[r] \in Local /\ stamp \in [Ids -> Stamps]
      /\ loc[r].step = "answer"
  BY DEF Inv, Knowing, TypeOK, Answered
<1>2. /\ m \in Ids /\ Within(loc[r], m, stamp)
      /\ IsFiniteSet(Ids)
  BY FS_Interval DEF Gone, InRange, Within, Ids
<1>3. There(loc[r]) = Shown(loc[r].items)
  BY <1>1 DEF Known, Shape, There
<1>4. Covers(loc[r], m, row, stamp)
  BY <1>1 DEF Known, Shape, Filled
<1>5. ASSUME Packed(loc[r], m, row) PROVE FALSE
  <2>1. PICK set \in SUBSET Shown(loc[r].items) :
          /\ Cardinality(set) = Limit /\ m \notin set
          /\ \A x \in set : row[x] \in Away
    BY <1>3, <1>5 DEF Packed
  <2>2. set \subseteq Ids
    BY <1>1 DEF Local, Items, Shown
  <2>3. \A x \in set : stamp[x] <= stamp[x]
    BY <1>1, <2>2 DEF Stamps
  <2>4. set \cup {m} \subseteq Gone(r)
    BY <2>1, <2>2, <2>3 DEF Gone, InRange, Away
  <2>5. Gone(r) \subseteq Ids
    BY DEF Gone
  <2>6. IsFiniteSet(set) /\ IsFiniteSet(Gone(r))
    BY <1>2, <2>2, <2>5, FS_Subset
  <2>7. Cardinality(set \cup {m}) = Limit + 1
    BY <2>1, <2>6, FS_AddElement
  <2>8. Cardinality(set \cup {m}) <= Cardinality(Gone(r))
    BY <2>4, <2>6, FS_Subset
  <2>9. Cardinality(Gone(r)) \in Nat
    BY <2>6, FS_CardinalityType
  <2> QED
    BY <2>7, <2>8, <2>9
<1> QED
  BY <1>2, <1>3, <1>4, <1>5 DEF Covers

THEOREM GapsAreFilledAlways == Spec => []GapsAreFilled
BY NoGap, Invariance, PTL

\* No step makes a read receipt unread: a batch of receipts that arrives after
\* the member opened the message finds the receipt there.
THEOREM ReadStaysRead == Spec => NeverUnread
<1>1. ASSUME Inv, [Next]_vars, NEW m \in Ids,
             receipt[m].read, receipt'[m].exists
      PROVE  receipt'[m].read
  <2>1. /\ receipt[m].exists /\ receipt[m] \in Receipt
        /\ receipt \in [Ids -> Receipt]
    BY <1>1 DEF Inv, Solid, TypeOK
  <2>2. CASE UNCHANGED receipt
    BY <1>1, <2>2
  <2>3. CASE SendReceipts
    BY <1>1, <2>1, <2>3 DEF SendReceipts, Inv, TypeOK
  <2>4. ASSUME NEW x \in Ids, BurnOut(x) PROVE receipt'[m].read
    BY <1>1, <2>1, <2>4 DEF BurnOut, Receipt
  <2>5. ASSUME NEW x \in Ids, Purge(x) PROVE receipt'[m].read
    BY <1>1, <2>1, <2>5 DEF Purge, NoReceipt
  <2>6. ASSUME NEW r \in Requests, MarkUpdate(r) \/ MarkIdsUpdate(r)
        PROVE  receipt'[m].read
    BY <1>1, <2>1, <2>6 DEF MarkUpdate, MarkIdsUpdate, Receipt
  <2>7. ASSUME NEW r \in Requests, RevealCreate(r) PROVE receipt'[m].read
    BY <1>1, <2>1, <2>7 DEF RevealCreate
  <2>8. ASSUME NEW r \in Requests, RevealWrite(r) PROVE receipt'[m].read
    BY <1>1, <2>1, <2>8 DEF RevealWrite, Receipt
  <2>9. \/ UNCHANGED receipt \/ SendReceipts
        \/ \E x \in Ids : BurnOut(x) \/ Purge(x)
        \/ \E r \in Requests : \/ MarkUpdate(r) \/ MarkIdsUpdate(r)
                               \/ RevealCreate(r) \/ RevealWrite(r)
    BY <1>1
    DEF Next, vars, SendRow, Due, Destroy, MarkStart, MarkBound, MarkLast,
        Advance, MarkIdsStart, MarkIdsLatest, RevealStart, RevealFind,
        ListStart, ListRows, ListView, ListTombstones, ListMarked, ListMerge,
        Search, SearchGlobal, SearchTotal, Answer, Begin, Reads
  <2> QED
    BY <2>2, <2>3, <2>4, <2>5, <2>6, <2>7, <2>8, <2>9
<1>2. Inv /\ [Next]_vars =>
        [\A m \in Ids :
           receipt[m].read /\ receipt'[m].exists => receipt'[m].read]_vars
  BY <1>1
<1> QED
  BY <1>2, Invariance, PTL DEF Spec, NeverUnread

\* The watermark moves to a message of the same instant or a later one, however
\* the requests of several devices overlap, as long as its message is there.
THEOREM WatermarkMovesForward == Spec => WatermarkForward
<1>1. ASSUME Inv, [Next]_vars, watermark \in Present
      PROVE  \E m \in Ids : watermark' = m /\ stamp[watermark] <= stamp[m]
  <2>1. watermark \in Ids /\ stamp[watermark] \in Int
    BY <1>1 DEF Present, Inv, TypeOK, Stamps
  <2>2. CASE UNCHANGED watermark
    BY <2>1, <2>2
  <2>3. ASSUME NEW r \in Requests, Advance(r), watermark' # watermark
        PROVE  \E m \in Ids : watermark' = m /\ stamp[watermark] <= stamp[m]
    <3>1. /\ watermark' = loc[r].top /\ loc[r].top \in Present
          /\ stamp[loc[r].top] >= stamp[watermark]
      BY <1>1, <2>3 DEF Advance
    <3>2. loc[r].top \in Ids /\ stamp[loc[r].top] \in Int
      BY <1>1, <3>1 DEF Present, Inv, TypeOK, Stamps
    <3> QED
      BY <2>1, <3>1, <3>2
  <2>4. UNCHANGED watermark \/ \E r \in Requests : Advance(r)
    BY <1>1
    DEF Next, vars, SendRow, SendReceipts, Due, BurnOut, Destroy, Purge,
        MarkStart, MarkBound, MarkUpdate, MarkLast, MarkIdsStart, MarkIdsUpdate,
        MarkIdsLatest, RevealStart, RevealFind, RevealCreate, RevealWrite,
        ListStart, ListRows, ListView, ListTombstones, ListMarked, ListMerge,
        Search, SearchGlobal, SearchTotal, Answer, Begin, Reads
  <2> QED
    BY <2>2, <2>3, <2>4
<1>2. Inv /\ [Next]_vars => [MovesForward]_vars
  BY <1>1 DEF MovesForward
<1> QED
  BY <1>2, Invariance, PTL DEF Spec, WatermarkForward
=============================================================================
