------------------------ MODULE ConversationReading ------------------------
(***************************************************************************)
(* What one member sees of one conversation: pages of history with the     *)
(* placeholders of destroyed messages, search, read receipts and the read  *)
(* watermark (message.service.ts), the unread count (conversation.service). *)
(*                                                                         *)
(* The member uses several devices, so requests of one user overlap; other *)
(* people send, and the schedulers destroy and purge messages meanwhile in *)
(* the stages of MessageFate.  An action is one statement with the         *)
(* JavaScript that runs until the next await.                              *)
(*                                                                         *)
(* Messages are numbered as they are sent.  created_at is a stamp: two     *)
(* messages may carry the same one.                                        *)
(***************************************************************************)
EXTENDS Integers, FiniteSets

CONSTANTS
  MaxMessages,  \* bound: messages ever sent
  Stored,       \* numbers of messages that may be there at the start
  Requests,     \* slots for requests of the member
  Limit,        \* page size
  Scripts,      \* bound: the conversations, a kind and a stamp for each message
  Scenarios     \* sets of operations that occur together in a behaviour

AllOps == {"send", "mark", "markIds", "reveal", "list", "search", "expire",
           "destroy"}

ASSUME BoundsAssumption ==
  MaxMessages \in Nat /\ Stored \subseteq 0 .. MaxMessages
ASSUME LimitAssumption == Limit \in Nat \ {0}
ASSUME ScenariosAssumption == Scenarios \subseteq SUBSET AllOps

Ids == 1 .. MaxMessages
None == 0
Stamps == 1 .. MaxMessages
Kinds == {"plain", "burn", "secret"}  \* secret: end-to-end encrypted
ASSUME ScriptsAssumption ==
  /\ Scripts \subseteq [Ids -> [kind: Kinds, stamp: Stamps]]
  /\ \A s \in Scripts : \A m, n \in Ids : m <= n => s[m].stamp <= s[n].stamp

Unbounded == MaxMessages + 1  \* a query without a bound on created_at

VARIABLES
  row,        \* of messages; "due" is stored with destroy_at in the past
  kind,       \* what was sent
  stamp,      \* created_at
  receipt,    \* the member's row of message_receipts
  watermark,  \* conversation_members.last_read_message_id
  sending,    \* the message whose receipts are about to be written
  loc,        \* requests in flight
  ops         \* the operations of this behaviour

vars == <<row, kind, stamp, receipt, watermark, sending, loc, ops>>

Receipt == [exists: BOOLEAN, read: BOOLEAN, revealed: BOOLEAN, burnt: BOOLEAN]
NoReceipt ==
  [exists |-> FALSE, read |-> FALSE, revealed |-> FALSE, burnt |-> FALSE]
Unread == [NoReceipt EXCEPT !.exists = TRUE]

Items == [id: Ids, form: {"full", "masked", "tombstone"}]

\* msg is the message a request names, bound the stamp it must not exceed
\* (created_at < before for a page), top the candidate for the watermark;
\* the rest belongs to a page: rows found, items collected, queries for
\* placeholders still out, and the messages gone when the request began.
Local ==
  [step: {"idle", "bound", "update", "last", "updateIds", "latest", "advance",
          "find", "create", "write", "rows", "view", "holes", "count", "answer"},
   msg: Ids \cup {None}, bound: Stamps \cup {Unbounded}, ids: SUBSET Ids,
   top: Ids \cup {None}, all: BOOLEAN, rows: SUBSET Ids, items: SUBSET Items,
   todo: SUBSET {"tombstones", "marked"}, gone: SUBSET Ids,
   erased: SUBSET Ids]
NoLocal ==
  [step |-> "idle", msg |-> None, bound |-> Unbounded, ids |-> {},
   top |-> None, all |-> FALSE, rows |-> {}, items |-> {}, todo |-> {},
   gone |-> {}, erased |-> {}]

At(r, step) == loc[r].step = step

TypeOK ==
  /\ row \in [Ids -> {"absent", "stored", "due", "destroyed", "purged"}]
  /\ kind \in [Ids -> Kinds]
  /\ stamp \in [Ids -> Stamps]
  /\ receipt \in [Ids -> Receipt]
  /\ watermark \in Ids \cup {None}
  /\ sending \in Ids \cup {None}
  /\ loc \in [Requests -> Local]
  /\ \A r \in Requests : At(r, "advance") <=> loc[r].top # None
  /\ ops \subseteq AllOps

\* The member has read nothing of the messages that are there.
Init ==
  /\ \E n \in Stored :
       /\ row = [m \in Ids |-> IF m <= n THEN "stored" ELSE "absent"]
       /\ receipt = [m \in Ids |-> IF m <= n THEN Unread ELSE NoReceipt]
  /\ \E s \in Scripts :
       /\ kind = [m \in Ids |-> s[m].kind]
       /\ stamp = [m \in Ids |-> s[m].stamp]
  /\ watermark = None
  /\ sending = None
  /\ loc = [r \in Requests |-> NoLocal]
  /\ ops \in Scenarios
-----------------------------------------------------------------------------
Sent == {m \in Ids : row[m] # "absent"}
Present == {m \in Ids : row[m] \in {"stored", "due", "destroyed"}}
NotDestroyed == {m \in Ids : row[m] \in {"stored", "due"}}
Visible == {m \in Ids : row[m] = "stored"}

\* ORDER BY created_at DESC LIMIT n; equal stamps come in any order.
Newest(set, n) ==
  {top \in SUBSET set :
     /\ Cardinality(top) = IF Cardinality(set) < n THEN Cardinality(set) ELSE n
     /\ \A x \in top, y \in set \ top : stamp[x] >= stamp[y]}

Goto(r, record) == loc' = [loc EXCEPT ![r] = record]
Reads == UNCHANGED <<row, kind, stamp, receipt, watermark, sending, ops>>

\* A request arrives; its first statement is step.
Begin(r, op, record) ==
  /\ op \in ops
  /\ At(r, "idle")
  /\ Goto(r, record)
  /\ Reads
-----------------------------------------------------------------------------
(* MessageService.sendMessage of another member, and the fate of the row *)

\* The row is saved; its receipts are not there yet.
SendRow ==
  /\ "send" \in ops
  /\ sending = None
  /\ LET m == Cardinality(Sent) + 1
     IN /\ m \in Ids
        /\ row' = [row EXCEPT ![m] = "stored"]
        /\ sending' = m
  /\ UNCHANGED <<kind, stamp, receipt, watermark, loc, ops>>

\* Mutant of SendReceipts: a receipt that is there already is overwritten.
SendReceiptsOverwrites ==
  /\ sending # None
  /\ receipt' = [receipt EXCEPT ![sending] = Unread]
  /\ sending' = None
  /\ UNCHANGED <<row, kind, stamp, watermark, loc, ops>>

\* One INSERT for all members: a receipt that a reveal created meanwhile makes
\* it fail, and the request with it.
SendReceipts ==
  /\ sending # None
  /\ receipt' = [receipt EXCEPT ![sending] = IF @.exists THEN @ ELSE Unread]
  /\ sending' = None
  /\ UNCHANGED <<row, kind, stamp, watermark, loc, ops>>

\* destroy_at passes, the member's own time runs out, or a scheduler or an
\* administrator marks the row.
Due(m) ==
  /\ "expire" \in ops
  /\ row[m] = "stored" /\ kind[m] = "burn"
  /\ row' = [row EXCEPT ![m] = "due"]
  /\ UNCHANGED <<kind, stamp, receipt, watermark, sending, loc, ops>>

BurnOut(m) ==
  /\ "expire" \in ops
  /\ receipt[m].revealed /\ ~receipt[m].burnt
  /\ receipt' = [receipt EXCEPT ![m].burnt = TRUE]
  /\ UNCHANGED <<row, kind, stamp, watermark, sending, loc, ops>>

Destroy(m) ==
  /\ "destroy" \in ops
  /\ m \in NotDestroyed
  /\ row' = [row EXCEPT ![m] = "destroyed"]
  /\ UNCHANGED <<kind, stamp, receipt, watermark, sending, loc, ops>>

\* DestroyService.purge: the tombstone replaces row and receipts.
Purge(m) ==
  /\ row[m] = "destroyed"
  /\ row' = [row EXCEPT ![m] = "purged"]
  /\ receipt' = [receipt EXCEPT ![m] = NoReceipt]
  /\ UNCHANGED <<kind, stamp, watermark, sending, loc, ops>>
-----------------------------------------------------------------------------
(* MessageService.markAsRead: everything up to a message, or everything *)

MarkStart(r, upTo) ==
  Begin(r, "mark", [NoLocal EXCEPT
    !.step = IF upTo = None THEN "update" ELSE "bound", !.msg = upTo])

\* A bound that is not found is no bound.
MarkBound(r) ==
  /\ At(r, "bound")
  /\ Goto(r, [loc[r] EXCEPT !.step = "update",
       !.bound = IF loc[r].msg \in Present THEN stamp[loc[r].msg] ELSE @])
  /\ Reads

\* Encrypted messages and unopened burn messages are passed over.
Markable(m) ==
  /\ receipt[m].exists /\ ~receipt[m].read
  /\ m \in NotDestroyed
  /\ \/ kind[m] = "plain"
     \/ kind[m] = "burn" /\ receipt[m].revealed

MarkUpdate(r) ==
  /\ At(r, "update")
  /\ receipt' = [m \in Ids |-> IF Markable(m) /\ stamp[m] <= loc[r].bound
                               THEN [receipt[m] EXCEPT !.read = TRUE]
                               ELSE receipt[m]]
  /\ Goto(r, [loc[r] EXCEPT !.step = "last"])
  /\ UNCHANGED <<row, kind, stamp, watermark, sending, ops>>

\* Mutant of Candidate: the watermark is moved although no message was found.
CandidateAlways(r, set) ==
  \E top \in Newest(set, 1) :
    Goto(r, [loc[r] EXCEPT !.step = "advance",
                           !.top = IF top = {} THEN @ ELSE CHOOSE m \in top : TRUE])

\* A message to move the watermark to, or the end of the request.
Candidate(r, set) ==
  \/ /\ set = {}
     /\ Goto(r, NoLocal)
  \/ \E top \in Newest(set, 1) : \E m \in top :
       Goto(r, [loc[r] EXCEPT !.step = "advance", !.top = m])

\* The last message in range, whether it could be marked or not.
MarkLast(r) ==
  /\ At(r, "last")
  /\ Candidate(r, {m \in Present : stamp[m] <= loc[r].bound})
  /\ Reads

\* Mutant of Advance: whoever comes last sets the watermark.
AdvanceUnconditionally(r) ==
  /\ At(r, "advance")
  /\ watermark' = IF loc[r].top \in Present THEN loc[r].top ELSE watermark
  /\ Goto(r, NoLocal)
  /\ UNCHANGED <<row, kind, stamp, receipt, sending, ops>>

\* advanceLastRead: one UPDATE with both messages joined.
Advance(r) ==
  /\ At(r, "advance")
  /\ watermark' =
       IF /\ loc[r].top \in Present
          /\ watermark \in Present => stamp[loc[r].top] >= stamp[watermark]
       THEN loc[r].top ELSE watermark
  /\ Goto(r, NoLocal)
  /\ UNCHANGED <<row, kind, stamp, receipt, sending, ops>>

(* MessageService.markMessagesRead: the messages a client lists *)

MarkIdsStart(r, ids) ==
  Begin(r, "markIds", [NoLocal EXCEPT !.step = "updateIds", !.ids = ids])

\* If nothing was marked the watermark stays.
MarkIdsUpdate(r) ==
  /\ At(r, "updateIds")
  /\ LET marked == {m \in loc[r].ids \cap NotDestroyed :
                      receipt[m].exists /\ ~receipt[m].read}
     IN /\ receipt' = [m \in Ids |-> IF m \in marked
                                     THEN [receipt[m] EXCEPT !.read = TRUE]
                                     ELSE receipt[m]]
        /\ Goto(r, IF marked = {} THEN NoLocal
                   ELSE [loc[r] EXCEPT !.step = "latest"])
  /\ UNCHANGED <<row, kind, stamp, watermark, sending, ops>>

MarkIdsLatest(r) ==
  /\ At(r, "latest")
  /\ Candidate(r, loc[r].ids \cap Present)
  /\ Reads
-----------------------------------------------------------------------------
(* MessageService.revealMessage, as far as it touches receipts *)

RevealStart(r, m) ==
  /\ m \in Visible /\ kind[m] = "burn"
  /\ Begin(r, "reveal", [NoLocal EXCEPT !.step = "find", !.msg = m])

RevealFind(r) ==
  /\ At(r, "find")
  /\ LET mine == receipt[loc[r].msg]
     IN Goto(r, CASE ~mine.exists -> [loc[r] EXCEPT !.step = "create"]
                  [] mine.exists /\ ~mine.revealed ->
                       [loc[r] EXCEPT !.step = "write"]
                  [] OTHER -> NoLocal)
  /\ Reads

\* A second request that creates the receipt fails.
RevealCreate(r) ==
  /\ At(r, "create")
  /\ LET m == loc[r].msg
     IN IF receipt[m].exists
        THEN Goto(r, NoLocal) /\ UNCHANGED receipt
        ELSE /\ receipt' = [receipt EXCEPT ![m] = Unread]
             /\ Goto(r, [loc[r] EXCEPT !.step = "write"])
  /\ UNCHANGED <<row, kind, stamp, watermark, sending, ops>>

\* Mutant of RevealWrite: opening does not count as reading.
RevealWriteUnread(r) ==
  /\ At(r, "write")
  /\ LET m == loc[r].msg
     IN receipt' = IF receipt[m].exists
                   THEN [receipt EXCEPT ![m].revealed = TRUE] ELSE receipt
  /\ Goto(r, NoLocal)
  /\ UNCHANGED <<row, kind, stamp, watermark, sending, ops>>

\* Opened and read at once.  destroy_at moves with it, in a second statement
\* that BurnMessage keeps apart: a row past its time may have time again.
RevealWrite(r) ==
  /\ At(r, "write")
  /\ LET m == loc[r].msg
     IN /\ receipt' = IF receipt[m].exists
                      THEN [receipt EXCEPT ![m].revealed = TRUE,
                                           ![m].read = TRUE,
                                           ![m].burnt = FALSE]
                      ELSE receipt
        /\ row' = IF row[m] = "due" THEN [row EXCEPT ![m] = "stored"] ELSE row
  /\ Goto(r, NoLocal)
  /\ UNCHANGED <<kind, stamp, watermark, sending, ops>>
-----------------------------------------------------------------------------
(* MessageService.listMessages; all is include_destroyed *)

Item(m, form) == [id |-> m, form |-> form]
Tombstones(set) == {Item(m, "tombstone") : m \in set}
Shown(items) == {i.id : i \in items}

\* bound: pages only read, so one is fetched at a time.
PageSteps == {"rows", "view", "holes", "count", "answer"}

\* The first page, or the page before a message the client has.
ListStart(r, all, before) ==
  /\ \A q \in Requests : loc[q].step \notin PageSteps
  /\ Begin(r, "list", [NoLocal EXCEPT
       !.step = "rows", !.all = all,
       !.bound = IF before = None THEN Unbounded ELSE stamp[before]])

ListRows(r) ==
  /\ At(r, "rows")
  /\ \E found \in Newest({m \in IF loc[r].all THEN Present ELSE Visible :
                            stamp[m] < loc[r].bound}, Limit) :
       Goto(r, [loc[r] EXCEPT
         !.step = "view", !.rows = found \cap Visible,
         !.items = Tombstones(found \ Visible),
         !.gone = {m \in Ids : row[m] = "destroyed"},
         !.erased = {m \in Ids : row[m] = "purged"}])
  /\ Reads

\* Mutant of BurnView: whoever has read a message may see it.
BurnViewRead(m) ==
  CASE kind[m] # "burn" -> {Item(m, "full")}
    [] kind[m] = "burn" /\ receipt[m].burnt -> {}
    [] OTHER -> {Item(m, IF receipt[m].read THEN "full" ELSE "masked")}

\* applyBurnView: what the member's receipt lets him see.
BurnView(m) ==
  CASE kind[m] # "burn" -> {Item(m, "full")}
    [] kind[m] = "burn" /\ receipt[m].burnt -> {}
    [] OTHER -> {Item(m, IF receipt[m].revealed THEN "full" ELSE "masked")}

\* Mutant of ListView: only the messages that were purged get a placeholder.
ListViewPurgedOnly(r) ==
  /\ At(r, "view")
  /\ Goto(r, [loc[r] EXCEPT
       !.step = "holes", !.todo = {"tombstones"},
       !.items = @ \cup UNION {BurnView(m) : m \in loc[r].rows},
       !.rows = {}])
  /\ Reads

ListView(r) ==
  /\ At(r, "view")
  /\ Goto(r, [loc[r] EXCEPT
       !.step = "holes", !.todo = {"tombstones", "marked"},
       !.items = @ \cup UNION {BurnView(m) : m \in loc[r].rows},
       !.rows = {}])
  /\ Reads

\* attachTombstones: between the oldest and the newest item of the page; an
\* empty page reaches back from its bound.
InRange(r, m) ==
  LET shown == Shown(loc[r].items)
  IN IF shown = {} THEN stamp[m] < loc[r].bound
     ELSE \E x, y \in shown : stamp[x] <= stamp[m] /\ stamp[m] <= stamp[y]

\* Mutant of Fill: the items already there are not looked at.
FillAgain(r, query, found) ==
  \E new \in Newest({m \in found : InRange(r, m)}, Limit) :
    Goto(r, [loc[r] EXCEPT !.todo = @ \ {query}, !.rows = @ \cup new,
                           !.items = @ \cup Tombstones(new)])

\* What a query for placeholders finds is kept until both have returned; an
\* id that is there already is not added again.
Fill(r, query, found) ==
  \E new \in Newest({m \in found : InRange(r, m)}, Limit) :
    Goto(r, [loc[r] EXCEPT !.todo = @ \ {query}, !.rows = @ \cup new])

\* The two queries run at the same time, each on its own connection.
ListTombstones(r) ==
  /\ At(r, "holes") /\ "tombstones" \in loc[r].todo
  /\ Fill(r, "tombstones", {m \in Ids : row[m] = "purged"})
  /\ Reads

ListMarked(r) ==
  /\ At(r, "holes") /\ "marked" \in loc[r].todo
  /\ Fill(r, "marked", {m \in Ids : row[m] = "destroyed"})
  /\ Reads

ListMerge(r) ==
  /\ At(r, "holes") /\ loc[r].todo = {}
  /\ Goto(r, [loc[r] EXCEPT
       !.step = "answer",
       !.items = @ \cup Tombstones(loc[r].rows \ Shown(@))])
  /\ Reads

\* searchMessages with a keyword that matches everything and without a bound.
\* What has to be opened first and what is encrypted is not searched.
Searchable == {m \in Visible : kind[m] = "plain"}

Search(r) ==
  \E found \in Newest(Searchable, Limit) :
    Begin(r, "search", [NoLocal EXCEPT
      !.step = "answer", !.items = {Item(m, "full") : m \in found}])

\* searchGlobal filters alike.  Its rows and their total come from two
\* statements; the rows are read raw from a join, where page and page size have
\* no effect.
SearchGlobal(r) ==
  Begin(r, "search", [NoLocal EXCEPT
    !.step = "count", !.items = {Item(m, "full") : m \in Searchable}])

SearchTotal(r) ==
  /\ At(r, "count")
  /\ Goto(r, [loc[r] EXCEPT !.step = "answer"])
  /\ Reads

\* The answer is sent.
Answer(r) ==
  /\ At(r, "answer")
  /\ Goto(r, NoLocal)
  /\ Reads

Next ==
  \/ SendRow \/ SendReceipts
  \/ \E m \in Ids :
       Due(m) \/ BurnOut(m) \/ Destroy(m) \/ Purge(m)
  \/ \E r \in Requests :
       \/ \E upTo \in Sent \cup {None} : MarkStart(r, upTo)
       \/ MarkBound(r) \/ MarkUpdate(r) \/ MarkLast(r) \/ Advance(r)
       \/ \E ids \in (SUBSET Sent) \ {{}} : MarkIdsStart(r, ids)
       \/ MarkIdsUpdate(r) \/ MarkIdsLatest(r)
       \/ \E m \in Ids : RevealStart(r, m)
       \/ RevealFind(r) \/ RevealCreate(r) \/ RevealWrite(r)
       \/ \E all \in BOOLEAN, before \in Sent \cup {None} :
            ListStart(r, all, before)
       \/ ListRows(r) \/ ListView(r) \/ ListTombstones(r) \/ ListMarked(r)
       \/ ListMerge(r) \/ Search(r) \/ SearchGlobal(r) \/ SearchTotal(r)
       \/ Answer(r)

Spec == Init /\ [][Next]_vars
-----------------------------------------------------------------------------
\* "Irreversible", message.service.ts: no path turns a read receipt back into
\* an unread one, not even the sender's batch of receipts that arrives after
\* the member opened the message.
NeverUnread ==
  [][\A m \in Ids :
       receipt[m].read /\ receipt'[m].exists => receipt'[m].read]_vars

\* advanceLastRead only moves forward, however the requests of several devices
\* overlap; what it may step back from is a message that was purged.
MovesForward ==
  watermark \in Present =>
    \E m \in Ids : watermark' = m /\ stamp[watermark] <= stamp[m]
WatermarkForward == [][MovesForward]_vars

\* conversation.service.ts counts unread receipts of messages that are neither
\* destroyed nor due.
Counted == {m \in Visible : receipt[m].exists /\ ~receipt[m].read}

\* Whatever is counted as unread is still to be seen: a message whose time the
\* member has used up is never counted, although the list leaves it out.
CountedCanBeSeen == \A m \in Counted : BurnView(m) # {}

Answered(r) == loc[r].step = "answer"

\* One item for each message, although a message may be live for the first
\* query of a page, marked for the second and purged for the third.
ShownOnce ==
  \A r \in Requests : Answered(r) =>
    \A i, j \in loc[r].items : i.id = j.id => i = j

\* Content of a burn message goes only to those who have opened it.
ContentOnlyOnceOpened ==
  \A r \in Requests : Answered(r) =>
    \A i \in loc[r].items :
      (i.form = "full" /\ kind[i.id] = "burn" /\ row[i.id] # "purged") =>
        receipt[i.id].revealed

\* The messages within the page that are placeholders now.
Gone(r) == {m \in Ids : row[m] \in {"destroyed", "purged"} /\ InRange(r, m)}

\* A page has no gap: what was destroyed when the request began and lies between
\* two items is there as a placeholder, unless it is purged just then or there
\* are more of them than fit.
GapsAreFilled ==
  \A r \in Requests : Answered(r) /\ Cardinality(Gone(r)) <= Limit =>
    \A m \in Gone(r) :
      (m \in loc[r].gone /\ row[m] = "destroyed") \/ m \in loc[r].erased =>
        m \in Shown(loc[r].items)
-----------------------------------------------------------------------------
(* What the documents and comments promise and the code does not keep. *)

\* BURN_V2_DESIGN.md, acceptance case 10: whoever enters the conversation after
\* a message was purged sees its placeholder.  The first page is meant, if the
\* message is newer than one the page shows.
PurgedIsShown ==
  \A r \in Requests : Answered(r) /\ loc[r].bound = Unbounded =>
    \A m \in loc[r].erased :
      (\E n \in Shown(loc[r].items) : stamp[n] < stamp[m]) =>
        m \in Shown(loc[r].items)

\* message.service.ts, markAsRead: only what is not newer than the message named
\* is marked.
OnlyUpToBound ==
  [][\A r \in Requests :
       At(r, "update") /\ loc'[r].step = "last" /\ loc[r].msg # None =>
         \A m \in Ids : receipt'[m].read /\ ~receipt[m].read =>
           stamp[m] <= stamp[loc[r].msg] ]_vars

\* conversation.service.ts: a burn message counts as unread until it is opened.
ReadMeansOpened ==
  \A m \in Ids : kind[m] = "burn" /\ receipt[m].read => receipt[m].revealed
=============================================================================
