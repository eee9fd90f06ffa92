------------------------------ MODULE Notices ------------------------------
(***************************************************************************)
(* What administrators tell everybody: announcements with their read marks *)
(* (announcement.service.ts) and releases of the app with their files      *)
(* (app-version.service.ts).  Both save a row and then push an event.      *)
(*                                                                         *)
(* An action is one statement, or one operation on the file system, with   *)
(* the JavaScript that runs until the next await.  The save of a row that  *)
(* was loaded writes every column back as it was loaded, and inserts the   *)
(* row again if it has been deleted.  A file that is to be removed is       *)
(* removed, and a failed save has saved nothing.                           *)
(***************************************************************************)
EXTENDS Integers, FiniteSets

CONSTANTS
  Users,      \* active accounts
  Audiences,  \* whom an announcement may be for
  MaxNotices, \* bound: announcements ever
  MaxCode,    \* bound: version codes of one platform
  MaxUploads, \* bound: files ever uploaded
  Requests,   \* slots for requests in flight
  Scenarios   \* sets of operations that occur together in a behaviour

AllOps == {"announce", "read", "badge", "remove", "publish", "edit", "delete",
           "fail", "outage", "invalid"}

ASSUME AudiencesAssumption == Audiences \subseteq SUBSET Users
ASSUME BoundsAssumption ==
  MaxNotices \in Nat /\ MaxCode \in Nat /\ MaxUploads \in Nat
ASSUME ScenariosAssumption == Scenarios \subseteq SUBSET AllOps

Notes == 1 .. MaxNotices
Codes == 1 .. MaxCode
Uploads == 1 .. MaxUploads
NoUser == "nobody"

VARIABLES
  notice,   \* announcements and whom they are for
  read,     \* announcement_reads, with unique (announcement, user)
  pushed,   \* urgent announcements on their way to those who are connected
  version,  \* app_versions of one platform, with unique version_code
  uploads,  \* files uploaded so far
  disk,     \* uploads/app: each file under its multer name, its final one, or gone
  released, \* history: the files of releases that have been saved
  told,     \* the last app:update for a code
  loc,      \* requests in flight
  ops       \* the operations of this behaviour

announcements == <<notice, read, pushed>>
files == <<uploads, disk, released>>
releases == <<version, files, told>>
vars == <<announcements, releases, loc, ops>>

Notice == [state: {"absent", "there", "gone"}, for: Audiences \cup {{}}]
\* id names a row and the file of its apk_url: each publication saves one row, for
\* the file it has uploaded.
Version == [id: 0 .. MaxUploads, published: BOOLEAN, force: BOOLEAN]
NoVersion == [id |-> 0, published |-> FALSE, force |-> FALSE]

\* note, user and code are what a request is about; shown and unread what it
\* has found; row the release it loaded or brings, was the one its save found;
\* ask whether it is to be published, again whether it must be broadcast.
\* History of a badge request: calm, announcements unread ever since it began;
\* might, those unread or removed at some moment since then.
Local ==
  [step: {"idle", "push", "find", "insert", "show", "count", "badge",
          "dropReads", "drop", "check", "save", "merge", "write", "broadcast",
          "dropCode"},
   note: Notes \cup {0}, user: Users \cup {NoUser}, code: Codes \cup {0},
   shown: SUBSET Notes, unread: 0 .. MaxNotices, row: Version, was: Version,
   ask: BOOLEAN, again: BOOLEAN, calm: SUBSET Notes, might: SUBSET Notes]
NoLocal ==
  [step |-> "idle", note |-> 0, user |-> NoUser, code |-> 0, shown |-> {},
   unread |-> 0, row |-> NoVersion, was |-> NoVersion, ask |-> FALSE,
   again |-> FALSE, calm |-> {}, might |-> {}]

TypeOK ==
  /\ notice \in [Notes -> Notice]
  /\ read \subseteq Notes \X Users
  /\ pushed \subseteq Notes \X Users
  /\ version \in [Codes -> Version]
  /\ uploads \in 0 .. MaxUploads
  /\ disk \in [Uploads -> {"absent", "received", "named"}]
  /\ released \subseteq Uploads
  /\ told \in [Codes -> {"nothing", "update", "force"}]
  /\ loc \in [Requests -> Local]
  /\ ops \subseteq AllOps

Init ==
  /\ notice = [n \in Notes |-> [state |-> "absent", for |-> {}]]
  /\ read = {}
  /\ pushed = {}
  /\ version = [c \in Codes |-> NoVersion]
  /\ uploads = 0
  /\ disk = [f \in Uploads |-> "absent"]
  /\ released = {}
  /\ told = [c \in Codes |-> "nothing"]
  /\ loc = [r \in Requests |-> NoLocal]
  /\ ops \in Scenarios

At(r, step) == loc[r].step = step
Goto(r, record) == loc' = [loc EXCEPT ![r] = record]
Step(r, step) == [loc[r] EXCEPT !.step = step]
Reads == UNCHANGED <<announcements, releases, ops>>

Begin(r, op, record) ==
  /\ op \in ops
  /\ At(r, "idle")
  /\ Goto(r, record)
  /\ Reads
-----------------------------------------------------------------------------
(* AnnouncementService *)

\* isVisibleTo: the announcements there are for a user.
VisibleTo(u, notes) ==
  {n \in Notes : notes[n].state = "there" /\ u \in notes[n].for}

\* Those the user has no read mark for.
UnreadBy(u, notes, marks) ==
  {n \in VisibleTo(u, notes) : <<n, u>> \notin marks}

\* The announcements and marks change; badge requests see it in their history.
Change(r, record, notes, marks) ==
  /\ notice' = notes
  /\ read' = marks
  /\ LET removed == {n \in Notes : notice[n].state # notes[n].state
                                 /\ notes[n].state = "gone"}
     IN loc' = [q \in Requests |->
          IF q = r THEN record
          ELSE IF loc[q].step \in {"show", "count"}
          THEN [loc[q] EXCEPT
                 !.calm = @ \cap UnreadBy(loc[q].user, notes, marks),
                 !.might = @ \cup UnreadBy(loc[q].user, notes, marks) \cup removed]
          ELSE loc[q]]
  /\ UNCHANGED <<releases, ops>>

Announce(r, for, urgent) ==
  /\ "announce" \in ops
  /\ At(r, "idle")
  /\ \E n \in Notes :
       /\ \A m \in Notes : (notice[m].state = "absent") <=> m >= n
       /\ Change(r, IF urgent THEN [NoLocal EXCEPT !.step = "push", !.note = n]
                    ELSE NoLocal,
                 [notice EXCEPT ![n] = [state |-> "there", for |-> for]], read)
  /\ UNCHANGED pushed

\* An urgent one is pushed to its audience, from the row as it was saved.
Push(r) ==
  /\ At(r, "push")
  /\ pushed' = pushed \cup {loc[r].note} \X notice[loc[r].note].for
  /\ Goto(r, NoLocal)
  /\ UNCHANGED <<notice, read, releases, ops>>

\* markRead, whoever it is for: found, not marked yet, marked; the unique key lets a second mark
\* fail, which is ignored.
ReadStart(r, n, u) ==
  /\ notice[n].state = "there"
  /\ Begin(r, "read", [NoLocal EXCEPT !.step = "find", !.note = n, !.user = u])

ReadFind(r) ==
  /\ At(r, "find")
  /\ Goto(r, IF <<loc[r].note, loc[r].user>> \in read THEN NoLocal
             ELSE Step(r, "insert"))
  /\ Reads

ReadInsert(r) ==
  /\ At(r, "insert")
  /\ Change(r, NoLocal, notice, read \cup {<<loc[r].note, loc[r].user>>})
  /\ UNCHANGED pushed

\* unreadCount; the list of announcements with their marks is read the same way.
BadgeStart(r, u) ==
  Begin(r, "badge", [NoLocal EXCEPT
    !.step = "show", !.user = u, !.calm = UnreadBy(u, notice, read),
    !.might = UnreadBy(u, notice, read)])

\* Mutant of BadgeShow: whom an announcement is for is not looked at.
BadgeShowAll(r) ==
  /\ At(r, "show")
  /\ Goto(r, [Step(r, "count") EXCEPT
       !.shown = {n \in Notes : notice[n].state = "there"}])
  /\ Reads

BadgeShow(r) ==
  /\ At(r, "show")
  /\ Goto(r, [Step(r, "count") EXCEPT !.shown = VisibleTo(loc[r].user, notice)])
  /\ Reads

\* Mutant of BadgeCount: all marks of the user are counted.
BadgeCountAll(r) ==
  /\ At(r, "count")
  /\ Goto(r, [Step(r, "badge") EXCEPT
       !.unread = Cardinality(loc[r].shown)
                  - Cardinality({n \in Notes : <<n, loc[r].user>> \in read})])
  /\ Reads

\* Only marks for the announcements just found are counted.
BadgeCount(r) ==
  /\ At(r, "count")
  /\ Goto(r, [Step(r, "badge") EXCEPT
       !.unread = Cardinality(loc[r].shown)
                  - Cardinality({n \in loc[r].shown : <<n, loc[r].user>> \in read})])
  /\ Reads

BadgeAnswer(r) ==
  /\ At(r, "badge")
  /\ Goto(r, NoLocal)
  /\ Reads

\* deleteAnnouncement: the marks first, then the row.
RemoveStart(r, n) ==
  /\ notice[n].state = "there"
  /\ Begin(r, "remove", [NoLocal EXCEPT !.step = "dropReads", !.note = n])

RemoveReads(r) ==
  /\ At(r, "dropReads")
  /\ Change(r, Step(r, "drop"), notice, {m \in read : m[1] # loc[r].note})
  /\ UNCHANGED pushed

RemoveRow(r) ==
  /\ At(r, "drop")
  /\ Change(r, NoLocal, [notice EXCEPT ![loc[r].note].state = "gone"], read)
  /\ UNCHANGED pushed
-----------------------------------------------------------------------------
(* AppVersionService *)

Exists(c) == version[c].id # 0

\* The interceptor stores the file before anything is checked.
Receive ==
  /\ uploads < MaxUploads
  /\ uploads' = uploads + 1
  /\ disk' = [disk EXCEPT ![uploads + 1] = "received"]
  /\ UNCHANGED <<announcements, version, released, told, ops>>

\* One that is no APK, or too large, is removed at once.
PublishStart(r, c, force) ==
  /\ "publish" \in ops
  /\ At(r, "idle")
  /\ Receive
  /\ Goto(r, [NoLocal EXCEPT
       !.step = "check", !.code = c,
       !.row = [id |-> uploads + 1, published |-> TRUE, force |-> force]])

\* The other fields are validated when the file is there, and nothing removes it
\* if they are refused.
PublishInvalid ==
  /\ "invalid" \in ops
  /\ Receive
  /\ UNCHANGED loc

Refused(r) ==
  /\ disk' = [disk EXCEPT ![loc[r].row.id] = "absent"]
  /\ Goto(r, NoLocal)

\* The code must exceed all that are there.  The file is renamed at once, which
\* may fail.
PublishCheck(r) ==
  /\ At(r, "check")
  /\ \/ /\ \/ \E c \in Codes : Exists(c) /\ c >= loc[r].code
           \/ "fail" \in ops
        /\ Refused(r)
     \/ /\ \A c \in Codes : Exists(c) => c < loc[r].code
        /\ disk' = [disk EXCEPT ![loc[r].row.id] = "named"]
        /\ Goto(r, Step(r, "save"))
  /\ UNCHANGED <<announcements, version, uploads, released, told, ops>>

\* The lookup of the highest code, or mkdir, fails: nothing removes the file.
PublishCheckFails(r) ==
  /\ "outage" \in ops
  /\ At(r, "check")
  /\ Goto(r, NoLocal)
  /\ Reads

Saved(r) ==
  /\ ~Exists(loc[r].code)
  /\ version' = [version EXCEPT ![loc[r].code] = loc[r].row]
  /\ released' = released \cup {loc[r].row.id}
  /\ Goto(r, Step(r, "broadcast"))
  /\ UNCHANGED disk

\* Mutant of PublishSave: the file of a release that could not be saved stays.
PublishSaveKeeps(r) ==
  /\ At(r, "save")
  /\ \/ Saved(r)
     \/ /\ Exists(loc[r].code) \/ "fail" \in ops
        /\ Goto(r, NoLocal)
        /\ UNCHANGED <<version, released, disk>>
  /\ UNCHANGED <<announcements, uploads, told, ops>>

\* Another request may have saved the code since: the unique key refuses it.
PublishSave(r) ==
  /\ At(r, "save")
  /\ \/ Saved(r)
     \/ /\ Exists(loc[r].code) \/ "fail" \in ops
        /\ Refused(r)
        /\ UNCHANGED <<version, released>>
  /\ UNCHANGED <<announcements, uploads, told, ops>>

\* updateVersion: the row is loaded and merged with what is asked for.
EditLoad(r, c, published, force) ==
  /\ Exists(c)
  /\ LET new == [version[c] EXCEPT
                  !.published = IF published = "keep" THEN @ ELSE published = "yes",
                  !.force = IF force = "keep" THEN @ ELSE force = "yes"]
     IN Begin(r, "edit", [NoLocal EXCEPT
          !.step = "merge", !.code = c, !.row = new, !.ask = published = "yes",
          !.again = \/ published = "yes" /\ ~version[c].published
                    \/ new.force # version[c].force])

\* The save looks the row up again by its id.
EditSave(r) ==
  /\ At(r, "merge")
  /\ LET now == version[loc[r].code]
     IN Goto(r, [Step(r, "write") EXCEPT
          !.was = IF now.id = loc[r].row.id THEN now ELSE NoVersion])
  /\ Reads

\* A row that was not found is inserted, unless its code is taken meanwhile; of
\* one that was, the columns that differ are updated if it is still there.
Written(r) ==
  LET c == loc[r].code  now == version[c]
      was == loc[r].was  row == loc[r].row
  IN IF was.id = 0 THEN row
     ELSE IF now.id # row.id THEN now
     ELSE [id |-> now.id,
           published |-> IF row.published = was.published THEN now.published
                         ELSE row.published,
           force |-> IF row.force = was.force THEN now.force ELSE row.force]

EditWrite(r) ==
  /\ At(r, "write")
  /\ IF loc[r].was.id = 0 /\ Exists(loc[r].code)
     THEN Goto(r, NoLocal) /\ UNCHANGED version
     ELSE /\ version' = [version EXCEPT ![loc[r].code] = Written(r)]
          /\ Goto(r, IF loc[r].row.published /\ loc[r].again
                     THEN Step(r, "broadcast") ELSE NoLocal)
  /\ UNCHANGED <<announcements, files, told, ops>>

\* app:update goes to all active accounts, with what this request saved.
Broadcast(r) ==
  /\ At(r, "broadcast")
  /\ told' = [told EXCEPT ![loc[r].code] =
                IF loc[r].row.force THEN "force" ELSE "update"]
  /\ Goto(r, NoLocal)
  /\ UNCHANGED <<announcements, version, files, ops>>

DeleteFind(r, c) ==
  /\ Exists(c)
  /\ Begin(r, "delete", [NoLocal EXCEPT
       !.step = "dropCode", !.code = c, !.row = version[c]])

\* Mutant of DeleteRow: the file goes with the row.
DeleteRowAndFile(r) ==
  /\ At(r, "dropCode")
  /\ version' = IF version[loc[r].code].id = loc[r].row.id
                THEN [version EXCEPT ![loc[r].code] = NoVersion] ELSE version
  /\ disk' = [disk EXCEPT ![loc[r].row.id] = "absent"]
  /\ Goto(r, NoLocal)
  /\ UNCHANGED <<announcements, uploads, released, told, ops>>

\* The file is kept.
DeleteRow(r) ==
  /\ At(r, "dropCode")
  /\ version' = IF version[loc[r].code].id = loc[r].row.id
                THEN [version EXCEPT ![loc[r].code] = NoVersion] ELSE version
  /\ Goto(r, NoLocal)
  /\ UNCHANGED <<announcements, files, told, ops>>

Choice == {"keep", "yes", "no"}

Next ==
  \/ PublishInvalid
  \/ \E r \in Requests :
       \/ \E for \in Audiences, urgent \in BOOLEAN : Announce(r, for, urgent)
       \/ Push(r)
       \/ \E n \in Notes, u \in Users : ReadStart(r, n, u)
       \/ ReadFind(r) \/ ReadInsert(r)
       \/ \E u \in Users : BadgeStart(r, u)
       \/ BadgeShow(r) \/ BadgeCount(r) \/ BadgeAnswer(r)
       \/ \E n \in Notes : RemoveStart(r, n)
       \/ RemoveReads(r) \/ RemoveRow(r)
       \/ \E c \in Codes, force \in BOOLEAN : PublishStart(r, c, force)
       \/ PublishCheck(r) \/ PublishCheckFails(r) \/ PublishSave(r)
       \/ \E c \in Codes, published \in Choice, force \in Choice :
            EditLoad(r, c, published, force)
       \/ EditSave(r) \/ EditWrite(r) \/ Broadcast(r)
       \/ \E c \in Codes : DeleteFind(r, c)
       \/ DeleteRow(r)

Spec == Init /\ [][Next]_vars
-----------------------------------------------------------------------------
\* The number on the badge lies between the announcements that were unread all
\* the while and those that were unread or deleted at some moment of the request,
\* although its two queries see different states and marks of deleted
\* announcements stay behind.
BadgeIsPlausible ==
  \A r \in Requests : At(r, "badge") =>
    /\ Cardinality(loc[r].calm) <= loc[r].unread
    /\ loc[r].unread <= Cardinality(loc[r].might)

\* A refused or failed release leaves no file under its final name: such a file
\* has been a release's, or belongs to a request about to save it.  One under its
\* multer name belongs to a request about to check it, unless validation, the
\* lookup or mkdir may fail, whose files stay.
NoFileLeft ==
  \A f \in Uploads :
    /\ disk[f] = "named" =>
         f \in released \/ \E r \in Requests : At(r, "save") /\ loc[r].row.id = f
    /\ disk[f] = "received" =>
         \/ ops \cap {"outage", "invalid"} # {}
         \/ \E r \in Requests : At(r, "check") /\ loc[r].row.id = f

\* deleteVersion keeps the file ("物理 APK 文件保留"), which matters to an edit that
\* loaded the row before and inserts it again: the file of every release is there
\* under its final name, whatever fails, is refused, deleted or saved again.
ReleaseHasFile ==
  \A c \in Codes : Exists(c) => disk[version[c].id] = "named"
-----------------------------------------------------------------------------
(* What the documents promise and the code does not keep. *)

\* APP_UPDATE.md: a release that was withdrawn is no longer offered, until it is
\* published again.
WithdrawnStays ==
  [][\A c \in Codes :
       Exists(c) /\ ~version[c].published /\ version'[c].published =>
         \E r \in Requests : At(r, "write") /\ loc[r].code = c /\ loc[r].ask]_vars
=============================================================================
