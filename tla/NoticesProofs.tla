--------------------------- MODULE NoticesProofs ---------------------------
(***************************************************************************)
(* Proofs about Notices for any audiences, any number of announcements,    *)
(* releases and requests.                                                  *)
(*                                                                         *)
(* The number on the badge is the difference of two queries, between which *)
(* announcements may come, go and be read, and marks of an announcement    *)
(* may be deleted before the announcement is.  The invariant says what of  *)
(* the first query still holds when the second one runs.                   *)
(*                                                                         *)
(* The files of releases are safe because no two requests hold the same    *)
(* upload: the one that removes its file cannot remove that of a release,  *)
(* nor an edit bring back a release whose file was never one.              *)
(***************************************************************************)
EXTENDS Notices, FiniteSetTheorems, TLAPS

\* What a request is about is known at the statements that use it.
Subject(l) ==
  /\ l.step \in {"push", "find", "insert", "dropReads", "drop"} =>
       l.note \in Notes
  /\ l.step \in {"find", "insert"} => l.user \in Users
  /\ l.step \in {"check", "save", "merge", "write", "broadcast", "dropCode"} =>
       l.code \in Codes

\* What a badge request has counted so far, against its history: those unread
\* all the while are unread, and those unread now, or deleted, are in might.
Watching(l, notes, marks) ==
  /\ l.step = "show" =>
       /\ l.calm \subseteq UnreadBy(l.user, notes, marks)
       /\ UnreadBy(l.user, notes, marks) \subseteq l.might
  /\ l.step = "count" =>
       /\ l.calm \subseteq {n \in l.shown : <<n, l.user>> \notin marks}
       /\ \A n \in l.shown :
            /\ notes[n].state # "absent"
            /\ l.user \in notes[n].for
            /\ notes[n].state = "gone" \/ <<n, l.user>> \notin marks =>
                 n \in l.might
  /\ l.step = "badge" =>
       /\ Cardinality(l.calm) <= l.unread
       /\ l.unread <= Cardinality(l.might)

Fitting(l, notes, marks) == Subject(l) /\ Watching(l, notes, marks)

\* The upload of a request before its save is its own and no release's; what an
\* edit writes back has been a release.
Uploading(l) == l.step \in {"check", "save"}
FileOf(l, ups, files2, rel) ==
  /\ Uploading(l) => l.row.id \in 1 .. ups /\ l.row.id \notin rel
  /\ l.step = "check" => files2[l.row.id] = "received"
  /\ l.step = "save" => files2[l.row.id] = "named"
  /\ l.step \in {"merge", "write"} => l.row.id \in rel

Owned == \A r \in Requests : FileOf(loc[r], uploads, disk, released)
Apart == \A q, r \in Requests :
           q # r /\ Uploading(loc[q]) /\ Uploading(loc[r]) =>
             loc[q].row.id # loc[r].row.id
Releases ==
  /\ released \subseteq 1 .. uploads
  /\ \A f \in released : disk[f] = "named"
  /\ \A c \in Codes : Exists(c) => version[c].id \in released

Files == Owned /\ Apart /\ Releases /\ NoFileLeft

Inv == TypeOK /\ Files /\ \A r \in Requests : Fitting(loc[r], notice, read)

-----------------------------------------------------------------------------
(* What most steps have in common *)

\* The empty records are well typed, and an idle request asks for nothing.
LEMMA EmptyTyped ==
  /\ NoVersion \in Version
  /\ NoLocal \in Local
  /\ NoLocal.step = "idle"
BY BoundsAssumption DEF NoVersion, Version, NoLocal, Local

\* There are finitely many announcements.
LEMMA NotesFinite ==
  /\ IsFiniteSet(Notes)
  /\ Cardinality(Notes) = MaxNotices
BY FS_Interval, BoundsAssumption, 1 \in Int DEF Notes

\* An idle request, and one that only pushes, removes or edits, remembers
\* nothing that others can make false.
LEMMA Carefree ==
  ASSUME NEW l \in Local, NEW notes, NEW marks,
         l.step \notin {"show", "count", "badge"}
  PROVE  Watching(l, notes, marks)
BY DEF Watching

\* A record that is not before its save owns no upload, nor does one that has
\* kept it become another.
SameFile(l, l2) ==
  /\ Uploading(l) \/ Uploading(l2) => l2.step = l.step /\ l2.row = l.row
  /\ l2.step \in {"merge", "write"} => l2.row.id \in released

\* Files are as good as before when none is touched and no request takes or
\* leaves one.
LEMMA FilesKept ==
  ASSUME Files, UNCHANGED <<files, ops>>,
         \A q \in Requests : SameFile(loc[q], loc'[q]),
         \A c \in Codes : version'[c].id # 0 => version'[c].id \in released
  PROVE  Files'
<1>1. Owned'
  BY DEF Files, Owned, FileOf, Uploading, SameFile, files
<1>2. Apart'
  BY DEF Files, Apart, Uploading, SameFile
<1>3. Releases'
  BY DEF Files, Releases, Exists, files
<1>4. NoFileLeft'
  BY DEF Files, NoFileLeft, SameFile, Uploading, files, At
<1> QED
  BY <1>1, <1>2, <1>3, <1>4 DEF Files

\* A request that leaves the announcements alone keeps the invariant if its own
\* record fits and the files do.
LEMMA OwnRecord ==
  ASSUME Inv, NEW r \in Requests, NEW record \in Local,
         Goto(r, record),
         UNCHANGED <<notice, read, ops>>,
         pushed' \subseteq Notes \X Users,
         version' \in [Codes -> Version],
         uploads' \in 0 .. MaxUploads,
         disk' \in [Uploads -> {"absent", "received", "named"}],
         released' \subseteq Uploads,
         told' \in [Codes -> {"nothing", "update", "force"}],
         Files', Fitting(record, notice, read)
  PROVE  Inv'
<1>1. loc' \in [Requests -> Local] /\ loc'[r] = record
  BY DEF Goto, Inv, TypeOK
<1>2. \A q \in Requests \ {r} : loc'[q] = loc[q]
  BY DEF Goto, Inv, TypeOK
<1>3. TypeOK'
  BY <1>1 DEF Inv, TypeOK
<1>4. \A q \in Requests : Fitting(loc'[q], notice, read)
  BY <1>1, <1>2 DEF Inv
<1> QED
  BY <1>3, <1>4 DEF Inv

\* The same for a step that changes at most a release and what was told of it.
LEMMA OwnStep ==
  ASSUME Inv, NEW r \in Requests, NEW record \in Local,
         Goto(r, record),
         UNCHANGED <<notice, read, files, ops>>,
         pushed' \subseteq Notes \X Users,
         version' \in [Codes -> Version],
         told' \in [Codes -> {"nothing", "update", "force"}],
         \A c \in Codes : version'[c].id # 0 => version'[c].id \in released,
         Subject(record), Watching(record, notice, read),
         ~At(r, "check"), ~At(r, "save"), ~Uploading(record),
         record.step \in {"merge", "write"} => record.row.id \in released
  PROVE  Inv'
<1>1. /\ uploads' \in 0 .. MaxUploads
      /\ disk' \in [Uploads -> {"absent", "received", "named"}]
      /\ released' \subseteq Uploads
  BY DEF Inv, TypeOK, files
<1>2. \A q \in Requests : SameFile(loc[q], loc'[q])
  <2>1. loc'[r] = record /\ \A q \in Requests \ {r} : loc'[q] = loc[q]
    BY DEF Goto, Inv, TypeOK
  <2>2. SameFile(loc[r], record)
    BY DEF SameFile, Uploading, At
  <2>3. \A q \in Requests : SameFile(loc[q], loc[q])
    BY DEF SameFile, Inv, Files, Owned, FileOf
  <2> QED
    BY <2>1, <2>2, <2>3
<1>3. Files'
  BY <1>2, FilesKept DEF Inv
<1> QED
  BY <1>1, <1>3, OwnRecord DEF Fitting

\* And for one that reads or answers and changes nothing.
LEMMA OwnReading ==
  ASSUME Inv, NEW r \in Requests, NEW record \in Local,
         Goto(r, record), Reads,
         Subject(record), Watching(record, notice, read),
         ~At(r, "check"), ~At(r, "save"), ~Uploading(record),
         record.step \in {"merge", "write"} => record.row.id \in released
  PROVE  Inv'
<1>1. /\ pushed' \subseteq Notes \X Users
      /\ version' \in [Codes -> Version]
      /\ told' \in [Codes -> {"nothing", "update", "force"}]
      /\ UNCHANGED <<notice, read, files, ops>>
      /\ \A c \in Codes : version'[c].id # 0 => version'[c].id \in released
  BY DEF Inv, TypeOK, Reads, announcements, releases, Files, Releases, Exists
<1> QED
  BY <1>1, OwnStep

\* Announcements only appear and are deleted for good; whom one is for never
\* changes.
Onward(notes) ==
  \A n \in Notes : notice[n].state # "absent" =>
    /\ notes[n].state # "absent"
    /\ notes[n].for = notice[n].for
    /\ notice[n].state = "gone" => notes[n].state = "gone"

\* A step that changes announcements or marks keeps what the badge requests in
\* flight have counted true, since their history takes the change in.
LEMMA Changed ==
  ASSUME Inv, NEW r \in Requests, NEW record \in Local,
         NEW notes \in [Notes -> Notice], NEW marks \in SUBSET (Notes \X Users),
         Change(r, record, notes, marks), UNCHANGED pushed,
         Onward(notes), Subject(record),
         ~At(r, "check"), ~At(r, "save"), ~Uploading(record),
         record.step \notin {"show", "count", "badge", "merge", "write"}
  PROVE  Inv'
<1> DEFINE removed == {n \in Notes : notice[n].state # notes[n].state
                                     /\ notes[n].state = "gone"}
           Now(u) == UnreadBy(u, notes, marks)
<1>1. /\ notice' = notes /\ read' = marks
      /\ UNCHANGED <<version, files, told, ops>>
  BY DEF Change, releases
<1>2. loc' \in [Requests -> Local] /\ loc'[r] = record
  <2>1. \A u : Now(u) \subseteq Notes
    BY DEF UnreadBy, VisibleTo
  <2>2. removed \subseteq Notes
    OBVIOUS
  <2>3. \A q \in Requests : loc[q] \in Local
    BY DEF Inv, TypeOK
  <2>4. \A q \in Requests :
          [loc[q] EXCEPT !.calm = @ \cap Now(loc[q].user),
                         !.might = @ \cup Now(loc[q].user) \cup removed] \in Local
    <3> HIDE DEF Now, removed
    <3> QED
      BY <2>1, <2>2, <2>3 DEF Local
  <2> HIDE DEF Local
  <2> QED
    BY <2>3, <2>4 DEF Change
<1>3. TypeOK'
  BY <1>1, <1>2 DEF Inv, TypeOK, files
<1>4. Fitting(record, notes, marks)
  BY Carefree DEF Fitting
<1>5. ASSUME NEW q \in Requests \ {r}
      PROVE  Fitting(loc'[q], notes, marks)
  <2> DEFINE l == loc[q]
  <2>1. l \in Local /\ Fitting(l, notice, read)
    BY DEF Inv, TypeOK
  <2>2. CASE l.step \notin {"show", "count"}
    <3>1. loc'[q] = l
      BY <2>2 DEF Change
    <3> QED
      BY <2>1, <2>2, <3>1 DEF Fitting, Watching
  <2>3. CASE l.step \in {"show", "count"}
    <3> DEFINE new == [l EXCEPT !.calm = @ \cap Now(l.user),
                                !.might = @ \cup Now(l.user) \cup removed]
    <3>1. loc'[q] = new
      BY <2>3 DEF Change
    <3>2. /\ new.step = l.step /\ new.user = l.user /\ new.shown = l.shown
          /\ new.note = l.note /\ new.code = l.code
          /\ new.calm = l.calm \cap Now(l.user)
          /\ new.might = l.might \cup Now(l.user) \cup removed
      <4> HIDE DEF Now, removed
      <4> QED
        BY <2>1 DEF Local
    <3> HIDE DEF new
    <3>3. Subject(new)
      BY <2>1, <2>3, <3>2 DEF Fitting, Subject
    <3>4. CASE l.step = "show"
      BY <2>1, <3>1, <3>2, <3>3, <3>4 DEF Fitting, Watching
    <3>5. CASE l.step = "count"
      <4>1. \A n \in l.shown : n \in Notes
        BY <2>1 DEF Local
      <4>2. ASSUME NEW n \in l.shown
            PROVE  /\ notes[n].state # "absent"
                   /\ l.user \in notes[n].for
                   /\ notes[n].state = "gone" \/ <<n, l.user>> \notin marks =>
                        n \in new.might
        <5>1. /\ notice[n].state # "absent" /\ l.user \in notice[n].for
              /\ notice[n].state = "gone" => n \in l.might
          BY <2>1, <3>5 DEF Fitting, Watching
        <5>2. /\ notes[n].state # "absent" /\ l.user \in notes[n].for
              /\ notes[n].state \in {"there", "gone"}
          BY <4>1, <5>1 DEF Onward, Notice
        <5>3. CASE notes[n].state = "gone"
          BY <3>2, <4>1, <5>1, <5>2, <5>3
        <5>4. CASE notes[n].state = "there" /\ <<n, l.user>> \notin marks
          BY <3>2, <4>1, <5>2, <5>4 DEF UnreadBy, VisibleTo
        <5> QED
          BY <5>2, <5>3, <5>4
      <4>3. new.calm \subseteq {n \in l.shown : <<n, l.user>> \notin marks}
        BY <2>1, <3>2, <3>5 DEF Fitting, Watching, UnreadBy
      <4>4. Watching(new, notes, marks)
        BY <3>2, <3>5, <4>2, <4>3 DEF Watching
      <4> QED
        BY <3>1, <3>3, <4>4 DEF Fitting
    <3> QED
      BY <2>3, <3>4, <3>5
  <2> QED
    BY <2>2, <2>3
<1>6. \A q \in Requests : Fitting(loc'[q], notice', read')
  BY <1>1, <1>2, <1>4, <1>5
<1>7. \A q \in Requests : SameFile(loc[q], loc'[q])
  <2>1. SameFile(loc[r], record)
    BY DEF SameFile, Uploading, At
  <2>2. ASSUME NEW q \in Requests \ {r}
        PROVE  loc'[q].step = loc[q].step /\ loc'[q].row = loc[q].row
    <3>1. loc[q] \in Local
      BY DEF Inv, TypeOK
    <3>2. \A x, y : LET l == [loc[q] EXCEPT !.calm = x, !.might = y]
                    IN l.step = loc[q].step /\ l.row = loc[q].row
      BY <3>1 DEF Local
    <3> HIDE DEF removed, Now
    <3> QED
      BY <3>2 DEF Change, removed
  <2>3. \A q \in Requests : SameFile(loc[q], loc[q])
    BY DEF SameFile, Inv, Files, Owned, FileOf
  <2> QED
    BY <1>2, <2>1, <2>2, <2>3 DEF SameFile, Uploading
<1>8. Files'
  BY <1>1, <1>7, FilesKept DEF Inv, Files, Releases, Exists
<1> QED
  BY <1>3, <1>6, <1>8 DEF Inv
-----------------------------------------------------------------------------
(* Announcements *)

\* Creating an announcement and pushing it.
LEMMA AnnounceSteps ==
  ASSUME Inv, NEW r \in Requests,
         \/ \E for \in Audiences, urgent \in BOOLEAN : Announce(r, for, urgent)
         \/ Push(r)
  PROVE  Inv'
<1>a. loc[r] \in Local /\ Fitting(loc[r], notice, read)
  BY DEF Inv, TypeOK
<1>1. ASSUME NEW for \in Audiences, NEW urgent \in BOOLEAN,
             Announce(r, for, urgent)
      PROVE  Inv'
  <2>1. PICK n \in Notes :
          /\ \A m \in Notes : (notice[m].state = "absent") <=> m >= n
          /\ Change(r, IF urgent THEN [NoLocal EXCEPT !.step = "push", !.note = n]
                       ELSE NoLocal,
                    [notice EXCEPT ![n] = [state |-> "there", for |-> for]], read)
    BY <1>1 DEF Announce
  <2> DEFINE record == IF urgent THEN [NoLocal EXCEPT !.step = "push", !.note = n]
                       ELSE NoLocal
             notes == [notice EXCEPT ![n] = [state |-> "there", for |-> for]]
  <2>2. record \in Local /\ record.step \in {"idle", "push"}
        /\ (record.step = "push" => record.note = n)
    BY EmptyTyped DEF Local
  <2>3. notes \in [Notes -> Notice]
    BY DEF Inv, TypeOK, Notice
  <2>4. Onward(notes)
    <3>1. n >= n
      BY BoundsAssumption DEF Notes
    <3>2. notice[n].state = "absent"
      BY <2>1, <3>1
    <3> QED
      BY <3>2 DEF Onward, Inv, TypeOK
  <2>5. Change(r, record, notes, read) /\ UNCHANGED pushed
    BY <1>1, <2>1 DEF Announce
  <2>6. read \in SUBSET (Notes \X Users) /\ At(r, "idle")
    BY <1>1 DEF Inv, TypeOK, Announce
  <2> HIDE DEF record, notes
  <2>7. Subject(record)
    BY <2>2 DEF Subject
  <2> QED
    BY <2>2, <2>3, <2>4, <2>5, <2>6, <2>7, Changed DEF At, Uploading
<1>2. CASE Push(r)
  <2>1. loc[r].note \in Notes /\ notice[loc[r].note].for \subseteq Users
    BY <1>2, <1>a, AudiencesAssumption
    DEF Push, At, Fitting, Subject, Inv, TypeOK, Notice
  <2>2. pushed' \subseteq Notes \X Users
    BY <1>2, <2>1 DEF Push, Inv, TypeOK
  <2>3. Subject(NoLocal) /\ Watching(NoLocal, notice, read)
    BY EmptyTyped, Carefree DEF Subject
  <2>4. /\ Goto(r, NoLocal) /\ At(r, "push")
        /\ UNCHANGED <<notice, read, version, files, told, ops>>
    BY <1>2 DEF Push, releases
  <2>5. /\ version' \in [Codes -> Version]
        /\ told' \in [Codes -> {"nothing", "update", "force"}]
        /\ \A c \in Codes : version'[c].id # 0 => version'[c].id \in released
    BY <2>4 DEF Inv, TypeOK, Files, Releases, Exists
  <2> QED
    BY <2>2, <2>3, <2>4, <2>5, EmptyTyped, OwnStep DEF At, Uploading
<1> QED
  BY <1>1, <1>2

\* Marking an announcement as read.
LEMMA ReadSteps ==
  ASSUME Inv, NEW r \in Requests,
         \/ \E n \in Notes, u \in Users : ReadStart(r, n, u)
         \/ ReadFind(r) \/ ReadInsert(r)
  PROVE  Inv'
<1>a. loc[r] \in Local /\ Fitting(loc[r], notice, read)
  BY DEF Inv, TypeOK
<1>1. ASSUME NEW n \in Notes, NEW u \in Users, ReadStart(r, n, u)
      PROVE  Inv'
  <2> DEFINE record == [NoLocal EXCEPT !.step = "find", !.note = n, !.user = u]
  <2>1. /\ record \in Local
        /\ record.step = "find" /\ record.note = n /\ record.user = u
    BY EmptyTyped DEF Local
  <2>2. Goto(r, record) /\ Reads /\ At(r, "idle")
    BY <1>1 DEF ReadStart, Begin
  <2> HIDE DEF record
  <2> QED
    BY <2>1, <2>2, Carefree, OwnReading DEF Subject, At, Uploading
<1>2. CASE ReadFind(r)
  <2> DEFINE record == IF <<loc[r].note, loc[r].user>> \in read THEN NoLocal
                       ELSE Step(r, "insert")
  <2>1. /\ record \in Local
        /\ record.step \in {"idle", "insert"}
        /\ record.step = "insert" =>
             record.note = loc[r].note /\ record.user = loc[r].user
    BY <1>a, EmptyTyped DEF Step, Local
  <2>2. loc[r].note \in Notes /\ loc[r].user \in Users
    BY <1>2, <1>a DEF ReadFind, At, Fitting, Subject
  <2>3. Goto(r, record) /\ Reads /\ At(r, "find")
    BY <1>2 DEF ReadFind
  <2> HIDE DEF record
  <2> QED
    BY <2>1, <2>2, <2>3, Carefree, OwnReading DEF Subject, At, Uploading
<1>3. CASE ReadInsert(r)
  <2>1. loc[r].note \in Notes /\ loc[r].user \in Users
    BY <1>3, <1>a DEF ReadInsert, At, Fitting, Subject
  <2> DEFINE marks == read \cup {<<loc[r].note, loc[r].user>>}
  <2>2. marks \in SUBSET (Notes \X Users)
    BY <2>1 DEF Inv, TypeOK
  <2>3. notice \in [Notes -> Notice] /\ Onward(notice)
    BY DEF Inv, TypeOK, Onward
  <2>4. Change(r, NoLocal, notice, marks) /\ UNCHANGED pushed /\ At(r, "insert")
    BY <1>3 DEF ReadInsert
  <2> HIDE DEF marks
  <2>5. Subject(NoLocal)
    BY EmptyTyped DEF Subject
  <2> QED
    BY <2>2, <2>3, <2>4, <2>5, EmptyTyped, Changed DEF At, Uploading
<1> QED
  BY <1>1, <1>2, <1>3

\* Deleting an announcement, its marks first.
LEMMA RemoveSteps ==
  ASSUME Inv, NEW r \in Requests,
         \/ \E n \in Notes : RemoveStart(r, n)
         \/ RemoveReads(r) \/ RemoveRow(r)
  PROVE  Inv'
<1>a. loc[r] \in Local /\ Fitting(loc[r], notice, read)
  BY DEF Inv, TypeOK
<1>1. ASSUME NEW n \in Notes, RemoveStart(r, n) PROVE Inv'
  <2> DEFINE record == [NoLocal EXCEPT !.step = "dropReads", !.note = n]
  <2>1. record \in Local /\ record.step = "dropReads" /\ record.note = n
    BY EmptyTyped DEF Local
  <2>2. Goto(r, record) /\ Reads /\ At(r, "idle")
    BY <1>1 DEF RemoveStart, Begin
  <2> HIDE DEF record
  <2> QED
    BY <2>1, <2>2, Carefree, OwnReading DEF Subject, At, Uploading
<1>2. CASE RemoveReads(r)
  <2> DEFINE marks == {m \in read : m[1] # loc[r].note}
             record == Step(r, "drop")
  <2>1. marks \in SUBSET (Notes \X Users)
    BY DEF Inv, TypeOK
  <2>2. notice \in [Notes -> Notice] /\ Onward(notice)
    BY DEF Inv, TypeOK, Onward
  <2>3. record \in Local /\ record.step = "drop" /\ record.note = loc[r].note
    BY <1>a DEF Step, Local
  <2>4. /\ Change(r, record, notice, marks) /\ UNCHANGED pushed
        /\ At(r, "dropReads")
    BY <1>2 DEF RemoveReads
  <2> HIDE DEF marks, record
  <2>5. Subject(record)
    BY <1>a, <2>3, <2>4 DEF Subject, Fitting, At
  <2> QED
    BY <2>1, <2>2, <2>3, <2>4, <2>5, Changed DEF At, Uploading
<1>3. CASE RemoveRow(r)
  <2> DEFINE notes == [notice EXCEPT ![loc[r].note].state = "gone"]
  <2>1. loc[r].note \in Notes
    BY <1>3, <1>a DEF RemoveRow, At, Fitting, Subject
  <2>2. notes \in [Notes -> Notice]
    BY <2>1 DEF Inv, TypeOK, Notice
  <2>3. Onward(notes)
    BY <2>1 DEF Onward, Inv, TypeOK, Notice
  <2>4. read \in SUBSET (Notes \X Users)
    BY DEF Inv, TypeOK
  <2>5. Change(r, NoLocal, notes, read) /\ UNCHANGED pushed /\ At(r, "drop")
    BY <1>3 DEF RemoveRow
  <2> HIDE DEF notes
  <2>6. Subject(NoLocal)
    BY EmptyTyped DEF Subject
  <2> QED
    BY <2>2, <2>3, <2>4, <2>5, <2>6, EmptyTyped, Changed DEF At, Uploading
<1> QED
  BY <1>1, <1>2, <1>3

\* Of the announcements shown, those that u has no mark for, and their number
\* as BadgeCount computes it.
Left(shown, u, marks) == {n \in shown : <<n, u>> \notin marks}
Count(shown, u, marks) ==
  Cardinality(shown) - Cardinality({n \in shown : <<n, u>> \in marks})

\* The difference of the two counts is the number of those left to read, and
\* never more than the announcements there may be.
LEMMA CountOfUnread ==
  ASSUME NEW shown \in SUBSET Notes, NEW u, NEW marks
  PROVE  /\ IsFiniteSet(Left(shown, u, marks))
         /\ Count(shown, u, marks) = Cardinality(Left(shown, u, marks))
         /\ Count(shown, u, marks) \in 0 .. MaxNotices
<1> DEFINE left == Left(shown, u, marks)
           marked == {n \in shown : <<n, u>> \in marks}
<1>a. left \subseteq shown /\ marked \subseteq shown
  BY DEF Left
<1>1. IsFiniteSet(shown) /\ Cardinality(shown) <= MaxNotices
  BY NotesFinite, FS_Subset
<1>2. IsFiniteSet(marked) /\ IsFiniteSet(left)
  BY <1>1, <1>a, FS_Subset
<1>3. left = shown \ marked /\ shown \cap marked = marked
  BY DEF Left
<1>0. Count(shown, u, marks) = Cardinality(shown) - Cardinality(marked)
  BY DEF Count
<1> HIDE DEF left, marked
<1>4. Cardinality(left) = Cardinality(shown) - Cardinality(marked)
  BY <1>1, <1>3, FS_Difference
<1>5. Cardinality(left) <= Cardinality(shown)
  BY <1>1, <1>a, FS_Subset
<1>6. /\ Cardinality(left) \in Nat /\ Cardinality(shown) \in Nat
      /\ Cardinality(marked) \in Nat
  BY <1>1, <1>2, FS_CardinalityType
<1> QED
  BY <1>0, <1>1, <1>2, <1>4, <1>5, <1>6, BoundsAssumption DEF left

\* Counting the unread announcements for the badge.
LEMMA BadgeSteps ==
  ASSUME Inv, NEW r \in Requests,
         \/ \E u \in Users : BadgeStart(r, u)
         \/ BadgeShow(r) \/ BadgeCount(r) \/ BadgeAnswer(r)
  PROVE  Inv'
<1>a. loc[r] \in Local /\ Fitting(loc[r], notice, read)
  BY DEF Inv, TypeOK
<1>1. ASSUME NEW u \in Users, BadgeStart(r, u) PROVE Inv'
  <2> DEFINE unread == UnreadBy(u, notice, read)
             record == [NoLocal EXCEPT !.step = "show", !.user = u,
                                       !.calm = unread, !.might = unread]
  <2>1. unread \subseteq Notes
    BY DEF UnreadBy, VisibleTo
  <2>2. /\ record \in Local
        /\ record.step = "show" /\ record.user = u
        /\ record.calm = unread /\ record.might = unread
    <3> HIDE DEF unread
    <3> QED
      BY <2>1, EmptyTyped DEF Local
  <2>3. Goto(r, record) /\ Reads /\ At(r, "idle")
    BY <1>1 DEF BadgeStart, Begin
  <2>4. Watching(record, notice, read)
    <3> HIDE DEF record
    <3> QED
      BY <2>2 DEF Watching
  <2> HIDE DEF record
  <2> QED
    BY <2>2, <2>3, <2>4, OwnReading DEF Subject, At, Uploading
<1>2. CASE BadgeShow(r)
  <2> DEFINE shown == VisibleTo(loc[r].user, notice)
             record == [Step(r, "count") EXCEPT !.shown = shown]
  <2>1. shown \subseteq Notes
    BY DEF VisibleTo
  <2>2. /\ record \in Local
        /\ record.step = "count" /\ record.user = loc[r].user
        /\ record.calm = loc[r].calm /\ record.might = loc[r].might
        /\ record.shown = shown
    <3> HIDE DEF shown
    <3> QED
      BY <1>a, <2>1 DEF Step, Local
  <2>3. Goto(r, record) /\ Reads /\ At(r, "show")
    BY <1>2 DEF BadgeShow
  <2>4. /\ loc[r].calm \subseteq UnreadBy(loc[r].user, notice, read)
        /\ UnreadBy(loc[r].user, notice, read) \subseteq loc[r].might
    BY <1>a, <2>3 DEF Fitting, Watching, At
  <2>5. Watching(record, notice, read)
    <3> HIDE DEF record
    <3>1. \A n \in shown : /\ notice[n].state = "there"
                           /\ loc[r].user \in notice[n].for
      BY DEF VisibleTo
    <3>2. UnreadBy(loc[r].user, notice, read)
            = {n \in shown : <<n, loc[r].user>> \notin read}
      BY DEF UnreadBy
    <3> HIDE DEF shown
    <3> QED
      BY <2>2, <2>4, <3>1, <3>2 DEF Watching
  <2> HIDE DEF record
  <2> QED
    BY <2>2, <2>3, <2>5, OwnReading DEF Subject, At, Uploading
<1>3. CASE BadgeCount(r)
  <2> DEFINE l == loc[r]
             left == Left(l.shown, l.user, read)
             count == Count(l.shown, l.user, read)
             record == [Step(r, "badge") EXCEPT !.unread = count]
  <2>1. /\ l.shown \subseteq Notes
        /\ l.calm \subseteq Notes /\ l.might \subseteq Notes
    BY <1>a DEF Local
  <2>2. /\ IsFiniteSet(left) /\ count = Cardinality(left)
        /\ count \in 0 .. MaxNotices
    BY <2>1, CountOfUnread
  <2>3. /\ record \in Local
        /\ record.step = "badge" /\ record.unread = count
        /\ record.calm = l.calm /\ record.might = l.might
    <3> HIDE DEF count
    <3> QED
      BY <1>a, <2>2 DEF Step, Local
  <2>4. Goto(r, record) /\ Reads /\ At(r, "count")
    BY <1>3 DEF BadgeCount, Count
  <2>5. l.calm \subseteq left /\ left \subseteq l.might
    BY <1>a, <2>4 DEF Fitting, Watching, At, Left
  <2>6. IsFiniteSet(l.might)
    BY <2>1, NotesFinite, FS_Subset
  <2> HIDE DEF left, count, l
  <2>7. Cardinality(l.calm) <= count /\ count <= Cardinality(l.might)
    BY <2>2, <2>5, <2>6, FS_Subset
  <2>8. Watching(record, notice, read)
    <3> HIDE DEF record
    <3> QED
      BY <2>3, <2>7 DEF Watching
  <2> HIDE DEF record
  <2> QED
    BY <2>3, <2>4, <2>8, OwnReading DEF Subject, At, Uploading
<1>4. CASE BadgeAnswer(r)
  BY <1>4, EmptyTyped, Carefree, OwnReading DEF BadgeAnswer, Subject, At, Uploading
<1> QED
  BY <1>1, <1>2, <1>3, <1>4
-----------------------------------------------------------------------------
(* Releases *)

\* A request may take a new upload, change its own or leave it to a release, as
\* long as those of others and of releases stay what they are and its own is
\* nobody else's.
LEMMA FilesStep ==
  ASSUME Inv, NEW r \in Requests, NEW record \in Local,
         Goto(r, record), UNCHANGED ops, uploads' \in Nat, uploads <= uploads',
         FileOf(record, uploads', disk', released'),
         \A q \in Requests \ {r} : Uploading(loc[q]) =>
           /\ disk'[loc[q].row.id] = disk[loc[q].row.id]
           /\ loc[q].row.id \notin released'
           /\ Uploading(record) => loc[q].row.id # record.row.id,
         released \subseteq released', Releases',
         \A f \in Uploads : disk'[f] = "named" =>
           \/ f \in released'
           \/ record.step = "save" /\ record.row.id = f
           \/ disk[f] = "named" /\ ~(At(r, "save") /\ loc[r].row.id = f),
         \A f \in Uploads : disk'[f] = "received" =>
           \/ ops \cap {"outage", "invalid"} # {}
           \/ record.step = "check" /\ record.row.id = f
           \/ disk[f] = "received" /\ ~(At(r, "check") /\ loc[r].row.id = f)
  PROVE  Files'
<1>1. loc'[r] = record /\ \A q \in Requests \ {r} : loc'[q] = loc[q]
  BY DEF Goto, Inv, TypeOK
<1>a. /\ Files /\ uploads \in 0 .. MaxUploads /\ MaxUploads \in Nat
      /\ \A q \in Requests : FileOf(loc[q], uploads, disk, released)
  BY BoundsAssumption DEF Inv, TypeOK, Files, Owned
<1>2. Owned'
  <2>1. ASSUME NEW q \in Requests \ {r}
        PROVE  FileOf(loc[q], uploads', disk', released')
    <3>1. Uploading(loc[q]) => loc[q].row.id \in 1 .. uploads'
      <4>1. \A n \in 1 .. uploads : n \in 1 .. uploads'
        BY <1>a
      <4> QED
        BY <1>a, <4>1 DEF FileOf
    <3> QED
      BY <1>a, <3>1 DEF FileOf, Uploading
  <2> QED
    BY <1>1, <2>1 DEF Owned
<1>3. Apart'
  <2>1. ASSUME NEW p \in Requests, NEW q \in Requests, p # q,
               Uploading(loc'[p]), Uploading(loc'[q])
        PROVE  loc'[p].row.id # loc'[q].row.id
    <3>1. CASE p = r
      BY <1>1, <2>1, <3>1
    <3>2. CASE q = r
      BY <1>1, <2>1, <3>2
    <3>3. CASE p # r /\ q # r
      BY <1>1, <1>a, <2>1, <3>3 DEF Files, Apart
    <3> QED
      BY <3>1, <3>2, <3>3
  <2> QED
    BY <2>1 DEF Apart
<1>4. NoFileLeft'
  <2>1. ASSUME NEW f \in Uploads, disk'[f] = "named"
        PROVE  f \in released'
               \/ \E q \in Requests : loc'[q].step = "save" /\ loc'[q].row.id = f
    <3>1. CASE disk[f] = "named" /\ ~(At(r, "save") /\ loc[r].row.id = f)
      BY <1>1, <1>a, <3>1 DEF Files, NoFileLeft, At
    <3> QED
      BY <1>1, <2>1, <3>1
  <2>2. ASSUME NEW f \in Uploads, disk'[f] = "received"
        PROVE  ops \cap {"outage", "invalid"} # {}
               \/ \E q \in Requests : loc'[q].step = "check" /\ loc'[q].row.id = f
    <3>1. CASE disk[f] = "received" /\ ~(At(r, "check") /\ loc[r].row.id = f)
      BY <1>1, <1>a, <3>1 DEF Files, NoFileLeft, At
    <3> QED
      BY <1>1, <2>2, <3>1
  <2> QED
    BY <2>1, <2>2 DEF NoFileLeft, At
<1> QED
  BY <1>2, <1>3, <1>4 DEF Files

\* A step of a request that leaves the announcements alone and ends without a
\* badge keeps the invariant if it does right by the files.
LEMMA ReleaseStep ==
  ASSUME Inv, NEW r \in Requests, NEW record \in Local,
         Goto(r, record),
         UNCHANGED <<announcements, told, ops>>,
         version' \in [Codes -> Version],
         uploads' \in 0 .. MaxUploads,
         disk' \in [Uploads -> {"absent", "received", "named"}],
         released' \subseteq Uploads,
         record.step \in {"idle", "check", "save", "broadcast"},
         record.step # "idle" => record.code \in Codes,
         Files'
  PROVE  Inv'
<1>1. /\ UNCHANGED <<notice, read, ops>>
      /\ pushed' \subseteq Notes \X Users
      /\ told' \in [Codes -> {"nothing", "update", "force"}]
  BY DEF Inv, TypeOK, announcements
<1>2. Fitting(record, notice, read)
  BY Carefree DEF Fitting, Subject
<1> QED
  BY <1>1, <1>2, OwnRecord

\* The next upload is nobody's yet.
LEMMA Received ==
  ASSUME Inv, Receive
  PROVE  /\ uploads' = uploads + 1 /\ uploads' \in 1 .. MaxUploads
         /\ uploads \in Nat /\ uploads <= uploads'
         /\ uploads' \in Uploads /\ uploads' \notin released
         /\ disk'[uploads'] = "received"
         /\ \A f \in Uploads : f # uploads' => disk'[f] = disk[f]
         /\ disk' \in [Uploads -> {"absent", "received", "named"}]
         /\ \A q \in Requests : Uploading(loc[q]) =>
              /\ loc[q].row.id # uploads' /\ loc[q].row.id \in Uploads
              /\ loc[q].row.id \in 1 .. uploads'
         /\ \A f \in released : f \in 1 .. uploads' /\ f # uploads'
         /\ \A f \in released : f \in Uploads
<1>1. /\ uploads' = uploads + 1 /\ uploads < MaxUploads
      /\ disk' = [disk EXCEPT ![uploads + 1] = "received"]
  BY DEF Receive
<1>2. /\ uploads \in 0 .. MaxUploads /\ MaxUploads \in Nat
      /\ disk \in [Uploads -> {"absent", "received", "named"}]
      /\ released \subseteq 1 .. uploads
      /\ \A q \in Requests : Uploading(loc[q]) => loc[q].row.id \in 1 .. uploads
  BY BoundsAssumption DEF Inv, TypeOK, Files, Owned, FileOf, Releases
<1>3. /\ uploads' \in 1 .. MaxUploads /\ uploads \in Nat /\ uploads <= uploads'
      /\ \A n \in 1 .. uploads : /\ n \in 1 .. uploads' /\ n # uploads'
                                 /\ n \in 1 .. MaxUploads
      /\ uploads' \notin 1 .. uploads
  BY <1>1, <1>2
<1>4. /\ uploads' \in Uploads /\ disk' = [disk EXCEPT ![uploads'] = "received"]
  BY <1>1, <1>3 DEF Uploads
<1> QED
  BY <1>1, <1>2, <1>3, <1>4 DEF Uploads

\* What the requests before their save hold.
LEMMA Holds ==
  ASSUME Inv, NEW r \in Requests, Uploading(loc[r])
  PROVE  /\ loc[r].row.id \in Uploads /\ loc[r].row.id \in 1 .. uploads
         /\ loc[r].row.id \notin released
         /\ uploads \in Nat /\ uploads \in 0 .. MaxUploads
         /\ \A q \in Requests \ {r} : Uploading(loc[q]) =>
              loc[q].row.id # loc[r].row.id /\ loc[q].row.id \notin released
<1>1. /\ loc[r].row.id \in 1 .. uploads /\ loc[r].row.id \notin released
      /\ uploads \in 0 .. MaxUploads /\ MaxUploads \in Nat
  BY BoundsAssumption DEF Inv, TypeOK, Files, Owned, FileOf
<1>2. loc[r].row.id \in Uploads /\ uploads \in Nat
  BY <1>1 DEF Uploads
<1>3. \A q \in Requests \ {r} : Uploading(loc[q]) =>
        loc[q].row.id # loc[r].row.id /\ loc[q].row.id \notin released
  BY DEF Inv, Files, Owned, FileOf, Apart
<1> QED
  BY <1>1, <1>2, <1>3

\* Publishing a release: file, check, save.
LEMMA PublishSteps ==
  ASSUME Inv, NEW r \in Requests,
         \/ \E c \in Codes, force \in BOOLEAN : PublishStart(r, c, force)
         \/ PublishCheck(r) \/ PublishCheckFails(r) \/ PublishSave(r)
  PROVE  Inv'
<1> DEFINE id == loc[r].row.id
<1>a. /\ loc[r] \in Local /\ Fitting(loc[r], notice, read)
      /\ version \in [Codes -> Version] /\ uploads \in 0 .. MaxUploads
      /\ disk \in [Uploads -> {"absent", "received", "named"}]
      /\ released \subseteq Uploads /\ Files
  BY DEF Inv, TypeOK
<1>b. /\ NoLocal \in Local /\ NoLocal.step = "idle" /\ ~Uploading(NoLocal)
      /\ \A ups, d, rel : FileOf(NoLocal, ups, d, rel)
  BY EmptyTyped DEF Uploading, FileOf
<1>1. ASSUME NEW c \in Codes, NEW force \in BOOLEAN, PublishStart(r, c, force)
      PROVE  Inv'
  <2> DEFINE row == [id |-> uploads + 1, published |-> TRUE, force |-> force]
             record == [NoLocal EXCEPT !.step = "check", !.code = c, !.row = row]
  <2>1. /\ Receive /\ Goto(r, record) /\ At(r, "idle")
        /\ UNCHANGED <<announcements, version, released, told, ops>>
    BY <1>1 DEF PublishStart, Receive
  <2>2. row \in Version /\ row.id = uploads'
    BY <2>1, Received DEF Version
  <2>3. /\ record \in Local /\ record.step = "check" /\ record.code = c
        /\ record.row.id = uploads'
    <3> HIDE DEF row
    <3> QED
      BY <2>2, <1>b DEF Local
  <2> HIDE DEF record, row
  <2>4. Releases'
    BY <1>a, <2>1, Received DEF Files, Releases, Exists
  <2>5. FileOf(record, uploads', disk', released')
    BY <2>1, <2>3, Received DEF FileOf, Uploading
  <2>6. Files'
    <3>1. \A q \in Requests \ {r} : Uploading(loc[q]) =>
            /\ disk'[loc[q].row.id] = disk[loc[q].row.id]
            /\ loc[q].row.id \notin released'
            /\ Uploading(record) => loc[q].row.id # record.row.id
      BY <1>a, <2>1, <2>3, Received DEF Files, Owned, FileOf
    <3>2. \A f \in Uploads : disk'[f] = "named" => disk[f] = "named"
      BY <2>1, Received
    <3>3. \A f \in Uploads : disk'[f] = "received" =>
            disk[f] = "received" \/ record.row.id = f
      BY <2>1, <2>3, Received
    <3> QED
      BY <2>1, <2>3, <2>4, <2>5, <3>1, <3>2, <3>3, Received, FilesStep DEF At
  <2>7. uploads' \in 0 .. MaxUploads
        /\ disk' \in [Uploads -> {"absent", "received", "named"}]
    BY <2>1, Received
  <2> QED
    BY <1>a, <2>1, <2>3, <2>6, <2>7, ReleaseStep
<1>2. ASSUME Refused(r), At(r, "check") \/ At(r, "save"),
             UNCHANGED <<announcements, version, uploads, released, told, ops>>
      PROVE  Inv'
  <2>1. Uploading(loc[r])
    BY <1>2 DEF Uploading, At
  <2>2. /\ disk' = [disk EXCEPT ![id] = "absent"] /\ Goto(r, NoLocal)
        /\ disk' \in [Uploads -> {"absent", "received", "named"}]
        /\ disk'[id] = "absent"
        /\ \A f \in Uploads : f # id => disk'[f] = disk[f]
    BY <1>2, <1>a, <2>1, Holds DEF Refused
  <2>3. Releases'
    BY <1>2, <1>a, <2>1, <2>2, Holds DEF Files, Releases, Exists
  <2>4. \A q \in Requests \ {r} : Uploading(loc[q]) =>
            /\ disk'[loc[q].row.id] = disk[loc[q].row.id]
            /\ loc[q].row.id \notin released'
    <3>1. \A q \in Requests : Uploading(loc[q]) => loc[q].row.id \in Uploads
      BY Holds
    <3> QED
      BY <1>2, <2>1, <2>2, <3>1, Holds
  <2>5. Files'
    <3> HIDE DEF id
    <3>1. \A f \in Uploads : disk'[f] # "absent" => disk'[f] = disk[f] /\ f # id
      BY <2>2
    <3>2. uploads' \in Nat /\ uploads <= uploads'
      BY <1>2, <2>1, Holds
    <3> QED
      BY <1>2, <1>b, <2>2, <2>3, <2>4, <3>1, <3>2, FilesStep DEF id
  <2> QED
    BY <1>2, <1>a, <1>b, <2>2, <2>5, ReleaseStep
<1>3. CASE PublishCheck(r)
  <2>1. CASE Refused(r)
    BY <1>2, <1>3, <2>1 DEF PublishCheck
  <2>2. CASE disk' = [disk EXCEPT ![id] = "named"] /\ Goto(r, Step(r, "save"))
    <3> DEFINE record == Step(r, "save")
    <3>1. /\ record \in Local /\ record.step = "save"
          /\ record.code = loc[r].code /\ record.row.id = id
      BY <1>a DEF Step, Local
    <3>2. loc[r].code \in Codes /\ Uploading(loc[r]) /\ At(r, "check")
      BY <1>3, <1>a DEF PublishCheck, At, Fitting, Subject, Uploading
    <3>3. UNCHANGED <<announcements, version, uploads, released, told, ops>>
      BY <1>3 DEF PublishCheck
    <3>4. Goto(r, record)
      BY <2>2
    <3>5. /\ disk' \in [Uploads -> {"absent", "received", "named"}]
          /\ disk'[id] = "named"
          /\ \A f \in Uploads : f # id => disk'[f] = disk[f]
      BY <1>a, <2>2, <3>2, Holds
    <3>6. /\ id \in 1 .. uploads' /\ id \notin released' /\ id \in Uploads
          /\ uploads' \in Nat /\ uploads <= uploads'
      BY <3>2, <3>3, Holds
    <3>7. \A q \in Requests \ {r} : Uploading(loc[q]) =>
            /\ disk'[loc[q].row.id] = disk[loc[q].row.id]
            /\ loc[q].row.id \notin released' /\ loc[q].row.id # id
      <4>1. \A q \in Requests : Uploading(loc[q]) => loc[q].row.id \in Uploads
        BY Holds
      <4> QED
        BY <3>2, <3>3, <3>5, <4>1, Holds
    <3> HIDE DEF record, id
    <3>8. Releases'
      BY <1>a, <3>3, <3>5, <3>6 DEF Files, Releases, Exists
    <3>9. FileOf(record, uploads', disk', released')
      BY <3>1, <3>5, <3>6 DEF FileOf, Uploading
    <3>10. Files'
      <4>1. \A f \in Uploads : disk'[f] = "named" => disk[f] = "named" \/ f = id
        BY <3>5
      <4>2. \A f \in Uploads : disk'[f] = "received" =>
              disk[f] = "received" /\ f # id
        BY <3>5
      <4> QED
        BY <3>1, <3>2, <3>3, <3>4, <3>6, <3>7, <3>8, <3>9, <4>1, <4>2, FilesStep
           DEF At, id
    <3> QED
      BY <1>a, <3>1, <3>2, <3>3, <3>4, <3>5, <3>10, ReleaseStep
  <2> QED
    BY <1>3, <2>1, <2>2 DEF PublishCheck
<1>4. CASE PublishCheckFails(r)
  <2>1. /\ Goto(r, NoLocal) /\ "outage" \in ops /\ At(r, "check")
        /\ UNCHANGED <<announcements, version, files, told, ops>>
    BY <1>4 DEF PublishCheckFails, Reads, releases
  <2>2. UNCHANGED <<uploads, disk, released>> /\ Uploading(loc[r])
    BY <2>1 DEF files, Uploading, At
  <2>3. Releases'
    BY <1>a, <2>1, <2>2 DEF Files, Releases, Exists
  <2>4. ops \cap {"outage", "invalid"} # {}
    BY <2>1
  <2>5. uploads' \in Nat /\ uploads <= uploads'
    BY <2>2, Holds
  <2>6. Files'
    BY <1>b, <2>1, <2>2, <2>3, <2>4, <2>5, Holds, FilesStep DEF At
  <2> QED
    BY <1>a, <1>b, <2>1, <2>2, <2>6, ReleaseStep
<1>5. CASE PublishSave(r)
  <2>0. At(r, "save") /\ Uploading(loc[r]) /\ disk[id] = "named"
    BY <1>5, <1>a DEF PublishSave, Uploading, At, Files, Owned, FileOf
  <2>1. CASE Saved(r)
    <3> DEFINE record == Step(r, "broadcast")
    <3>1. /\ loc[r].row \in Version /\ loc[r].code \in Codes
      BY <1>a, <2>0 DEF Local, At, Fitting, Subject
    <3>2. /\ version' = [version EXCEPT ![loc[r].code] = loc[r].row]
          /\ released' = released \cup {id} /\ Goto(r, record)
          /\ UNCHANGED <<announcements, uploads, disk, told, ops>>
      BY <1>5, <2>1 DEF PublishSave, Saved
    <3>3. /\ record \in Local
          /\ record.step = "broadcast" /\ record.code = loc[r].code
      BY <1>a DEF Step, Local
    <3>4. version' \in [Codes -> Version] /\ released' \subseteq Uploads
      BY <1>a, <2>0, <3>1, <3>2, Holds
    <3>5. Releases'
      <4>1. /\ released' \subseteq 1 .. uploads'
            /\ \A f \in released' : disk'[f] = "named"
        BY <1>a, <2>0, <3>2, Holds DEF Files, Releases
      <4>2. \A c \in Codes : version'[c].id # 0 => version'[c].id \in released'
        BY <1>a, <3>1, <3>2 DEF Files, Releases, Exists
      <4> QED
        BY <4>1, <4>2 DEF Releases, Exists
    <3>6. FileOf(record, uploads', disk', released') /\ ~Uploading(record)
      BY <3>3 DEF FileOf, Uploading
    <3>7. \A q \in Requests \ {r} : Uploading(loc[q]) =>
            /\ disk'[loc[q].row.id] = disk[loc[q].row.id]
            /\ loc[q].row.id \notin released'
      BY <2>0, <3>2, Holds
    <3> HIDE DEF record, id
    <3>8. Files'
      <4>1. \A f \in Uploads : disk'[f] = "named" =>
              disk[f] = "named" /\ (f = id => f \in released')
        BY <3>2
      <4>2. uploads' \in Nat /\ uploads <= uploads'
        BY <2>0, <3>2, Holds
      <4>3. \A f \in Uploads : disk'[f] = "named" =>
              \/ f \in released'
              \/ disk[f] = "named" /\ ~(At(r, "save") /\ loc[r].row.id = f)
        BY <4>1 DEF id
      <4>4. \A f \in Uploads : disk'[f] = "received" =>
              disk[f] = "received" /\ ~(At(r, "check") /\ loc[r].row.id = f)
        BY <2>0, <3>2 DEF At
      <4>5. released \subseteq released'
        BY <3>2
      <4> QED
        BY <3>2, <3>3, <3>5, <3>6, <3>7, <4>2, <4>3, <4>4, <4>5, FilesStep
    <3> QED
      BY <1>a, <3>1, <3>2, <3>3, <3>4, <3>8, ReleaseStep
  <2>2. CASE Refused(r) /\ UNCHANGED <<version, released>>
    BY <1>2, <1>5, <2>0, <2>2 DEF PublishSave
  <2> QED
    BY <1>5, <2>1, <2>2 DEF PublishSave
<1> QED
  BY <1>1, <1>3, <1>4, <1>5

\* An upload with fields that are refused stays as it was received.
LEMMA InvalidStep ==
  ASSUME Inv, PublishInvalid
  PROVE  Inv'
<1>1. /\ Receive /\ "invalid" \in ops
      /\ UNCHANGED <<announcements, version, released, told, loc, ops>>
  BY DEF PublishInvalid, Receive
<1>2. TypeOK'
  <2>1. uploads' \in 0 .. MaxUploads
        /\ disk' \in [Uploads -> {"absent", "received", "named"}]
    BY <1>1, Received
  <2> QED
    BY <1>1, <2>1 DEF Inv, TypeOK, announcements
<1>3. Owned'
  <2>1. ASSUME NEW q \in Requests
        PROVE  FileOf(loc[q], uploads', disk', released)
    BY <1>1, Received DEF Inv, Files, Owned, FileOf, Uploading
  <2> QED
    BY <1>1, <2>1 DEF Owned
<1>4. Apart' /\ Releases'
  BY <1>1, Received DEF Inv, Files, Apart, Releases, Exists
<1>5. NoFileLeft'
  <2>1. \A f \in Uploads : disk'[f] = "named" => disk[f] = "named"
    BY <1>1, Received
  <2> QED
    BY <1>1, <2>1 DEF Inv, Files, NoFileLeft, At
<1>6. \A q \in Requests : Fitting(loc'[q], notice', read')
  BY <1>1 DEF Inv, announcements
<1> QED
  BY <1>2, <1>3, <1>4, <1>5, <1>6 DEF Inv, Files

\* Whatever an edit writes into a row, it is one, of a file that was released.
LEMMA WrittenTyped ==
  ASSUME Inv, NEW r \in Requests, loc[r].code \in Codes, At(r, "write")
  PROVE  /\ Written(r) \in Version
         /\ Written(r).id # 0 => Written(r).id \in released
<1>1. Written(r) \in Version
  BY DEF Inv, TypeOK, Local, Written, Version
<1>2. /\ loc[r].row.id \in released
      /\ version[loc[r].code].id # 0 => version[loc[r].code].id \in released
  BY DEF Inv, Files, Owned, FileOf, Releases, Exists, At
<1> QED
  BY <1>1, <1>2 DEF Written

\* Editing, announcing and deleting a release.
LEMMA EditSteps ==
  ASSUME Inv, NEW r \in Requests,
         \/ \E c \in Codes, published \in Choice, force \in Choice :
              EditLoad(r, c, published, force)
         \/ EditSave(r) \/ EditWrite(r) \/ Broadcast(r)
         \/ \E c \in Codes : DeleteFind(r, c)
         \/ DeleteRow(r)
  PROVE  Inv'
<1>a. /\ loc[r] \in Local /\ Fitting(loc[r], notice, read)
      /\ version \in [Codes -> Version]
      /\ told \in [Codes -> {"nothing", "update", "force"}]
      /\ pushed \subseteq Notes \X Users
      /\ \A c \in Codes : version[c].id # 0 => version[c].id \in released
  BY DEF Inv, TypeOK, Files, Releases, Exists
<1>b. NoLocal \in Local /\ NoLocal.step = "idle"
  BY EmptyTyped
<1>1. ASSUME NEW c \in Codes, NEW published \in Choice, NEW force \in Choice,
             EditLoad(r, c, published, force)
      PROVE  Inv'
  <2> DEFINE new == [version[c] EXCEPT
                      !.published = IF published = "keep" THEN @
                                    ELSE published = "yes",
                      !.force = IF force = "keep" THEN @ ELSE force = "yes"]
             ask == published = "yes"
             again == \/ published = "yes" /\ ~version[c].published
                      \/ new.force # version[c].force
             record == [NoLocal EXCEPT !.step = "merge", !.code = c, !.row = new,
                                       !.ask = ask, !.again = again]
  <2>1. new \in Version /\ new.id = version[c].id
    BY <1>a DEF Version
  <2>2. ask \in BOOLEAN /\ again \in BOOLEAN
    OBVIOUS
  <2>3. /\ record \in Local /\ record.step = "merge" /\ record.code = c
        /\ record.row.id = version[c].id
    <3> HIDE DEF new, ask, again
    <3> QED
      BY <1>b, <2>1, <2>2 DEF Local
  <2>4. Goto(r, record) /\ Reads /\ At(r, "idle") /\ version[c].id \in released
    BY <1>1, <1>a DEF EditLoad, Begin, Exists
  <2> HIDE DEF record
  <2> QED
    BY <2>3, <2>4, Carefree, OwnReading DEF Subject, At, Uploading
<1>2. CASE EditSave(r)
  <2> DEFINE was == IF version[loc[r].code].id = loc[r].row.id
                    THEN version[loc[r].code] ELSE NoVersion
             record == [Step(r, "write") EXCEPT !.was = was]
  <2>1. loc[r].code \in Codes /\ loc[r].row.id \in released
    BY <1>2, <1>a
       DEF EditSave, At, Fitting, Subject, Inv, Files, Owned, FileOf
  <2>2. was \in Version
    BY <1>a, <2>1, EmptyTyped
  <2>3. /\ record \in Local /\ record.step = "write"
        /\ record.code = loc[r].code /\ record.row = loc[r].row
    <3> HIDE DEF was
    <3> QED
      BY <1>a, <2>2 DEF Step, Local
  <2>4. Goto(r, record) /\ Reads /\ At(r, "merge")
    BY <1>2 DEF EditSave
  <2> HIDE DEF record
  <2> QED
    BY <2>1, <2>3, <2>4, Carefree, OwnReading DEF Subject, At, Uploading
<1>3. CASE EditWrite(r)
  <2>1. loc[r].code \in Codes /\ At(r, "write")
    BY <1>3, <1>a DEF EditWrite, At, Fitting, Subject
  <2>2. /\ version' \in [Codes -> Version]
        /\ \A c \in Codes : version'[c].id # 0 => version'[c].id \in released
    <3>1. CASE UNCHANGED version
      BY <1>a, <3>1
    <3>2. CASE version' = [version EXCEPT ![loc[r].code] = Written(r)]
      BY <1>a, <2>1, <3>2, WrittenTyped
    <3> QED
      BY <1>3, <3>1, <3>2 DEF EditWrite
  <2>3. PICK record \in Local :
          /\ Goto(r, record)
          /\ record.step \in {"idle", "broadcast"}
          /\ record.step # "idle" => record.code \in Codes
    <3>1. /\ Step(r, "broadcast") \in Local
          /\ Step(r, "broadcast").step = "broadcast"
          /\ Step(r, "broadcast").code = loc[r].code
      BY <1>a DEF Step, Local
    <3> QED
      BY <1>3, <1>b, <2>1, <3>1 DEF EditWrite
  <2>4. UNCHANGED <<notice, read, pushed, told, files, ops>>
    BY <1>3 DEF EditWrite, announcements
  <2>5. /\ Subject(record) /\ Watching(record, notice, read)
        /\ ~Uploading(record)
    BY <2>3, Carefree DEF Subject, Uploading
  <2> QED
    BY <1>a, <2>1, <2>2, <2>3, <2>4, <2>5, OwnStep DEF At
<1>4. CASE Broadcast(r)
  <2>1. told' \in [Codes -> {"nothing", "update", "force"}]
    BY <1>4, <1>a DEF Broadcast
  <2>2. /\ At(r, "broadcast") /\ Goto(r, NoLocal)
        /\ UNCHANGED <<notice, read, pushed, version, files, ops>>
    BY <1>4 DEF Broadcast, announcements
  <2> QED
    BY <1>a, <1>b, <2>1, <2>2, Carefree, OwnStep DEF Subject, At, Uploading
<1>5. ASSUME NEW c \in Codes, DeleteFind(r, c) PROVE Inv'
  <2> DEFINE record == [NoLocal EXCEPT !.step = "dropCode", !.code = c,
                                       !.row = version[c]]
  <2>1. record \in Local /\ record.step = "dropCode" /\ record.code = c
    BY <1>a, <1>b DEF Local
  <2>2. Goto(r, record) /\ Reads /\ At(r, "idle")
    BY <1>5 DEF DeleteFind, Begin
  <2> HIDE DEF record
  <2> QED
    BY <2>1, <2>2, Carefree, OwnReading DEF Subject, At, Uploading
<1>6. CASE DeleteRow(r)
  <2>1. /\ version' \in [Codes -> Version]
        /\ \A c \in Codes : version'[c].id # 0 => version'[c].id \in released
    <3>1. NoVersion.id = 0
      BY DEF NoVersion
    <3> QED
      BY <1>6, <1>a, <3>1, EmptyTyped DEF DeleteRow
  <2>2. /\ At(r, "dropCode") /\ Goto(r, NoLocal)
        /\ UNCHANGED <<notice, read, pushed, told, files, ops>>
    BY <1>6 DEF DeleteRow, announcements
  <2> QED
    BY <1>a, <1>b, <2>1, <2>2, Carefree, OwnStep DEF Subject, At, Uploading
<1> QED
  BY <1>1, <1>2, <1>3, <1>4, <1>5, <1>6

-----------------------------------------------------------------------------
(* The theorems *)

\* No announcement, no release and no request is there to begin with.
LEMMA InitInv == Init => Inv
<1> SUFFICES ASSUME Init PROVE Inv
  OBVIOUS
<1>1. TypeOK
  <2>1. [n \in Notes |-> [state |-> "absent", for |-> {}]] \in [Notes -> Notice]
    BY DEF Notice
  <2>2. ops \subseteq AllOps
    BY ScenariosAssumption DEF Init
  <2>3. notice \in [Notes -> Notice]
    BY <2>1 DEF Init
  <2>4. /\ version \in [Codes -> Version]
        /\ loc \in [Requests -> Local]
    BY EmptyTyped DEF Init
  <2>5. /\ told \in [Codes -> {"nothing", "update", "force"}]
        /\ disk \in [Uploads -> {"absent", "received", "named"}]
    BY DEF Init
  <2>6. read \subseteq Notes \X Users /\ pushed \subseteq Notes \X Users
    BY DEF Init
  <2>7. uploads \in 0 .. MaxUploads
    BY BoundsAssumption DEF Init
  <2>8. released \subseteq Uploads
    BY DEF Init
  <2> QED
    BY <2>2, <2>3, <2>4, <2>5, <2>6, <2>7, <2>8 DEF TypeOK
<1>2. \A r \in Requests : loc[r] = NoLocal
  BY DEF Init
<1>3. Subject(NoLocal) /\ Watching(NoLocal, notice, read)
  BY EmptyTyped, Carefree DEF Subject
<1>4. Files
  <2>1. Owned /\ Apart
    BY <1>2, EmptyTyped DEF Owned, Apart, FileOf, Uploading
  <2>2. Releases
    BY DEF Init, Releases, Exists, NoVersion
  <2>3. NoFileLeft
    BY DEF Init, NoFileLeft
  <2> QED
    BY <2>1, <2>2, <2>3 DEF Files
<1> QED
  BY <1>1, <1>2, <1>3, <1>4 DEF Inv, Fitting

\* Every statement of every request keeps the invariant.
LEMMA NextInv == Inv /\ [Next]_vars => Inv'
<1> SUFFICES ASSUME Inv, [Next]_vars PROVE Inv'
  OBVIOUS
<1>1. CASE UNCHANGED vars
  <2>1. UNCHANGED <<notice, read, pushed, version, files, told, loc, ops>>
    BY <1>1 DEF vars, announcements, releases
  <2>2. TypeOK'
    BY <2>1 DEF Inv, TypeOK, files
  <2>3. Files'
    <3>1. \A q \in Requests : SameFile(loc[q], loc'[q])
      BY <2>1 DEF SameFile, Inv, Files, Owned, FileOf
    <3> QED
      BY <2>1, <3>1, FilesKept DEF Inv, Files, Releases, Exists
  <2> QED
    BY <2>1, <2>2, <2>3 DEF Inv
<1>2. ASSUME NEW r \in Requests,
             \/ \E for \in Audiences, urgent \in BOOLEAN :
                  Announce(r, for, urgent)
             \/ Push(r)
      PROVE  Inv'
  BY <1>2, AnnounceSteps
<1>3. ASSUME NEW r \in Requests,
             \/ \E n \in Notes, u \in Users : ReadStart(r, n, u)
             \/ ReadFind(r) \/ ReadInsert(r)
      PROVE  Inv'
  BY <1>3, ReadSteps
<1>4. ASSUME NEW r \in Requests,
             \/ \E u \in Users : BadgeStart(r, u)
             \/ BadgeShow(r) \/ BadgeCount(r) \/ BadgeAnswer(r)
      PROVE  Inv'
  BY <1>4, BadgeSteps
<1>5. ASSUME NEW r \in Requests,
             \/ \E n \in Notes : RemoveStart(r, n)
             \/ RemoveReads(r) \/ RemoveRow(r)
      PROVE  Inv'
  BY <1>5, RemoveSteps
<1>6. ASSUME NEW r \in Requests,
             \/ \E c \in Codes, force \in BOOLEAN : PublishStart(r, c, force)
             \/ PublishCheck(r) \/ PublishCheckFails(r) \/ PublishSave(r)
      PROVE  Inv'
  BY <1>6, PublishSteps
<1>7. ASSUME NEW r \in Requests,
             \/ \E c \in Codes, published \in Choice, force \in Choice :
                  EditLoad(r, c, published, force)
             \/ EditSave(r) \/ EditWrite(r) \/ Broadcast(r)
             \/ \E c \in Codes : DeleteFind(r, c)
             \/ DeleteRow(r)
      PROVE  Inv'
  BY <1>7, EditSteps
<1>8. CASE PublishInvalid
  BY <1>8, InvalidStep
<1> QED
  BY <1>1, <1>2, <1>3, <1>4, <1>5, <1>6, <1>7, <1>8 DEF Next

\* The invariant holds for all audiences, announcements, codes and requests.
LEMMA InvAlways == Spec => []Inv
BY InitInv, NextInv, PTL DEF Spec

\* Announcements, marks, releases, files and requests have their types; the
\* number on a badge in particular is never negative.
THEOREM NoticesTyped == Spec => []TypeOK
<1>1. Inv => TypeOK
  BY DEF Inv
<1> QED
  BY <1>1, InvAlways, PTL

\* unreadCount: the number on the badge lies between the announcements unread
\* all the while and those unread or deleted at some moment of the request.
THEOREM BadgePlausible == Spec => []BadgeIsPlausible
<1>1. Inv => BadgeIsPlausible
  BY DEF Inv, Fitting, Watching, BadgeIsPlausible, At
<1> QED
  BY <1>1, InvAlways, PTL

\* publishVersion: a file under its final name has been a release's or belongs to
\* a request about to save it, whether codes are refused, renames or saves fail or
\* requests publish one code; one under its multer name belongs to a request at
\* its check, unless validation, the lookup or mkdir may fail.
THEOREM NoFileLeftAlways == Spec => []NoFileLeft
<1>1. Inv => NoFileLeft
  BY DEF Inv, Files
<1> QED
  BY <1>1, InvAlways, PTL

\* publishVersion, updateVersion, deleteVersion: the file of every release is on
\* the disk under its final name, also of one an edit has inserted again after its
\* row was deleted.
THEOREM ReleaseHasFileAlways == Spec => []ReleaseHasFile
<1>1. Inv => ReleaseHasFile
  BY DEF Inv, Files, Releases, ReleaseHasFile
<1> QED
  BY <1>1, InvAlways, PTL
=============================================================================
