# BurnMsg (焚信) backend: TLA+ models and proofs

This directory is a verification project for the NestJS backend in `src/`. It
models the handlers that change the database as TLA+ actions, checks them with
TLC on small instances and proves the central properties with TLAPS for every
value of the constants.

## 1. The system

One Node.js process serves REST and socket.io in front of one MySQL database.
Every service method is an `async` function. Between two `await`s it runs
alone; at an `await` every other handler and both cron schedulers may run.
Outside `dataSource.transaction` each statement commits by itself. There are no
foreign keys; unique keys exist where listed below. Only sockets and the
authentication cache live in memory, so a restart loses the handlers in flight
and these two, and keeps the rows.

| component (code) | state | operations | correct when |
|---|---|---|---|
| Burn message life cycle (`message/message.service.ts`, `message/destroy.service.ts`, `message/burn.scheduler.ts`) | `messages`, `message_receipts` (unique message/user), `message_destroy_acks` (unique message/user), `message_tombstones`, files | send, reveal, consume, list, recall, ack, purge, minute marker, hourly sweep | two-phase destruction is never skipped or undone; no reader loses promised time; no content without a running timer; every burn message ends |
| Read watermark, receipts, history, search (`message.service.ts`, unread count in `conversation/`) | `conversation_members.last_read_message_id`, receipts, pages | markAsRead, markMessagesRead, reveal, listMessages with placeholders, searchMessages, searchGlobal | the watermark only moves forward, what was read stays read, a page shows each message once and leaves no gap, content goes to those who opened it |
| Admin message service (`admin/admin-message.service.ts`) | same rows, `devices` | manualDestroy, forceOfflineDevice, queries | the first destruction stamp stays; a device forced offline is refused |
| Groups, channels, conversations (`group/`, `channel/`, `conversation/`) | `conversations`, `conversation_members` (unique conversation/user) | create, add, remove, transfer, dissolve, subscribe, update | one owner who is a member, no group without the account of its owner, one private conversation per pair, counts that follow the rows |
| Authentication and sessions (`auth/`, `common/guards`, `common/cache`, `account/`) | `app_users`, `devices` (unique user/device), token versions, cache | login, lock, guard, cache, remove device, create, import, disable, delete, change and reset of passwords | a live login is accepted, a removed one is not, the session policy's limit holds, failures lock an account, a reported password works |
| Presence (`events/events.gateway.ts`, `auth/presence.scheduler.ts`, `presence/`) | `devices.is_online`, `socket_count`, `last_active_at`, rooms | connect, disconnect, heartbeat, sweep | a device is online exactly while it has a socket |
| Burn settings (`burn-setting/`) | `burn_settings` (unique owner/scope), `app_users.default_burn_ttl_seconds` | set, clear, resolve | a message gets a time that was in force |
| Keys (`keys/`) | `user_keys` (unique user) | upload, rotate, fetch one or many | who holds a replaced key is told |
| Announcements (`announcement/`) | `announcements`, `announcement_reads` (unique announcement/user) | publish, push, mark read, badge, delete | the badge is a number that was possible |
| App versions (`app-version/`) | `app_versions` (unique platform/code), files | publish, edit, broadcast, delete | a refused release leaves no file, a release keeps its own, a withdrawn one is not offered |
| Push, uploads, audit, statistics, contacts, feedback, bootstrap | none of their own, or append-only | | not modelled, section 5 |

They interact through the tables. A send reads `conversations` and
`conversation_members`, which group handlers write. A dissolution writes
`messages`. The schedulers read what reveals write. Broadcasts
(`message:destroyed` and others) leave after the statement they announce. A send
asks burn settings for the time of its message. Keys and private conversations
are tied by membership: only who shares a conversation gets a key.

Behaviours that are hard here: handlers that check a row, await, and write by
id what they concluded earlier; message and receipts written in two
transactions; two cron jobs overlapping themselves and each other; restarts
between purge and file deletion, and between row and receipts; timeouts
(fallback deadline, acknowledgement timeout) meeting late clients. `hazards` in
PROJECT.json lists them by line.

## 2. Modules

| module | content |
|---|---|
| `MessageFate` | the abstract promise about one message: absent, live, destroyed, purged; the tombstone appears in the step that removes the row; the attachment outlives the row |
| `BurnMessage` | the life of one message with every handler that touches its rows, one action per database statement |
| `MCBurnMessage` | model values and symmetry for TLC; the `MCBurn*.cfg` files choose users, slots, operations and durations |
| `BurnMessageProofs` | types; the invariant `Order` on handlers in flight, the refinement of `MessageFate`, broadcasts, stamps; the invariants `Accounted` (what every purge can point to), `Deadlines` (the promised reading time), `Reading` (readers of R2, timers of delivered content) and `Reach` (dates the schedulers judge by) |
| `Presence` | the row of one device: web sockets, heartbeats, repeated logins, the sweep, restarts |
| `MCPresence` | its scenarios for TLC |
| `PresenceProofs` | types, the socket count, "online while connected" |
| `DeviceSession` | the devices of one account, logins under a session policy, guard and cache, removals, a closed account |
| `MCDeviceSession` | its scenarios and symmetry for TLC |
| `DeviceSessionProofs` | types and unique key, the cache's lifetime, the device limit |
| `GroupMembership` | one group or channel: creation, members, roles, transfer, dissolutions, subscriptions, the cascade of a deleted account |
| `MCGroupMembership` | its scenarios and symmetry for TLC |
| `GroupMembershipProofs` | types, one owner, the owner's member row, groups of closed accounts, the count of subscribers |
| `ConversationReading` | what one member with several devices sees of one conversation: pages, placeholders, search, receipts, watermark, unread count |
| `MCConversationReading` | conversations, scenarios and symmetry for TLC |
| `ConversationReadingProofs` | types, unread count, pages without repetition and gap, content, receipts, watermark |
| `DirectChat` | two people talk: their private conversation, the time their messages live, the keys of their clients |
| `MCDirectChat` | its scenarios and symmetry for TLC |
| `DirectChatProofs` | types, the private conversation found, the time of a message, replaced keys |
| `Notices` | announcements with read marks and badge; releases of the app with their files |
| `MCNotices` | its scenarios and symmetry for TLC |
| `NoticesProofs` | types, the badge, files left and files kept |
| `Accounts` | accounts created and imported, the lock after failed logins, changes and resets of passwords |
| `MCAccounts` | its scenarios and symmetry for TLC |
| `AccountsProofs` | types, reported passwords, the lock |

`BurnMessage` refines `MessageFate`. `Presence` and `DeviceSession` share the
table `devices` and disjoint columns of it: the first follows the online state
of one row, the second which rows exist. `GroupMembership` continues the deletion
of an account where `DeviceSession` stops, at the cascade into its groups; of a
dissolution it keeps `dissolved_at`, `BurnMessage` what happens to a message.
`ConversationReading` takes the stages of a row from `MessageFate` and looks at
several messages of one reader where `BurnMessage` looks at one message of several
readers. `Accounts` ends where `DeviceSession` begins: at the right password.

### From code to model

* `pc[p]` names the statement handler `p` will issue next; `loc[p]` holds what
  it has read (its clock, the column it read last, a count, a set of members).
  `Requests` are slots for HTTP requests, `Markers` and `Sweepers` for runs of
  the two cron jobs. More than one marker slot means overlapping runs, which
  `@Cron` allows.
* An action is one statement and the JavaScript up to the next `await`:
  `RevealLoad`, `Admit` (assertMember), `RevealReceipt`, `RevealCreate`,
  `RevealStart`, `RevealExtend`, `RevealReply` are `revealMessage` in order. A
  request that a check on freshly read data rejects is `Done`; one rejected
  already by its first read is not started, for it changes nothing.
* A column is a field of `msg`, `receipts[u]` or `tomb`; NULL is 0, the clock
  starts at 1.
* `purge` is reached from `ack` and from the sweep; both continue at
  `purgeLoad` with their own trigger.
* `delivered` (who was handed the content), `announced` (was
  `message:destroyed` broadcast) and `stamps` (the dates `destroyed_at` has had)
  are history variables no guard reads.
* `Crash` clears `pc` and `loc` and nothing else.
* In `Presence`, `sockets[s].step` is the statement the handshake awaits, and
  `dec` and `off` are the two updates of `handleDisconnect`, which the code
  issues without `await` and which therefore commit in any order.
  `last_active_at` is an age that stops growing past `ONLINE_TTL_SECONDS`. A
  login's `save` is a SELECT, which fixes the columns that differ, and an UPDATE.
* In `DeviceSession`, `login`, `guard` and `admin` are handlers in flight.
  `cache[id]` is the age of a cache entry. `gone`, `closed` and `torn` are
  history no guard reads. Because the cache is shared memory, deleting a row and
  invalidating its entry are two steps.
* In `GroupMembership`, `handler[p].step` is the next statement of a request; a
  route's name is its first one. `Arrive` is the token check, which precedes the
  first statement, so an account may be closed in between. `joins` tells a
  member's row from the one he gets when he joins again. The `save()` of
  `updateChannel` is a SELECT, which fixes the columns to write, and an UPDATE.
  `seat` and `heir` are history.
* `Scenarios` lists sets of operations; `Init` picks one and `ops` keeps it. One
  run so covers several mixes without the product of all of them, and the proofs
  cover every mix.

* In `ConversationReading`, `row[m]` is the stage of a message ("due" is stored
  with `destroy_at` in the past), `receipt[m]` the member's own receipt, `stamp[m]`
  its `created_at`, which two messages may share. `loc[r].step` is the next
  statement of a request; `rows`, `items` and `todo` are the page it puts together.
  The placeholders come from two queries at once (`ListTombstones`, `ListMarked`),
  in either order, and are merged afterwards.
* In `DirectChat`, `OpenStart` to `OpenCount` are `getOrCreatePrivateConversation`,
  `SendStart` to `SendOwn` the resolution of a time, `Set...` and `Clear` the
  settings, `Upload...` and `Fetch...` the keys. `pinned` and `told` belong to the
  clients and stand for what TOFU_FRONTEND.md has them keep; no guard of a handler
  reads them. A key counts as pinned from the SELECT that finds it, before the client
  has it. `Move` lets a member leave the group or join it; `parted` records which
  holders of a replaced key have been without a common conversation since.
* In `Notices`, a `save()` of a loaded release is a SELECT, which fixes the columns
  that differ (`was`), and an UPDATE. `disk[f]` is a file in `uploads/app`: under the
  name multer gave it, under its final name, or absent. The interceptor stores it
  before anything is checked (`Receive`); a release's `id` names its row and its file.
  `released` is history. The operations "fail", "outage" and "invalid" let renames and
  saves fail, the lookup or `mkdir` fail, and validation refuse the other fields.
* In `Accounts`, `todo` and `done` are the list an import works through. A hash is
  the password it was made from; verifying it belongs to the statement before.

### What is left out of BurnMessage

* The model follows one message of one conversation. Batch sizes (`LIMIT`,
  slices of ids) and handlers that only touch other messages are not seen.
* `editMessage`, `updateOriginalFile`, and the administrator's statistics. Pages of
  several messages and search are in `ConversationReading`.
* `conversations.last_message_at`, roles of members, the audit rows and push
  notifications, which no property of this module reads.
* Failures of single statements other than the duplicate keys the code can
  provoke and a crash of the process.
* Files: one flag, as `deleteAttachments` swallows its failures.

### What is left out of Presence and DeviceSession

* `Presence` keeps one device; rooms and broadcasts carry no state of the row.
* `DeviceSession` keeps one account. A login starts at the point where the
  password was right (failures and the lock are in `Accounts`); refresh and expiry
  of tokens are not in it. "allow" and "notify" differ in a broadcast
  only. `MAX_DEVICES_PER_USER <= 0` (no limit) and `AUTH_CACHE_TTL_MS = 0` (no
  cache) are excluded. Which devices exceed the limit is left open, so the
  order by `last_active_at` is not checked. The deletion of an account stops
  before the cascade into its groups.

### What is left out of GroupMembership

* One conversation. That nobody owns two channels is a question about two.
* Names, pictures, `is_channel`, `visibility` (a channel is public) and
  `dissolved_by`; broadcasts and audit rows after the last statement.
* The loop over several owned groups: each is dissolved in a transaction of its
  own, and one is modelled.

### What is left out of the other four

* `ConversationReading`: keywords, the full-text index and its fallback, the limits
  of the search's date bounds, recalls and edits; the member never leaves. What a
  broadcast changes on the client is not seen.
* `DirectChat`: the content of messages and ciphertexts, `contact` names. One group
  exists from the start; its members come and go in one step (`GroupMembership` has
  the statements).
* `Notices`: texts, priorities beyond urgent or not, pagination, one platform; a crash
  between file and row, a removal of a file that fails (`safeUnlink` swallows it) and a
  save that is reported as failed but was committed.
* `Accounts`: unknown phones and closed accounts at login, rate limits, the guard's
  whitelist for `force_change_pwd` (a column here), names and departments.

## 3. Runs

Deadlock is checked where clock, cron jobs or requests can always go on. The runs
of `GroupMembership`, `ConversationReading`, `DirectChat`, `Notices` and `Accounts`
switch it off: a dissolved group, a clock at its bound or a conversation whose
messages are all gone may leave nothing to do.

| run | question | instance |
|---|---|---|
| `MCBurnReveal` | can marking overtake readers who open, consume and list concurrently, and does content ever leave without a timer? | media message, two requests, a member who leaves and returns, rules R1 and R2 |
| `MCBurnPurge` | do acknowledgements, manual destruction, sweep and marker together implement two-phase destruction, is every purge accounted for, who may rewrite a stamp? | thresholds 0 and 2, two requests, a clock that passes the timeout |
| `MCBurnLive` | does every burn message end, through a crash? | one crash, dissolution, recall, fair cron jobs |
| `MCPresence` | does the row cover its sockets, and is a silent device taken offline? | two tabs, one restart, three scenarios |
| `MCDeviceSession` | do limit and unique key survive concurrent logins, and the cache forget what was removed? | three devices, two logins, both policies, five scenarios |
| `MCGroup` | who owns a group, is he a member, does the group end with his account, are subscribers counted once? | three users, two requests, six scenarios |
| `MCReading` | does a page neither repeat nor lose a message while messages are opened, destroyed and purged; do receipts and watermark only move forward; who gets content? | three messages, page size 2, two requests, seven scenarios |
| `MCChat` | is an existing chat found, which time does a message get, who hears of a new key while members come and go? | three users, a group one of them leaves and joins, two requests, seven scenarios |
| `MCNotices` | can the badge be wrong, does a file stay behind, or a release lose its own? | two users, two announcements, two codes, two uploads, two requests, four scenarios |
| `MCAccounts` | do imports of the same phones report working passwords, do concurrent logins lock in time? | two phones, three failures, two requests, four scenarios |
| `MCBurnDeadlineLost`, `MCReadMeansOpened` | does the code keep a sentence of its documents? | violated, see section 6 |

Distinct states: Reveal 4.96 million, Purge 2.96, Live 0.13, Presence 0.55,
DeviceSession 0.74, Group 1.6, Reading 1.66, Chat 3.50, Notices 1.32, Accounts 1.42.

### Properties

* `PromisedTtlKept`: unless the owner dissolved the conversation, R1 destroys
  burn messages only, and none before ttl and fallback have both gone by since
  it was sent.
* `AllReadHasAReader`: R2 never fires without an opened receipt of somebody
  other than the sender. The theorem covers a crash between message and receipts,
  which the run leaves out.
* `DeliveredMeansTimed`: whoever was handed the content of a burn message has
  an opened receipt as long as the row exists.
* `AnnouncedMeansDestroyed`: clients are told after the database.
* `RefinesFate`: the rows implement `MessageFate` (checked where every trigger of a
  purge meets every other, `MCBurnPurge`, and proved, crashes included).
* `StampChangedOnlyByManual`: `destroyed_at` and `destroy_reason` are written
  once, except by an administrator's request that read the row before.
* `PurgeAccountable`: a row goes with the quota of acknowledgements on file or when
  the timeout has passed since a date its `destroyed_at` has had, and the tombstone
  shows such a date. Policy and deadline are judged statements before the deletion,
  and a manual destruction may rewrite the date in between; it is no exception. The
  quota counts acknowledgements whoever gave them, as the code does (section 7).
* `BurnEventuallyDestroyed`, `EventuallyPurged`: the two phases happen.
* `CountCovers`: with nothing in flight, `socket_count` is at least the number
  of connected sockets. `GREATEST(socket_count - 1, 0)` makes this delicate: a
  decrement that overtakes its increment is swallowed, and must not be repaid by
  another tab.
* `OnlineWhileConnected`: with nothing in flight, a connected device is online.
  Behaviours with logins, failed statements and (for this one) sweeps are left
  out of the two, for there the code does break them (section 7).
* `UncountedGoesOffline`: the sweep ends with every silent device of count 0
  offline, whatever else happens.
* `AtMostAllowed`: when no login is in flight, the account has at most one
  device under "single" and `MAX_DEVICES_PER_USER` otherwise, although each
  login judged rows the others were deleting. After a login that died half-way
  this waits for the next one.
* `RefusedAfterTtl`: a removed device and a closed account are refused once the
  lifetime of the cache and the duration of one guard have gone by. The comments
  ask for less delay; this is what the code guarantees.

* `OneOwner`: `owner_id` and the member rows never name two owners. Transfers
  judge the owner before their transaction; its `owner_id` condition decides.
* `OwnerSeated`: the owner has his member row, unless a removal had passed its
  check before he became the owner. `seat` records whether one had.
* `ClosedOwnersGroupEnds`: with nothing in flight, a group whose owner's account
  is closed is dissolved, in whatever state of its creation, transfer or
  dissolution the deletion met it. Excepted are an owner who became it after
  his account was closed, which the code permits (section 7), and failures,
  which the cascade swallows.
* `CountNotInflated`: with nothing in flight, `member_count` of a channel that
  only subscriptions touch is at most the number of its members.

* `NeverUnread`: no path turns a read receipt into an unread one, not even the
  sender's batch of receipts that arrives after the member opened the message.
* `WatermarkForward`: the watermark moves to later messages only, unless the one it
  points at was purged.
* `CountedCanBeSeen`: the unread count holds nothing that the list would hide.
* `ShownOnce`, `GapsAreFilled`: a page is put together from four queries, between
  which a message may go from live to marked to purged; still it appears at most
  once, and what was gone when the request began has its placeholder.
* `ContentOnlyOnceOpened`: pages and search give the content of a burn message only
  to whoever opened it.
* `OneChatPerPair`: a request that could see a private conversation of the two when
  it began creates no second one.
* `SentWithTimeInForce`: the time of a message was in force at a moment of its
  lookup, which begins when the sender was found to be a member, if at most one
  change falls into it.
* `PeersHear`: where no request fails, whoever holds a replaced key is told, or the
  request that replaced it is about to, or he has had no conversation in common with
  its owner at some moment since. A failure between the two, and a holder who has
  left, stay in the dark (section 7).
* `BadgeIsPlausible`: the badge lies between what was unread all the while and what
  was unread or deleted meanwhile.
* `NoFileLeft`: a file under its final name has been a release's or belongs to a
  request about to save it; one under its multer name belongs to a request about to
  check it, except where validation, the lookup or `mkdir` may fail: these files stay
  (section 7).
* `ReleaseHasFile`: the file of every release is there. A release may come back after
  its deletion, inserted by an edit that had loaded it, so the code keeps the file.
* `ReportedOpens`: a password an administrator was told opens the account until it
  is replaced, also when another import had the same phone.
* `LocksAfterFailures`: an account is never locked by fewer than `MaxFails` wrong
  passwords, and that many in a row, undisturbed, do lock it.

Each property has a mutant of the code (PROJECT.json, `mutants`) that breaks it
under the same configuration.

### Bounds

`MaxTime` stops the clock and `SendBy` bounds the instant of sending. In each run
the clock reaches the deadlines its question is about, for a message sent or destroyed
at its beginning: ttl, media window and fallback in `MCBurnReveal` (1 + 2 = 3), the
acknowledgement timeout in `MCBurnPurge` (passed at 3, after a destruction at 1 and a
timeout of 1), either in `MCBurnLive`. Later deadlines lie beyond it. Crashes are in `MCBurnLive` only; the theorems
allow any number.
Two request slots suffice for a race between any two requests; a marker and a
sweeper slot run beside them, and the slots are reused. Two or three users give
a sender, a reader and, where the property counts members, one more. `Ops`
restricts an instance to the requests its question is about; together the runs
issue every kind. In `MCBurnLive` the crash may hit any state; a second differs only
in the handlers lost. Request slots are interchangeable (`RequestSymmetry`); symmetry
is not used in the liveness run.

`Presence`: two tabs are one whose statements interfere with another's;
`MaxCount` 2 lets the count exceed the sockets after a restart; ages up to
`OnlineTtl` 1 distinguish fresh, due and overdue. `DeviceSession`: three
fingerprints and rows with a limit of 2 make a limit that is reached and one
that is exceeded; two logins race; one guard and one administrator's slot race
with them and are reused. `CacheTtl` and `Latency` are 1, so that entries and
facts age while a guard runs. `MaxIds` 3 forbids a fourth row ever
(`RequestIds` 2 a third where guard and requests take part); a known
device may return under its id.

`GroupMembership`: three users are an owner, a successor and a third who takes
part in a removal or addition; two requests race and their slots are reused
without bound. `MaxJoins` 2 lets everyone return once. The scenarios keep apart
what does not meet: the member routes with transfers, transfers with the
deletion of accounts, subscriptions, and the owner's changes to a channel.

`ConversationReading`: three messages of which two share an instant are the least
in which a page of two has an edge, a gap and a tie; the three conversations put
each kind first, last and in between. One page at a time is fetched, as pages only
read. `DirectChat`: a pair with a common third, a group that must not be taken for
a private conversation and that one of them leaves and joins at will, two times and two
keys. `Notices`: two announcements make
one that is read and one that is not; `MaxUploads` 2 lets two publications race for a
code, and a code be published, deleted and published again. `Accounts`: `MaxFails` 3 leaves a count that is lost, one that
is kept and one that locks; `MaxTime` 2 and `LockTime` 1 let a lock expire. Every
one of them has two request slots, reused without bound, and scenarios that keep
apart what does not meet.

### Fairness

`FairSpec` assumes that time passes, cron jobs fire whenever their slot is free
and a statement that was issued returns (weak fairness of `Tick`, `MarkStart`,
`SweepStart`, `Continue`). Cron and the event loop justify these. No client is
obliged to send, open, acknowledge or leave. A deadline pushed beyond
`MaxTime` is excused in the property, not by fairness.

`Presence!FairSpec` assumes that time passes, issued statements return and the
sweep runs every minute. Sockets need not open or close. The other modules state
no liveness: nothing there happens unless a client asks.

## 4. Proofs

Every safety invariant and every action property of the passing runs is a theorem,
the refinement included. Each is proved in the same way: an inductive invariant says
what a handler in flight may still take for granted at each of its statements, one
lemma per group of actions shows that its statements keep it, and the property
follows from it. The invariants were checked by TLC on the runs' instances first.

### Burn messages

The theorems hold for every set of users, requests, markers and sweepers, every
set of ttls and every duration that satisfies the named assumptions of
`BurnMessage`: finite `Users` containing the sender, disjoint slots, naturals
for durations, `Fallback` at least 1 (the code falls back to 24 hours).

* `TypeCorrect`: `Spec => []TypeOK`. One lemma per group of actions, over two
  lemmas on what `Goto` does to `pc` and `loc`.
* `OrderCorrect`: `Spec => []Order`. What makes the refinement non-trivial is
  that handlers write what they concluded earlier. `Order` records per label
  what a handler in flight may rely on: a handler at `purgeTx` knows a row that
  was marked or already removed, one at `tell` a destruction already in the
  database, one about to save the message an absent row, and so on.
* `FateRefined`: `Spec => RefinesFate` from `Order`: every step maps to a step
  of `MessageFate` or a stutter.
* `AnnouncedCorrect` and `StampCorrect` from the same invariant.
* `DeadlinesCorrect`, `PromiseCorrect`: `Spec => []PromisedTtlKept`. The
  property alone is not inductive: `destroy_at` may be rewritten by a reveal
  from a value read long ago, and the marker updates a row selected earlier.
  `Deadlines` adds that `destroy_at` of an undissolved conversation's message
  is never below the promise, and for each handler that what it read (the
  column, the clock at which the row was overdue) keeps that bound.
* `ReaderCorrect`, `TimerCorrect`: `Spec => []AllReadHasAReader` and
  `Spec => []DeliveredMeansTimed`. `Reading` states that a receipt once opened
  stays opened until the row is purged (both, with the row, in one
  transaction), and which handlers have opened theirs already: content is
  handed over only by a label past `revealStart`, `consume` or `viewReceipt`.
* `PurgeCorrect`: `Spec => PurgeAccountable`. `Accounted` carries the count of
  acknowledgements, the members it was compared with and the deadline the
  sweep compared, from the statement that read them to the purging transaction.
  The date that deadline came from may be overwritten meanwhile, but it stays in
  `stamps`, which is what makes the property hold of manually destroyed rows too.

* `InReachCorrect`: no burn message is ever without `destroy_at`, no destroyed one
  without `destroyed_at`, no tombstone without the date it shows. A NULL there would
  hide a row from the schedulers for ever, so this is the safety half of the two
  liveness properties. `Reach` adds that the handlers about to write a date have one;
  from `Deadlines` it takes that a reveal extends beyond the deadline it read.

### Presence, sessions, groups

* `PresenceTypeCorrect`, `CountCorrect`, `OnlineCorrect`: for every finite set
  of sockets and any number of restarts. The invariant weighs sockets that were
  counted and not yet discounted (`Held`) against those whose decrement came
  before their increment (`Owed`): `socket_count` plus the owed increments is at
  least the held ones. For the second, a row with a positive count is online or
  some handshake is about to make it so.
* `SessionTypeCorrect`: types and the unique key of `devices`, for every number
  of devices, logins, requests and administrators.
* `RefusalCorrect`: `Fresh` bounds how much older a fact that refutes an
  observation may be: by the age of the guard that is about to fill the cache,
  and by the age of the entry plus `Latency` afterwards. Steps that only add
  facts share one lemma (`FactsAdded`).
* `LimitCorrect`: `Bounded` counts only the rows no login has condemned yet
  (`Kept`): deletions happen one at a time from a list read earlier, so the
  number of rows itself is not bounded in between. It needs that no login stands
  between writing its row and reading the others.

* `MembershipTypeCorrect`, `OneOwnerCorrect`, `OwnerSeatedCorrect`: for every
  finite set of users and every set of requests and scenarios. Checks and writes
  are apart, so `Ownership` says for each position of a request what no other
  request can take back (`Sound`): who creates is the owner until his row is
  there, no removal past its check is about a seated owner, no unsubscription is
  about the owner, a channel is never handed over. Steps are split into those
  that only move a slot (`Reading`, with what they `Found`) and those that write.
* `ClosedOwnersCorrect`: from `Ownership` and `Ending`: while a group of a closed
  account lives, some request is about to find or to dissolve it.

* `CountNotInflatedCorrect`: `Balance` adds to `member_count` the subscriptions whose
  row is there and takes off the unsubscriptions whose row is gone: the sum is never
  more than the rows, to which the owner's own belongs once he has been counted. It
  also says where the requests of such a behaviour may stand at all.

### Reading, direct chats, notices, accounts

* `ReadingTyped`, `CountedIsSeen`, `ShownOnceAlways`, `ContentIsEarned`,
  `GapsAreFilledAlways`, `ReadStaysRead`, `WatermarkMovesForward`: for any number of
  messages, any script of kinds and times (several messages may share an instant), any
  number of requests and any page size. Rows and receipts only move forward
  (`Forward`), so `Known` relates what a request has collected to the rows as they are
  now: its items have different ids, content of a burn message was collected for
  somebody who had opened it, and what was gone when it began has not come back. The
  gap is the hard part. Each query for placeholders has a limit, and a message it leaves
  out was crowded out by `Limit` others, which all belong to the page (`Packed`). That
  set is the witness the invariant carries until the two queries are merged.
* `DirectChatTyped`, `OneChatPerPairAlways`, `SentWithTimeInForceAlways`,
  `PeersHearAlways`: for every finite set of users and any
  conversations, times and keys. `Seen` keeps the conversation a request overlooks at
  its peril: it is in what was found, or in what is still to be queried. `Looked`
  relates a lookup in progress to the settings after at most one change: what it has
  read of the default is in force, or was, or is overruled. `Pins` adds that the
  holder of a replaced key who has not `parted` is in a conversation with its owner, so
  that `PeersHear` is inductive: he is among the peers when they are looked up, whoever
  has come and gone. A key may be handed out after its reader has left, to one who has
  parted at once.
* `NoticesTyped`, `BadgePlausible`, `NoFileLeftAlways`, `ReleaseHasFileAlways`: the badge is the difference of
  two queries. `Watching` says what of the first still holds when the second runs: what
  was unread all the while is unread, and what has lost its mark or its row since is in
  the upper bound. Marks are deleted before their announcement, so an announcement may
  be unread a second time. For the files, `Owned` and `Apart` say that no two requests
  before their save hold one upload and that none holds a release's: so a refusal removes
  no other file. `Releases` adds that an edit writes back only what has been a release.
* `AccountsTyped`, `ReportedOpensAlways`, `LocksAfterFailuresAlways`: a login writes
  back a count it read before, so the count alone says little. `Counted` bounds it from
  above by the wrong passwords written and from below by those in a row that nothing
  came between, and `Fetched` does the same for the copies of logins in flight. `Opens`
  covers the passwords an import has collected but not yet reported.

### Assumptions

Every module names its own, as weak as the code allows: finite `Sockets` and natural
bounds (`Presence`), a limit of at least 1 and a positive cache lifetime
(`DeviceSession`), finite `Users` and `Requests` (`GroupMembership`), a page of at
least one message and scripts whose times do not fall with the ids
(`ConversationReading`), finite `Users`, friendships of two, at least one conversation
beside the group and NULL apart from every value (`DirectChat`), audiences of active
accounts (`Notices`), issued and chosen passwords apart and a lock of at least one
failure and one unit of time (`Accounts`).

### Checked by TLC only

`BurnEventuallyDestroyed`, `EventuallyPurged` and `UncountedGoesOffline`: liveness under
fairness is out of the prover's reach. The two violated properties and those of
section 7 are refuted, not proved.

## 5. Not modelled, and what could come next

* `editMessage` and `updateOriginalFile` (section 7 lists what reading them shows);
  the sweep's limit of 200 and the marker's batches, which need a queue longer than
  the bounds of `BurnMessage`.
* Private channels and the rule of one channel per owner; the cascade over several
  groups of one account.
* Refresh and expiry of tokens, and the guard's whitelist for `force_change_pwd`.
* Push: reads who is offline and calls the provider, without state of its own.
* Uploads and object storage (pure I/O), audit log, statistics, contacts, feedback
  (append-only rows, queries, or single-row writes without interaction), DTOs,
  migrations and bootstrap, the load tests and the other front-ends.

Next would come a module with a queue of messages, refined to `BurnMessage` for each
of them.

## 6. Findings

Each is a run that TLC finds violated, with the sentence it contradicts in
PROJECT.json.

* `MCBurnDeadlineLost`: concurrent reveals each raise `destroy_at` from a value
  read at the start; the smaller write may come last.
* `MCReadMeansOpened`: `markMessagesRead` marks listed burn messages nobody opened.

## 7. Further deviations

The modules state each of the first group as a property that TLC finds violated;
none has a run of its own. The configurations above show it when the property is
added, except for `AllReadMeansEveryoneOpened` (two readers), `UnusedGoesOffline`
(`SweepAndRestart`) and `UnsetOnlyIfNothingIsSet` (`Changing`).

* `OthersConfirm` (`BurnMessage`): with threshold 0 the sender's acknowledgement stands
  in for a member's (`destroy.service.ts:198` compares the count of all with the number
  of others); lines 43 and 187 ask for every member other than the sender.
* `AllReadMeansEveryoneOpened` (`BurnMessage`): a reader who opens before the receipts
  are inserted makes that insert fail (`message.service.ts:251`) and remains the only
  reader R2 waits for. `BURN_V2_DESIGN.md:139` asks for "**所有**非发送方".
* `UnusedGoesOffline` (`Presence`): nothing resets `socket_count` at a start, and the
  sweep skips positive counts for ever (`presence.scheduler.ts:45`).
  `events.gateway.ts:134` calls the sweep the fallback for lost disconnects.
* `ForcedIsRefused` (`DeviceSession`): forcing a device offline does not invalidate the
  cache (`admin-message.service.ts:527`); line 520 says "token 立即失效".
* `SomeoneStaysLoggedIn` (`DeviceSession`): two logins at once under "single" delete
  each other's device (`auth.service.ts:303`); line 116 means to avoid "两边都掉线".
* `DissolvedIsFinal` (`GroupMembership`): an update in flight during the dissolution of
  a channel writes back `dissolved_at = NULL` (`channel.service.ts:115`); line 251 says
  nobody gets in any more.
* `PurgedIsShown` (`ConversationReading`): on the first page, placeholders reach no
  further than its newest live message (`message.service.ts:506`), so a purged message
  at the end is not shown; `BURN_V2_DESIGN.md:314` has it shown.
* `OnlyUpToBound` (`ConversationReading`): `markAsRead` up to a message that was purged
  finds no bound and marks everything (`message.service.ts:783`); line 765 says only up
  to it.
* `UnsetOnlyIfNothingIsSet` (`DirectChat`): a resolution that reads the default before
  it is set and the setting after it was cleared finds nothing
  (`burn-setting.service.ts:68`, `77`).
* `HoldersHear` (`DirectChat`): the peers of a new key are those of the moment
  (`keys.service.ts:178`), so a holder who was removed (`group.service.ts:134`) or has
  unsubscribed hears nothing and keeps the old key; `TOFU_FRONTEND.md:93` and
  `keys.service.ts:176` promise the event to whoever may have cached it.
* `SetLands` (`DirectChat`): an update whose row was deleted after the lookup
  (`burn-setting.service.ts:310`) writes nothing, and the answer still says success and
  the time (lines 134, 160).
* `NoSecondChat` (`DirectChat`): two requests at once create two private conversations
  (`conversation.service.ts:18`), and either may be found later.
* `WithdrawnStays` (`Notices`): an edit that loaded a release before it was withdrawn
  publishes it again (`app-version.service.ts:157`); `APP_UPDATE.md:342` and `97` say it
  is not offered any more.
* `ResetStands` (`Accounts`): a change of password verified before a reset overwrites it
  and clears `force_change_pwd` (`auth.service.ts:153`).

What the models contain or reading shows beyond that:

* If the query for the peers fails, a key is replaced and nobody is told
  (`keys.service.ts:51`); `TOFU_FRONTEND.md:118` promises the broadcast.
* The comment above `importFromExcel` lists a password column (`account.service.ts:110`)
  that its rows drop (lines 121-127).
* A crash in the middle of an import loses the passwords of the accounts it has
  created; they open only after a reset.
* Failed logins at the same time write the same count (`auth.service.ts:56`), and a
  right password whose check began before the last failure clears the lock it set.
* `searchGlobal` reads raw rows of a join, on which `skip` and `take` have no effect
  (`message.service.ts:1161`); its total may be of a later moment than its rows.
* Of messages with one `created_at` at the edge of a page, those not shown are never
  listed (`created_at < before`).
* A page whose rows are all burnt copies of the reader is empty although older
  messages exist.
* After a purge of the message it points at, the watermark may move back
  (`message.service.ts:924`).
* A reveal may insert a receipt, or an ack its row, after the purge: rows without a
  message (`message.service.ts:566`).
* A failed lookup of the highest code or a failed `mkdir` (`app-version.service.ts:80`,
  `90`) leaves the uploaded file in `uploads/app` under the name multer gave it
  (`app-version.controller.ts:89`), and so does a request whose other fields validation
  refuses, which happens after the interceptor has stored it; a deleted code may be
  published again.
* Deleting an announcement removes its marks first (`announcement.service.ts:198`); a
  mark set in between stays without an announcement.
* `editMessage` checks and writes apart (`message.service.ts:728`), so that an edit may
  follow a recall. An original picture that `updateOriginalFile` stores in the row
  (line 999) after a purge has read it is not among the files the purge deletes.
* Two devices of one user both find the receipt unopened and the second restarts
  the timer (`message.service.ts:591`); line 540 says it does not.
* A send that read the conversation before its dissolution stores a message the
  dissolution does not reach (`group.service.ts:304`); line 291 says all
  messages end.
* A reveal that passed its checks before the mark starts a timer after it
  (`message.service.ts:591`).
* A socket that closes before the increment of its handshake may stay counted
  (`events.gateway.ts:85`), and one whose increment failed is discounted all the
  same (`events.gateway.ts:101`).
* The offline update of a disconnect may overtake its decrement and then finds
  the count still positive (`events.gateway.ts:137`).
* The sweep marks devices it selected before they connected
  (`presence.scheduler.ts:52`).
* A repeated login writes back the `socket_count` it read, or inserts a device
  again that was removed meanwhile, under its old id and so with its old tokens
  (`auth.service.ts:85`).
* The guard may fill the cache after the invalidation meant to empty it
  (`jwt-auth.guard.ts:118`), and a login in flight may leave a row on an account
  that was just closed (`account.service.ts:176`).
* A removal that judged a member before he became the owner deletes the owner's
  row (`group.service.ts:134`).
* A group may be handed to an account that is closed (`group.service.ts:356`),
  and a creation whose token was checked before the account was closed goes
  through after the cascade (`group.service.ts:54`): such groups have no owner
  who can enter.
* The former owner's dissolution, judged before his transfer, goes through
  (`group.service.ts:305`).
* `transferOwnership` makes the former owner a member (`group.service.ts:375`);
  its header says administrator (line 340), a role the code does not have.
* `member_count` is written from rows read earlier (`group.service.ts:103`,
  `136`), and two unsubscriptions of one row both decrement it
  (`channel.service.ts:240`).
* Who subscribes to his own channel before the row of its creation is there
  makes the creation fail; he stays a plain member (`channel.service.ts:77`).
