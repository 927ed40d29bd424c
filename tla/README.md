# Specifications of anistream

TLA+ models of the parts of anistream that keep state across awaits, tasks, processes and
services, with the TLC configurations that check them on small instances and the proofs, checked by
TLAPS, that hold for every instance. Paths are relative to `crates/` unless they say otherwise.

- [The system](#the-system): its parts, their state, how they interact, what is hard in them
- [Tracker sync](#tracker-sync): `TrackerSync`, its runs, its proofs
- [Downloads](#downloads): `Downloads`, its runs, its proofs
- [Tracker credentials](#tracker-credentials): `TokenRenewal`, its run, its proofs
- [Hosted store](#hosted-store): `StoreList`, `StorePlugins`, `StoreMembers`, their runs, their proofs
- [Plugin store client](#plugin-store-client): `StoreClient`, its run, its proofs
- [Watch party](#watch-party): `PartyRoom`, its run, its proofs
- [Playback](#playback): `Playback`, its runs, its proofs
- [Running the checks](#running-the-checks)
- [What the models found](#what-the-models-found), as runs and as remarks
- [Not modelled](#not-modelled) and [the plan](#plan)

## The system

anistream is a client for browsing, playing and tracking anime: 25 Rust crates (about 217,000 lines)
and native front ends in Swift, Kotlin, C# and Rust. One actor, the *engine* (`anistream-engine`), owns the program's
behaviour. Front ends (a terminal app in `anistream-tui`, the others over `anistream-ffi`) send it
commands and get events; everything long runs in a tokio task; everything durable is in one SQLite
database (`anistream-store`), read and written one statement or one transaction at a time. What is
hard is nearly always the same: a task reads the database, awaits a network, and writes, while other
tasks and the user have acted in between.

| Part | State it keeps | Operations | Interacts with | Hard behaviour | Correct when |
|---|---|---|---|---|---|
| Tracker outbox (`anistream-store/src/outbox.rs`) | `sync_outbox` rows: op, attempts, next retry | enqueue (coalescing progress), claim, complete, fail, defer, wake | drain, merge, playback | claims take no lease; rows change under a claimed batch | one progress row a title; values go forward; no edit lost |
| Drain, pull, merge (`anistream-track/src/sync.rs`, `merge.rs`) | memory of what was sent, credential hold | drain, pull, reconcile | outbox, history, services | overlapping drains, partial success, old answers | converges; does not echo; memory never leads |
| Tracking tasks and commands (`anistream-engine/src/tracking`) | live credentials, timers | sign in and out, sync now, set status and score | all of the above | sign-in during a push | what is remembered is of the account signed in |
| Tracker credentials (`anistream-track/src/held.rs`, `secret.rs`) | a token pair on disk, and one in the memory of each process | renew, save, sign in and out | other processes, through the store of tokens | single-use refresh tokens, a save that failed | the newest pair is not lost; every pair held works in the end |
| Watch history (`anistream-store/src/history.rs`) | events per episode | record, adopt, take back | playback, merge | taken-back marks and pulls | progress is what was watched |
| Download rows (`anistream-store/src/download.rs`) | `download` rows: state, path, front | enqueue, progress, finish, fail, to front, clear | manager, screen | every writer races the manager | states agree with what runs |
| Download manager (`anistream-engine/src/downloads`) | running, starting | poll, start, yield, finish | rows, torrent session, user | lists read before an await | cap held; nothing started twice; queue drains |
| Torrent session (`anistream-providers/src/torrent`) | librqbit's torrents, ledgers, holds | download, stream, pause, forget, halt | manager, playback, VPN | one torrent, several users | nothing fetched for nobody; no file taken from its row |
| VPN guard and watch (`anistream-providers/src/vpn.rs`, `anistream-engine/src/sources/vpn.rs`) | last check | verify, permit | session | checks race adds | nothing runs while it fails |
| Watch party (`anistream-party`) | what the player does, what it was told, changes on their way | join, follow, change, reconnect | player, server | echoes, overtaken changes, reconnects | members come to agree and do not fight; nobody stops listening |
| Playback sessions (`anistream-engine/src/playback`) | a task for each playback with its controls, the parked window, what Now Playing shows | start, find, hand over, play, roll on, stop, commit | player drivers, history, trackers, front ends | each is a task; stops, handovers and failures meet at every await, and are heard of late | one window; what is shown is what plays; Stop stops |
| Casting (`anistream-cast`), remote control (`anistream-remote`) | device sessions, pairings | discover, load, command | playback | reconnects, pairing | device and app agree |
| Catalogue, metadata, datasets (`anistream-meta`, `anistream-store/src/dataset.rs`) | caches, id mappings | refresh, map | drain (wakes rows) | stale caches | mapped titles are addressed |
| Providers, plugins (`anistream-providers`, `-plugin`) | loaded plugins | search, resolve | playback | WASM sandboxes, network | - |
| Plugin store client (`anistream-plugin-store`, `anistream-engine/src/plugin_stores`) | a state file, a token, a directory of plugins | refresh, join, leave, install, remove | hosted store, plugins | commands cross, each in several writes; a store that sends an old list | a list never goes back; what is loaded is whole and was asked for |
| Hosted store (`anistream-store-core`, `-store-server`, `-store-wasm`) | the plugins a store offers, its invites, members and devices | publish, unpublish, invite, redeem, join, remove | plugin store clients | concurrent requests on one database, files beside it | the numbered list is kept; what is offered is there; an invite is spent once |
| Front ends (`anistream-tui`, `-model`, `-ffi`, `-i18n`, `android/`, `apple/`, `desktop/`) | screens | render, send commands | engine | answers to old questions | - |
| Surroundings (`anistream`, `-core`, `-net`, `-discord`, `-testkit`, tools, site) | - | - | - | - | - |

The parts modelled are the ones whose failures are silent and durable, or that nobody can repair from
one side: the tracker queue, which writes into the user's accounts at services (`TrackerSync`); the
download queue, which owns files and network traffic (`Downloads`); the token pairs that several processes
share (`TokenRenewal`); the store of plugins, as it is hosted (`StorePlugins`, `StoreMembers`) and as it is
used (`StoreClient`), with what one promises the other between them (`StoreList`); the watch party,
where two sides tell each other what to do (`PartyRoom`); and the window that playbacks hand to each other (`Playback`). `PROJECT.json` lists every part
with its status, and under `hazards` the places in the code where each hard behaviour bites, with the property that
would catch it.

How the modules stand to each other: `StorePlugins` implements `StoreList`, and `StoreClient` is written
against it; the others share no state (what `TrackerSync` needs of a credential is which account it is of).
`MC...` modules add to a specification what TLC needs for an instance, `...Proofs` modules its theorems.

## Tracker sync

`TrackerSync.tla` composes the outbox, the drain, the pull with its merge, and the tasks and
commands around them. `MCTrackerSync.tla` adds only a symmetry for TLC.

### State and actions

| Variable | In the code |
|---|---|
| `watched` | the completed events of the history, by title |
| `playing` | the playback under way and the trackers it captured at its start (`playback/start.rs`) |
| `outbox` | `sync_outbox`, with time reduced to *due*, *backoff*, *deferred* |
| `pushed`, `hold` | `pushed_progress` and `reauth_hold` in `app_state` |
| `account`, `mapped` | the credential the live tracker holds; what `can_address` answers |
| `task` | the drains in flight: the batch held across `push_checked`, the titles not yet sent, the token it read |
| `pull` | the library fetched and not yet merged |
| `remote`, `catalogue` | external: the accounts' lists; the titles a service matches |
| `heard` | history variable: what each service was told |

A drain is split where it awaits: `StartDrain` claims due rows and defers what cannot be addressed,
`Send` is one title's request taken by the service, then `PushOk`, `PushFailed` or `PushRejected`
settles the whole batch. Failing halfway is `PushFailed` after some `Send`s. A pull is
`FetchLibrary` and one `MergeEntry` per entry, which reads local state as it is by then.
`Restart` drops everything in flight and keeps everything stored. `Tasks` says how many drains
of one tracker overlap: the timer, each committed episode and "sync now" each start one.

Abstractions: one `Send` carries either the token read at the start of the push (MyAnimeList, Kitsu, Simkl,
Trakt) or the one held now (AniList); `complete` and `remember_pushed` for the rows of a batch are one
step; a tracker has one pull at a time; score edits are queued and sent as status edits are; the order of
`created_at` is the order of ids; ids are reused only when neither table nor drain holds them. Left out: conflicts over
status and score, which change nothing until the user answers; rows whose payload cannot be
decoded, which the program does not write; rate limits and wire formats.

### Properties

- `OneProgressRow` (proved, not run): a title has one queued progress op per tracker, whatever overlaps.
- `NoEditLost`: a status edit leaves the queue only when it was sent or its attempts were spent.
- `QueueNeverWalksBack`: a queued value goes up or goes away, even when marks are taken back.
- `MemoryIsHeard`: what is remembered as sent was sent. The merge stays silent about remembered
  values, so a memory that led would silence it about something never told.
- `MemoryIsOfTheAccount`: and it was sent to the account signed in now.
- `ListedTitleConverges`: a title on the list does not stay behind for ever.
- `QueueComesToRest`: once the user rests, the queue empties: a service that answers and does not
  apply is not sent the same value for ever.

### Runs

| Run | Instance | States | Shows |
|---|---|---|---|
| `overlap` | 2 drains, 1 title, 2 episodes, 1 edit, marks taken back | 879,592 | type, `MemoryIsHeard`, `NoEditLost`, `QueueNeverWalksBack` |
| `converge` | 1 drain, list moved elsewhere, service may not match | 8,752 | the liveness, and `MemoryIsOfTheAccount` with one account |

Bounds. Two episodes give an older and a newer value of one row; one edit beside them gives a batch
that mixes ops or leaves one behind; two drains are enough for any pair of stale batches, as rows
meet only through ids. `MaxId` bounds the ids alive at once and `MaxAttempts` is 2 or 3 (the
code's is 50): one retry and one giving up. A batch of one row (`DRAIN_BATCH` is 25) makes claims
interleave most finely. The safety of larger instances is what the proofs are for. Deadlock is
checked in every run.

Fairness (`Fairness`). Timers tick while the program runs: weak fairness of `StartDrain`,
`FetchLibrary`, of backoffs and holds running out and of mapping refreshes. A network that keeps coming back takes a
request sooner or later and lets its answer through: strong fairness of `Send`, `PushOk` and `MergeEntry`, as a drain may be cut
short (failure, restart) again and again. The user owes nothing. Without strong fairness a service that never answers starves
the queue, and no code could help it. Liveness is checked with one title per tracker: a strong fairness of
single requests does not compose over titles that share batches.

### Proofs

`TrackerSyncProofs.tla` proves, for any trackers, titles, accounts, drains and bounds:

- `TypeCorrect`. Beside the types, no row reaches `MAX_ATTEMPTS` and no drain holds what was never queued.
- `ProgressIsOneRow` and `QueueGoesForward`. Every step is classified by what it does to one queue
  (`NextQueueStep`: a progress enqueue, a status enqueue, or a step that only drops rows or changes their
  waits and attempts); both properties follow from the class, and uniqueness is inductive over it.
- `MemoryNeverLeads`. `MemoryIsHeard` is not inductive: `PushOk` remembers its whole batch. The
  invariant `HeardInv` adds `SentIsHeard` (the progress of the titles a drain has sent was heard)
  and `BatchIsMapped` (a batch holds only titles the tracker can address, so each `Send` is heard). Both
  need that mappings only grow.
- `EditsAreKept`. `PushOk` deletes by id, so the proof needs that an id names one edit wherever it is held (`IdIsOneEdit`), which
  follows from fresh ids being above every live one.
- `MemoryIsShown`: `MemoryIsOfTheAccount`, with one account, one drain at a time and no mark taken back. TLC
  refutes it without any one of the three: with two accounts, a drain begun before a sign-in to another remembers for the
  new one; with two drains, the one that claimed a row before it was moved forward may land last (both are among [the
  remarks](#remarks)); and a mark taken back may queue less than is remembered. `ShownInv` has four parts: what is queued or
  claimed lies between what is remembered and what is watched here (`Abreast`); a claimed row is still queued, however far it was
  moved forward (`Backed`); what a drain has sent of a title is on the list (`Reflected`); and so is what is remembered (`Shown`).

Only model-checked: the two liveness properties.

## Downloads

`Downloads.tla` models the rows, the manager, the commands of the screen, the tasks that add
torrents, as much of the torrent session as they use, and the VPN watch. `MCDownloads.tla` adds the symmetry.

### State and actions

| Variable | In the code |
|---|---|
| `rows` | the `download` table: state, whether it was asked to start now and when, whether its path is known |
| `file` | the files on disk |
| `session`, `got` | librqbit: which torrents it has, live or paused; what it counts of each file |
| `guard`, `halted` | the last VPN check; `was_leaking` of `vpn_watch` |
| `starting` | `Starting`: the tasks in `TorrentSession::download` |
| `running` | `Vec<Running>`: each with librqbit's number of its torrent |
| `manager` | where the loop is, and what it holds across an await |
| `restarts`, `crossed` | not in the code: how often the process ended; the episodes asked for while something of an earlier row of them was left |

The loop is `sleep` → `poll` → `take` → `sleep`. A manager step runs from one await to the next; commands, whose statements have no
await between them, are single steps. `poll_running` is `BeginPoll` (counts
the entries that share a torrent), one `Poll...` action per entry as its row is read again, and
`EndPoll` (the retain). It stops at `resume` (after `resume_one`, when the row is not read again) and at `finish`
(after `forget`, before `finish_download`). `take_started` is `TakeStarted` and `TakeFailed`.
`start_queued` is `StartQueued`, `StayFull`, or `Yield` and, after the await on `forget`,
`Yielded`, which starts from the queue as it was read before.

librqbit dedups by infohash, so a torrent *is* the set of the episodes of its release (`Packs`), and
two rows may be of one torrent. A torrent forgotten makes the numbers held elsewhere stale: `known`
turns false and stays so even if the torrent is added again. `Missing` are the episodes whose release turns out to hold no file for them.
`Restart` is the process ending, or a settings change closing the session: `Spawn` is the next one.

Abstractions: `on_leak` is *pause*, the default; the order in which a walk takes its entries and a
`take` its answers is left open, which only adds behaviours; a retry's magnet is of the same release; an episode has one file and
no two rows name one; bytes are *none*, *part*, *whole*. Assumed, as the code does: one app on one data folder.

### Properties

- `PlacesKept`: running and starting never exceed `CONCURRENCY`.
- `OnePlaceEach` (proved, not run): no row runs twice, is added twice, or both.
- `ActiveIsManaged`: no row says "downloading" with nothing behind it.
- `DoneIsOnDisk`: a row that says done has its file.
- `TorrentsAreWanted`: between rounds, the session holds no torrent without an entry (without seeding).
- Both are about episodes that are all their release holds (`Single`), and asked for when nothing was left of an earlier row of
  them, no entry and no torrent (`Left`; the others are `crossed`). Either condition is needed: with a shared torrent, or with a cancelled episode
  asked for again while its torrent is still being added, the code breaks both properties (see [the remarks](#remarks)).
- `DownloadsSettle`: once the user and the VPN rest and nothing is paused, every row is fetched or fails.
- `FinishedFileKept`: what a comment says and the code does not do; see [below](#what-the-models-found).

### Runs

| Run | Instance | States | Shows |
|---|---|---|---|
| `downloads_shared` | 2 episodes of one release, 2 places, 3 ids, seeding comes and goes | 1,919,683 | type, `PlacesKept`, `ActiveIsManaged` |
| `downloads_apart` | 2 releases, one without its file, 1 place, leaks, 1 restart | 325,447 | `DoneIsOnDisk`, `TorrentsAreWanted`, `DownloadsSettle` |
| `downloads_finished_file` | 2 episodes of one release | violated | `FinishedFileKept` |

Bounds. Two episodes are a shared torrent in one run, competition for a place in the other. Two
places with two episodes is where both halves of a torrent run at once; one place is where
something must yield. A third row id lets a row be cancelled and asked for again while the
manager still holds the first. One second of "start now" (`MaxFront` 1) means that two asked in
one second tie, as they may in the code. One restart, in `downloads_apart`, suffices
as it resets all that is in memory; the proofs cover restarts with shared torrents. `downloads_apart` has one place so that its
liveness can be checked; the theorems cover two and any number.
Deadlock is checked in every run.

Fairness (`FairSpec`). The loop goes round (`Manage`), an add ends in 90 seconds at the latest (`Task`), a live torrent
is fetched in the end (`Fetch`: an assumption about the swarm), the watch acts on a failed check (`Halt`). `Recover` has none:
the VPN owes nothing, and a refused resume pauses its row, which the premise of `DownloadsSettle` names.

### Proofs

`DownloadsProofs.tla` proves, for any releases, any number of places and all bounds, that `IInv`
is an invariant (`Inductive`): `TypeOK`, `OnePlaceEach`, `WaitingOnce` (the queue held across the await
names an id once), `FewPlaces` (the ids with a place are at most `Concurrency`) and
`ManagedInv`. From it follow `DownloadsTyped`, `RowsHaveOnePlace`, `ConcurrencyIsCapped` and
`ActiveRowsAreManaged`.

- *Places.* Every step narrows the ids with a place, moves one from starting to running, or starts
  from a queue (`PlacesClassified`). A start is safe because the first *n* of a queue are at most *n*
  (`FirstAreFew`: ranks in the queue inject into *0..n-1*), each has no place yet, and the room was counted
  with those being added (`StartFits`). `PlacesKept` itself counts records; since ids are unique, the
  records are as many as the ids (`IdsCount`).
- *Active rows.* `ActiveIsManaged` is not inductive. `WalkInv` says where the manager's lists and
  entries stand to each other, `RetiredInv` that no active row was retired in this walk, and `YieldInv`
  that the one told to wait is held in `cur`. Commands activate no row (`ScreenActivatesNone`); only the
  walk and `take` do, for rows that have an entry.

Its second part builds on the first: with `IInv`, `DiskInv` is an invariant (`DiskInductive`), and from it follow
`DoneRowsAreOnDisk` and `NothingIsFetchedForNobody`. The argument is about who may touch a *plain* episode, one the two properties are about.

- `NamedInv`: whatever names an id, row, entry or task, means one episode by it, and all that names a plain episode names one id. It rests
  on fresh ids being above every one in use, and on `crossed`. So a plain episode has one entry at most, its torrent
  is never counted as shared (`KnownInv`), and only the entry of its own row can forget it.
- `ThereInv`: what is known is in the session. `SettledInv`: a done or failed row is not being added, and without seeding what still runs of a
  done one has let its torrent go.
- `WantedInv`: a plain torrent in the session has an entry that knows it and is not retired in this walk, or a task that has
  just added it: `TorrentsAreWanted` between rounds.
- `FilesInv`: what librqbit counts of a plain row's file is what is on disk, a torrent that is not there counts nothing, and a row
  that is done, or is at `finish` after the await on `forget`, has it whole.

TLC checked `IInv` and `DiskInv` before they were proved, on the instances of the runs and on others with one and two places. Only
model-checked: `DownloadsSettle`, liveness under fairness, which this prover does not reach.

## Tracker credentials

`TokenRenewal.tla` models the token pair of one tracker, as several processes (the app, the terminal) hold it over
one store of tokens. `MCTokenRenewal.tla` says which request is whose and how often what may happen.

### State and actions

| Variable | In the code |
|---|---|
| `store` | the pair the `TokenStore` has for the tracker |
| `pair`, `pending` | `Held::pair` and `Held::pending_save` of each process |
| `renewing` | the renewal under the write lock of `pair`, across its request |
| `call` | the requests under way in `Held::send`, each with the token it was sent with |
| `accepting`, `forgetting` | the tasks that bring a sign-in or a sign-out to the pair |
| `rotates`, `latest`, `due` | external: whether a renewal replaces the refresh token, the newest pair of each sign-in, what is close to its end |
| `lost`, `events` | history: the sign-ins whose newest pair nobody was left with; how often what went wrong |

A request is `Access` (`needs_refresh` sends it to a renewal first), `Answer` (a refusal renews, once) and
`Renew`: under the lock, the pair that moved on meanwhile is used, what the store holds is adopted, and
only what was refused or is close to its end is renewed. The request to the token endpoint is `Serve`,
which may be refused, lost, or served with its answer lost; `Save` holds the new pair whatever the
store says to it, and `Persist` is the next drain's `persist_renewed_tokens`. A pair is its sign-in and how many renewals made
it: that is all that a service, or a property, tells apart.

### Properties and run

- `NewestPairKept`: where the refresh token works once, the newest pair is in the store or with a
  process, unless it never arrived or went down with a process that had not stored it.
- `NeverBackwards`: as long as the store takes what it is given, no process adopts an older pair of
  the sign-in it holds.
- `ForgottenStays`: after a sign-out has reached a process, a renewal that was in flight does not put a pair back.
- `RenewalsSettle`: again and again, every pair held works, unless it was lost for everyone.

| Run | Instance | States | Shows |
|---|---|---|---|
| `token_settle` | 2 processes, one with 2 requests; 2 sign-ins, 2 renewals of each; 2 of: sign-in, sign-out, store that does not take or answer, lost answer, restart | 157,040 | type and all four |

Bounds. Two requests of one process meet at its lock, two processes meet at the store: larger numbers are
more of the same two meetings. Two renewals of a sign-in make a pair that is older than the newest but one.
What goes wrong happens twice in all and once of a kind, so that a fault meets another one.
`Pass` keeps a pair from coming close to its end while a request is under way: the margin is a day.

Fairness. A request is answered or times out (`Ask`, `Request`), drains come round on a timer (`Persist`), the lock is fair
(`Told`): weak fairness of each, for each process. The person owes nothing, nor does time. The run stops when nothing
is left to ask and both faults are spent, so deadlock is not checked.

### Proofs

`TokenRenewalProofs.tla`, from `ConstantsAssumption`: any processes, requests, sign-ins, renewals and faults.

- `TypeCorrect`. The types need that a renewal under way belongs to its process, whose request waits for it and which
  holds a pair; `Fits` adds that.
- `Forgotten`. With `Fits` it is a property of each step: a renewal holds the lock that `forget` waits for, and none starts on
  a process that holds nothing.
- `NotBack`. A pair that goes back needs a store behind the process that adopts it, so the argument is about where
  pairs come from. `Traced`: every copy anywhere is one the service gave out; a renewal is only asked of a pair that
  is close to its end or was refused; a sign-in still on its way to a process has not been renewed. `Ordered`, as long as renewals
  rotate and the store takes what it is given: no pair waits to be stored, the store is never
  older than a process's pair of the same sign-in (`Behind`), and a pair just given out by a renewal is the newest and
  with nobody else (`Sole`).
- `NewestStays`: `NewestPairKept` in every state reached with one failed write of the store at most (`Spared`), and
  `NewestStaysOnce`, that this is the property itself where the bound lets one fail, as the run does. The premise is
  needed: TLC finds eight steps that lose the pair with two failures, a renewal that is not saved, then a sign-out whose removal from the
  store fails as well, while the process drops the pair it still had to save. `Treasured` follows the pairs that only
  a process carries: each is the newest of its sign-in, not due, and with nobody else (`Carried`); none is renewed while it waits to be
  saved (`Distinct`); none waits before a write failed (`Unpended`); a sign-out yet to reach a process takes no pair the store still
  stands for (`Leaving`); and the newest pair is in the store or carried (`Somewhere`).

Only model-checked: `RenewalsSettle` (liveness).

## Hosted store

A hosted store of plugins is a database that takes single statements and atomic batches, a place for files, and
requests that interleave wherever they wait for either. What it promises is `StoreList.tla`: a numbered
list, whose number moves with each change and in which a version that is offered keeps its bytes.
Two modules model it, one for each half of its tables, as no request touches both.

### StorePlugins: uploads, publishing, unpublishing

| Variable | In the code |
|---|---|
| `sequence`, `plugins` | `meta.sequence` and the `plugins` table |
| `blobs` | the files, each named by id, version and digest (`blob_key`) |
| `uploads`, `parts`, `sending`, `sent` | the uploads, the files of their parts, the parts being written, those the owner has an answer for |
| `job` | where each request is, and the row it read first |

`finish_upload` is `Finish`, `Assemble`, `ReadPrevious`, `PutBlob`, `WriteRow` (the batch: an upsert that
applies to another version only, and the number), then `DropPrevious` or, for the one that lost the race,
`UndoBlob`, and `Clear`. `unpublish` is `ReadOffered`, `RemoveRow`, `DropPrevious`. `End` ends a request
anywhere. Uploads expire; a part may still be written then.

- `KeepsTheList` is `Listed!Spec`, `StoreList` with the rows for its list: the refinement.
- `OfferedHasBytes`: what the list offers has its file, whatever crosses and wherever a request ends.

### StoreMembers: invites, the open link, members, devices

| Variable | In the code |
|---|---|
| `members` | by id, what each is: member, owner, anonymous (came in by the open link), removed |
| `devices`, `invites` | their tables |
| `open`, `codes` | the open link in force, and how many there have been |
| `requests` | for each request: where it is, who asks and what they were when it was read |

A request is let in by `Authenticate` and acts later, on what was true then. `redeem` is `Claim` (one
statement, which checks who made the invite) and then `Enter`, or `FindMember` and `AddDevice`; `join_open` is
`CheckOpen` and `JoinOpen`, whose batch looks at the code again. `fresh_owner_invite` is three statements. `Cut` ends a request anywhere.

- `OneEntry`: an invite lets one device in, however many redeem it at once.
- `NoEntryAfterRemoval`: an unused invite of someone removed is never used, the one being made meanwhile included.
- `OldLinkStaysDead`: nobody joins with a code that is no longer the store's, whatever they checked.
- `AnonymousHasDevice`: a member with no name has a device that works, or nobody could ever reach them.

### Runs

| Run | Instance | States | Shows |
|---|---|---|---|
| `plugin_lists` | 3 uploads: 2 builds of one version, another version; an unpublish; 1 failure | 1,295,429 | type, `OfferedHasBytes`, `KeepsTheList` |
| `members_access` | 2 requests at once; 3 members, 3 devices, 3 invites, 2 links ever | 2,886,555 | type and all four |

Bounds. Three finishes are a race for one version with a third beside it that replaces what won. One
failure anywhere is one request cut off at each of its steps, beside others that go on. Two requests in
`members_access` are any two of what may be asked, each again and again; a third could only cross them where one of the two is done. Three members are one who
removes, one removed, one invited. The two requests are alike, which the run uses as a symmetry.
The runs stop when everything was asked that may be, so deadlock is not checked; nothing is promised to happen, so there is no fairness.

### Proofs

`StorePluginsProofs.tla`, for any plugins, uploads and requests:

- `TypeCorrect`, and `ListKept`: the refinement. Initial states map to initial states, and each step changes the
  list as promised or leaves it alone: `WriteRow` and `RemoveRow` always move the number, and a row is only
  replaced by another version, or taken away.
- `OfferedCanBeDownloaded`, under an assumption: no two finishes publish the same bytes (`PublishedOnce`). Without it it is
  false ([remarks](#remarks)). The invariant `FileInv`: who is about to write a row has put its file; who is
  about to delete a file holds one that is not offered; and, so that it stays that way, whatever was ever offered or read has been written by
  a request that is past writing it (`Written`), so nobody is going to offer it again.

`StoreMembersProofs.tla`, for any requests and bounds:

- `TypeCorrect`: `TypeOK` with `Refers` (a request names what is there) is inductive.
- `InviteAdmitsOne`. `OneEntry` is not inductive: what a request holds between `Claim` and the entry counts as well. `Spent` says
  that an invite which let someone in, or which a request holds, is used, and is one of the two and once.
  Steps are split into those that spend nothing (`QuietSteps`), `Claim`, and the two entries.
- `RemovedInviteNobody`: only `Claim` makes an invite used, and it looks at who made it.
- `LinksEnd`: only `JoinOpen` adds an anonymous member, and it looks at the code.
- `AnonymousKeepAWayIn`: whatever revokes a device of an anonymous member who stays leaves another one live.

TLC checked both invariants on the instances of the runs before they were proved.

## Plugin store client

`StoreClient.tla` is one machine and one store: the commands of `plugin_stores/mod.rs`, each a task of its
own, over the state file, the token, the plugin directory and the store. The store is an `INSTANCE` of
`StoreList`, whose lists stay signed: it may answer with one it signed before. `MCStoreClient.tla` says which commands cross.

| Variable | In the code |
|---|---|
| `signed`, `live` | the store: its lists so far (`StoreList`), the tokens it takes, each known by the task that joined with it |
| `joined`, `remembered`, `installed` | the state file: `stores`, `sequences`, `installed` (`local.rs`) |
| `kept` | the token in the `TokenStore` |
| `target`, `partial`, `content` | the plugin's file and its `.part`, as directory entries of files with a content |
| `does`, `task` | the commands, and what each read before it waited |
| `agreed` | history: the versions a person asked for |

`refresh` is `Refresh`, `Fetch`, `Accept` or `MarkRevoked`; `install` goes on from `Accept` to `Decide`, `Download`, `OpenPartial`,
`WritePartial`, `Rename`, `RecordInstall`. `join` and `leave` are a step for each write and each request.
Files are kept apart from their names: a rename moves a file that another task may have open.
`Stop` ends the app and all its tasks; `Offline`, `Unsaved` and `Evict` are a request, a write and a token that fail.

- `SeenNeverFalls`: the highest number seen of a store never falls, left, joined again, refreshed by tasks that cross or cut off.
- `AgreedOnly`: the plugin's file is one of a version that a person asked for, though the store may change between the tap and the download.
- `FileIsWhole`: the plugin's file is whole whenever the app might load it.

| Run | Instance | States | Shows |
|---|---|---|---|
| `client_commands` | 3 commands at once, of 4 trios; 2 changes of the list; 1 thing going wrong | 507,687 | type and all three |

Bounds. The trios are those whose writes meet: refresh, leave, join (the record); refresh, install, remove
(the file); install, leave, join (the token under an install); two refreshes and a join (the
number). Two changes give three lists, so one may be older than two others. `FileIsWhole` is of one
install at a time: with two it fails ([remarks](#remarks)). The run stops when the commands
are done, so deadlock is not checked.

### Proofs

`StoreClientProofs.tla`, for any commands that cross, any number of lists and of things that go wrong:

- `TypeCorrect`. The types need that a task holds only what it has found (`Sound`): a number of a list the store has signed, and from
  the download on an entry of one. Most steps move one task to a stage that asks for neither (`Plain`).
- `SeenStands`. The number is in two places, the record and what is remembered past it. Each of the four writers (`Accept`, `MarkRevoked`,
  `Upsert`, `RemoveStore`) leaves both, raises them, or puts into one the higher of the two (`SeenStays`).
- `OnlyAgreed`. `AgreedOnly` is not inductive. `Intended` adds that the entry every task holds is of a version asked for, that an install
  still choosing holds one, and that this goes for every file, the `.part` included, whoever created it.
- `WholeFile`, assuming one install at a time (`OneInstall`: of the commands that may cross, at most one is an install).
  `Owned` says which file each name leads to and where its writer is: at the `.part` path there
  is the file of an install that is writing it or ended there; the plugin's own is that of one past its rename.

## Watch party

`PartyRoom.tla` is a room: its members' clients (`client.rs`, `sync.rs`), their players, and the server.
The server is external to the program; it is modelled from the one kept in `fake.rs`, which the tests run against.

| Variable | In the code |
|---|---|
| `paused`, `report` | external: what each player does, and the report of it that is on its way |
| `client` | `Membership` and its `Sync`: the connection, who else has a file, what the player is taken to do and told to do, the change on its way and the one held |
| `up`, `down` | the lines of the connections |
| `room`, `file`, `deaf`, `ack` | the server: the room's pause, who watches, `server_ignoring` and `client_ack` of each member |
| `changed`, `events` | whether a user acted yet; bounds |

Each side that makes a change ignores the other until it is acknowledged. `Hear` is `on_line` for one line
(`OnState`: overtaken changes, the member's own change let go, the room followed, the answer), `TakeReport` is
`Input::Sample`, `Expire` the end of an expectation, `Serve` the server's `message`, `Tick` its timer. `Drop` and `Connect` are
a connection lost with all on it, and made again.

Pausing and resuming are modelled. Positions, seeking, slowing down, readiness, autoplay, chat and latency are not: they
send other fields over the same two handshakes. A player does as it is told at once, and what it said before may be heard after.

- `NobodyDeafForGood`: who ignores the other side has an acknowledgement coming, though answers cross, changes are overtaken and connections are lost.
- `OrdersAreNotEchoed`: while no user acts, no member says it changed its mind, whatever stale reports are heard after an order.
- `Converges`: once users rest and connections hold, every player does what the room does.

| Run | Instance | States | Shows |
|---|---|---|---|
| `party_watch` | 2 members; 2 of: a user pausing or resuming, a connection missing | 83,454 | type, `NobodyDeafForGood`, `OrdersAreNotEchoed`, `Converges` |

Bounds. Two members are a room with somebody else in it, and a change of one is forced on the other. Two
events are two changes that cross, of two members or of one, or a change with a connection lost or made
beside it. `MaxFlight` keeps the server from adding ticks to what is on its way; acknowledgements and forced changes are not bounded by it.
With all events spent and no tick to add nothing may be left to do, so deadlock is not checked.

Fairness. Lines are read, answered and ticked (`Hear`, `Serve`, `Tick`), a player reports and is heard (`Report`, `TakeReport`), an
expectation runs out (`Expire`), a lost connection is made again (`Connect`): weak fairness of each, for each
member.

### Proofs

`PartyRoomProofs.tla` proves the three safety properties, and the safety half of `Converges`, for any finite set of members, any number of events
(`MaxEvents`) and any ticks (`MaxFlight`), from `PartyAssumption`.

- `TypeCorrect`. `TypeOK` is not inductive: what `on_line` and `message` take off a line must be of the kind
  they expect, and a message to somebody who left must not be waiting for their next connection. `IInv` adds what fits on
  each line (`Wires`) and that a line that is down is empty (`Connected`).
- `NobodyDeaf`. With `IInv` the property is inductive as it stands. An acknowledgement is in one of four places
  (to be said by the server, on the way up, on the way down, or overtaken by a forced change), and each action moves it from one to
  the next or leaves the lines it is on as long as they were: `GrowKeeps` says the latter once, `Carries` that a change sent is on
  the line, `ForceDeaf` that a forced state answers whoever waited.
- `NotEchoed`. The property speaks of lines, the argument of players. `Calm` says that until a user acts every
  player is `Obedient`: its client takes it to do what it does or is told nothing yet, expects nothing but that, and a
  report that differs is on its way only while something is expected. `SampleObeys`, `RoomObeys` and
  `TogetherObeys` show that each rule of `Sync` keeps this and asks for no change but the one that makes a room a player's.
- `QuietMembersAgree`. A member that has met the room, with nothing on its lines, no acknowledgement owed and its
  player as its client takes it to be, does what the room does (`SettledAgree`). The invariant is `AllReach`: whoever differs
  from the room has a forced state coming, or a change going up that the server will take, or one held back that
  will be sent; so nothing is left over that nobody will repair. It rests on `NobodyDeaf`, as a change is taken once the server listens
  again. TLC checked both on the instance of the run and with three events (923,582 states) before the proof.

The lemmas about lines (`StatesAppend`, `StatesConcat`, `StatesHeadTail`) turn sequences into the sets of states the
properties are about. That the room comes to such a state and stays (`Converges`) is liveness and stays with TLC.

## Playback

`Playback.tla` is what playbacks do to each other: the engine starts them, each is a task, and the window goes from one to the
next through the slot. `MCPlayback.tla` adds nothing but TLC.

| Variable | In the code |
|---|---|
| `last`, `stopped` | `EngineState::playbacks` (whose controls the engine holds); the watches that say Stop (`finding`) |
| `stage`, `inbox` | how far each playback's task is (`start.rs`, `session`), and its control channel |
| `holds`, `slot` | the window a playback plays in; the one parked in `PlayerSlot` |
| `open`, `told` | the players there are, and those told to quit |
| `said` | the events on their way to the engine: `PlaybackKept`, `EpisodeLeft`, `PlaybackEnded` |
| `front`, `over` | `Staging` (`autonext.rs`) |
| `acts` | a bound |
| `gaveWay`, `unwaited`, `turnedDown` | history: who gave way without a word; whether somebody did not wait for the one before; the newest playback when Stop was asked |

Playback *p* takes its controls when it starts, and *p - 1* is the one whose window it asks for. `Play` and
`PlayLocal` start one; `StopFound`, `GiveWay`, `Found`, `Keep`, `Fail` end its search; `Hand` and `Handed` ask for the window (`Handoff::complete`);
`Relay` passes controls on; `TakeWindow` and `OpenWindow` begin to play; `ReadStop`, `ReadHandover` and `Leave`, `EndRolling`,
`End` and `SayEnding` are the session. `Observe` is `Engine::follow`, which may start the next episode. A step runs from one await
to the next. `Handed` may come before the one before is over: `HANDOVER_WAIT`. A stream that fails over does so in its window, so streams are left out;
so are the controls other than Stop and Handover, which go the same way.

- `OneWindow`: a binge is one window. There are never two that nobody has told to close, unless a playback did not wait for the one before it.
- `ShowsWhatPlays`: when nothing is under way, Now Playing is for what plays, or for nothing, unless it went back to a playback that had given way.
- `StopEndsIt`: a viewer who asks to stop is left with no window, however far each playback is, unless one starts since.
- `KeptIsShown`: what a comment says and the code does not do; see [below](#what-the-models-found).

| Run | Instance | States | Shows |
|---|---|---|---|
| `playback_window` | 3 playbacks; 2 of: a Stop, a window closed, a downloaded episode | 433,188 | type, `OneWindow`, `ShowsWhatPlays`, `StopEndsIt` |
| `playback_kept` | the same | violated | `KeptIsShown` |

Bounds. Three playbacks are one that plays, one asked past and one that follows, which is what a playback meets: it speaks to the one before
it and is asked past by the one after. Roll-ons count as playbacks. Two acts are two of a kind or one of each. At the bound
nothing may be left to do, so deadlock is not checked.

Fairness (`FairSpec`). Each task goes on (`Task`: lookups and handovers have time limits), a player told to quit does
(`WindowQuits`), the parked window expires (`Expire`), events are read (`Observe`): weak fairness of each. An episode may be paused for
ever, and the viewer owes nothing.

### Proofs

`PlaybackProofs.tla`, for any number of playbacks and acts:

- `TypeCorrect`: `TypeOK` is inductive.
- `BingeIsOneWindow`. `OneWindow` is not inductive. `IInv` adds, while everybody waited: who has come to
  opening a player has nobody but finished ones before it (`Chain`), so at most one task touches the window at a
  time; who holds a window leaves the slot empty (`Holders`); and a window nobody has told to close is in the slot or held (`Kept`). That
  playbacks are numbered as they start (`Numbered`) is what gives a new one no window.
- `NowPlayingIsWhatPlays`: `ShowsWhatPlays`. The engine hears of playbacks in an order of its own, so the invariant
  (`Watched`, with `IInv`) is about what each still has to say. A playback says its word once, and it is true of how far it is
  (`Speaks`); no two are staged over the same one nor any over one whose word was read, and those not settled are each over the one
  before (`Staged`, `Shelved`); a window is of a playback that came to opening it (`Framed`); and one past asking for the
  window has had the one before told, the control being on its way or read (`Pressed`). The exception in the property is the second
  finding below.
- `StopIsNotLost`: a viewer who asked to stop and started nothing since is left with no window and nothing that plays, as
  soon as nothing is under way (`StoppedIsOver`). `Stopping` says whom the Stop has reached: the newest
  playback, or one its controls are passed on to; `Homed` that a window not told to close is parked or held by one that plays or leaves. TLC checked the
  property on the states of `playback_window` first.

That it comes to rest (`StopEndsIt`) is liveness and stays with TLC.

## Running the checks

    tlc -config TrackerSync_overlap.cfg    MCTrackerSync
    tlc -config Downloads_shared.cfg       MCDownloads
    tlc -config TokenRenewal_settle.cfg    MCTokenRenewal
    tlc -config StorePlugins_lists.cfg     MCStorePlugins
    tlc -config StoreMembers_access.cfg    MCStoreMembers
    tlc -config StoreClient_commands.cfg   MCStoreClient
    tlc -config PartyRoom_watch.cfg        MCPartyRoom
    tlc -config Playback_window.cfg        MCPlayback
    tlapm TrackerSyncProofs.tla
    tlapm DownloadsProofs.tla
    tlapm StorePluginsProofs.tla
    tlapm StoreMembersProofs.tla
    tlapm StoreClientProofs.tla
    tlapm PartyRoomProofs.tla
    tlapm TokenRenewalProofs.tla
    tlapm PlaybackProofs.tla

Each run of `PROJECT.json` names its module and configuration. With two workers, `downloads_shared` and `playback_window` take about two minutes
each, the others about one or less. A definition
marked *Mutation* in a module is a plausible bug, in the place of the definition named in
`PROJECT.json`; it is there to show that the property can fail, and nothing else uses it. There is one for every
property of every run that passes.

## What the models found

Each is a run that TLC ends with a counterexample; `PROJECT.json` quotes the lines they contradict.

1. `downloads_finished_file`. Cancelling is said never to reach a finished download. Through a shared torrent it does.
2. `playback_kept`. Now Playing is said to go back to the episode that keeps playing. With episode 1 playing, 2 asked for, and 3
   asked for before 2 is found, 2 gives way without a word and stays behind 3; when 3 finds nothing, Now Playing goes back to 2, which never
   plays. Episode 1 then ends without rolling on, its window waits for nobody until it expires, and sub or dub picked
   in the player restarts the wrong episode. When 2 is asked past while it waits for the
   window, and 3 finds nothing meanwhile, 2 is shown though nothing plays.

### Remarks

What else was seen while modelling, without a run of its own. Each follows from the actions of the module named.

- *Tracker sync.* A failed status edit backs off, is overtaken by a newer one and sent over it (`merge.rs:12`: last write
  wins). Two drains hold an older and a newer value of one row; the older request lands last and no pull repairs
  it (`sync.rs:116-118`). A title watched signed out and not on the list is queued by no pull
  (`tracking/commands.rs:142-143`). A push answered after a sign-in to another account writes the first one's memory (`sync.rs:76-77`).
- *Downloads.* A torrent whose add was under way is added after a halt, and runs (`session.rs:1048-1050`). A download being
  added reads as waiting, so a running one yields to it although it has its place (`downloads/mod.rs:375-376`). A pause asked during
  the await on `forget` is undone by a queue read before it (`downloads/mod.rs:355`). An episode cancelled and asked for again
  while its torrent is being added has two entries of one torrent. Cancelled both before one walk, each sees the other as sharing, and the
  torrent stays for good (`mod.rs:113-116`); one alone still being added may be dropped after the new row is done, with its file. A paused row
  whose file `cancel` removes, asked for again before the next walk, ends done with no file. `download_delete` leaves a torrent that
  seeds in the session: asked for again, its episode is done at once with no file (`commands.rs:182-205`).
- *Credentials.* A renewal in one process that began before the other signed out writes the pair back to the store (`held.rs:200-217`).
  A pair the store refuses twice is in memory only (`tracking/mod.rs:579`, against 576-577). `accept` leaves an
  older `pending_save` to the next drain, which stores it over the new sign-in.
- *Hosted store.* Two finishes of the same bytes, as a retried upload that overlaps its first try, write one key, and the one
  that loses the race deletes it: the store offers a plugin nobody can download, and publishing it again does not put it back
  (`store.rs:1229`, against 1202-1203). A part let in before its upload was cleared is written after, and stays. A request that loses a race, or an
  unpublish that no longer applies, still moves the number. Unpublishing and publishing again may give one version other bytes. Two owners who
  remove each other leave the store without one (`store.rs:844-845`), until its next start. A session of an owner who was demoted
  works again once they are promoted. Two `fresh_owner_invite` at once leave two links. A request cut off between claiming and
  entering has spent its invite.
- *Plugin store client.* Two installs of one plugin share its `.part` file. A leave across a join, or an end between
  the two writes of a leave, keeps a record without a token (`plugin_stores/mod.rs:376-377`). A refresh refused with an
  old token marks the store that was joined again as revoked. Two joins leave a token alive at the store. A removal beside an
  install may leave the file without its record. Two refreshes that cross may show the older list (`client.rs:223-225`); its number is kept.
- *Playback.* A Stop read just as the file ends does not keep the next episode from starting (`session/mod.rs:542`). When a
  playback does not wait for the one before it (a handover not answered in 10 seconds, a downloaded episode), a second
  window opens, and the first stays parked until the next playback, or for two minutes (`handoff.rs:23-24` accepts it).
- *Watch party.* A member whose first state of the room comes before its list answers with what its own player does, and the server
  takes the answer for a change: the room goes where the newcomer's player is (`client.rs:649`, against 328-329). A user who pauses and resumes quickly: the change held back is dropped by the echo of the first one,
  and the player goes back to pause.

## Not modelled

Most of the repository by lines is front ends, translations, wire formats and parsing, which have no
state that interleaves: what is modelled here is a small share of the lines and most of what has to agree across awaits, tasks, processes
and services. Of that, left out:

- *Liveness of more titles than one per tracker*, and anything that depends on real time (how long a hold or a backoff takes).
- *Keep next* (`downloads/ahead.rs`): it queues and expires rows beside the user. The move into
  `downloads.directory`, the subtitle merge, the completion hook, the cache sweep, a start task that panics.
- *The streaming side of the torrent session*: stream servers, retirement, the seeding pool, holds by app phase; `on_leak` *stop* and *warn*.
- *Sign-in conversations*, pairs without a refresh token, where a secret is kept and its cache.
- *The hosted store's admin page* (links and sessions), rate limits, expiry of invites, renaming, manifests and signatures; several
  stores on one machine, previews, publishing from a machine.
- *The rest of a watch party*: positions, readiness, autoplay, chat, latency, the silence timeout and the retry limit, attaching and
  detaching, coming back under another name.
- *The rest of playback*: streams and failover, which stay in the window; prefetch; tracks and pictures; a window of another place
  (a TV), which `slot.take` closes; a playback in a party, which does not roll on; the other controls, which are passed on the same way.
- *Casting, remote control*: listed in `PROJECT.json` with why not.
- *Scraping, parsing, rendering, generated code*: no state to interleave.

## Plan

Done: `TrackerSync`, `Downloads`, `TokenRenewal`, `StorePlugins`, `StoreMembers`, `StoreClient`, `PartyRoom`, `Playback`, with
their proofs; `StoreList`, with its refinement. Left, in order:

1. Prefetch and casts in `Playback`, where the slot's window may be of another place.
2. Positions in `PartyRoom`: seeking and slowing down, echoes of one's own seeks.
3. Keep next as an extension of `Downloads`, with `expire` and the rows the viewer takes over.
4. Abstract specifications of the older modules: a bounded pool (waiting, placed, settled), which `Downloads` implements
   under a mapping of its lists; a replicated list (told, remembered) for `TrackerSync`.
5. The store's admin links and sessions, beside `StoreMembers`.
