----------------------------- MODULE TrackerSync -----------------------------
(***************************************************************************)
(* The tracker sync of anistream: the local watch history, the durable     *)
(* outbox (crates/anistream-store/src/outbox.rs), the drain and the pull   *)
(* (crates/anistream-track/src/sync.rs, merge.rs) and the tasks that run   *)
(* them (crates/anistream-engine/src/tracking).                            *)
(*                                                                         *)
(* Local SQLite is the source of truth.  Watching an episode writes the    *)
(* history and enqueues the progress reached; a drain claims the rows that *)
(* are due, WITHOUT a lease, sends them and only then deletes them; a pull *)
(* fetches the remote list and merges it.  Drains are started by a timer,  *)
(* by every finished episode and by "sync now", so several can be in       *)
(* flight for one tracker: Tasks is the set of slots they run in.          *)
(*                                                                         *)
(* Time is abstracted to what the queries ask of it: a row is due, backing *)
(* off, or deferred until the id mappings change; a hold is on or off.     *)
(***************************************************************************)
EXTENDS Integers, FiniteSets

CONSTANTS
    Trackers,     \* the tracker services in Sync.trackers
    Titles,       \* the titles watched
    Accounts,     \* the accounts a tracker can be signed in to
    Tasks,        \* the slots drains run in: how many overlap
    NoAccount,    \* signed out
    NoPlay,       \* nothing is playing
    Catalogues,   \* the sets of titles a service may turn out to match
    MaxEpisode,   \* bound: the last regular episode of a title
    MaxEdits,     \* bound: how many status edits the user makes
    MaxId,        \* bound: row ids alive at once in one tracker's queue
    MaxAttempts,  \* MAX_ATTEMPTS
    Batch,        \* DRAIN_BATCH
    CanUnmark,    \* whether the user takes back watched episodes
    Elsewhere     \* the progress the user may set on the service itself

ASSUME ConstantsAssumption ==
    /\ MaxEpisode \in Nat /\ MaxEdits \in Nat /\ MaxId \in Nat
    /\ MaxAttempts \in Nat \ {0}
    /\ Batch \in Nat \ {0}
    /\ CanUnmark \in BOOLEAN
    /\ Elsewhere \subseteq 0..MaxEpisode
    /\ NoAccount \notin Accounts
    /\ Catalogues \subseteq SUBSET Titles
    /\ NoPlay \notin [title : Titles, trackers : SUBSET Trackers]

VARIABLES
    watched,   \* [Titles -> SUBSET Episodes]: episodes with a completed event
    playing,   \* the playback under way and the trackers it captured
    outbox,    \* [Trackers -> SUBSET Row]: sync_outbox
    pushed,    \* [Trackers -> [Titles -> Nat]]: pushed_progress, 0 when absent
    hold,      \* [Trackers -> BOOLEAN]: reauth_hold
    account,   \* [Trackers -> Accounts or NoAccount]: the credential held
    mapped,    \* [Trackers -> SUBSET Titles]: what can_address answers
    task,      \* [Trackers -> [Tasks -> Push]]: the drains in flight
    pull,      \* [Trackers -> Pull]: the library fetched and not yet merged
    edits,     \* how many status edits the user has made
    catalogue, \* [Trackers -> SUBSET Titles]: what the service itself matches
    remote,    \* [Trackers -> [Accounts -> [Titles -> Entry]]]: the services
    heard      \* history: what each tracker was told, by any account

local   == <<watched, playing, edits>>
queue   == <<outbox, pushed, hold>>
session == <<account, mapped>>
world   == <<catalogue, remote, heard>>
vars    == <<local, queue, session, task, pull, world>>

-----------------------------------------------------------------------------
(* Data. *)

Episodes == 1..MaxEpisode
RowIds   == 1..MaxId

(* A listed entry has a progress; a title not on the list has Unlisted. *)
Unlisted == -1
Figures  == {Unlisted} \cup 0..MaxEpisode
Entry    == [progress : Figures, status : Nat]

(* A queued TrackOp: SetProgress carries an episode, SetStatus (and SetScore,
   which is queued and sent the same way) carries which edit it is. *)
Row == [id       : RowIds,
        title    : Titles,
        op       : {"progress", "status"},
        value    : Nat,
        attempts : 0..(MaxAttempts - 1),
        wait     : {"due", "backoff", "deferred"}]

(* A push in flight: the rows claimed, the titles whose request has not gone out,
   and the account whose token it read when it began. *)
Push == [batch : SUBSET Row, unsent : SUBSET Titles, cred : Accounts \cup {NoAccount}]
Idle == [batch |-> {}, unsent |-> {}, cred |-> NoAccount]

(* A fetched library: the entries still to merge and the progress each carried. *)
Pull   == [todo : SUBSET Titles, seen : [Titles -> Figures]]
NoPull == [todo |-> {}, seen |-> [x \in Titles |-> Unlisted]]

Larger(m, n) == IF m >= n THEN m ELSE n

(* tracker_progress: the highest regular episode completed, 0 when there is none. It
   is how many numbers some watched episode reaches. *)
Reached(eps) == Cardinality({n \in Episodes : \E e \in eps : n <= e})

ProgressRows(rows, x) == {r \in rows : r.op = "progress" /\ r.title = x}
StatusRows(rows, x)   == {r \in rows : r.op = "status" /\ r.title = x}
IdsOf(rows)           == {r.id : r \in rows}
TitlesOf(rows)        == {r.title : r \in rows}

(* pending_progress: the highest episode queued for a title, 0 for none. *)
Pending(rows, x) == Reached({r.value : r \in ProgressRows(rows, x)})

(* AUTOINCREMENT never hands out an id again: a new one is past every id still in the
   table or in the hands of a drain, the only ones it is ever compared with. *)
LiveIds(t)    == IdsOf(outbox[t]) \cup UNION {IdsOf(task[t][k].batch) : k \in Tasks}
IsNewId(t, i) == /\ \A j \in LiveIds(t) : j < i
                 /\ i = 1 \/ i - 1 \in LiveIds(t)
NewIds        == {ids \in [Trackers -> RowIds] : \A t \in Trackers : IsNewId(t, ids[t])}

SignedIn == {t \in Trackers : account[t] # NoAccount}

-----------------------------------------------------------------------------
(* The outbox. *)

NewRow(i, x, op, v) ==
    [id |-> i, title |-> x, op |-> op, value |-> v, attempts |-> 0, wait |-> "due"]

(* Mutations: a row for every call; the latest value replaces the queued one. *)
EnqueueUncoalesced(rows, i, x, v) == rows \cup {NewRow(i, x, "progress", v)}
EnqueueLatest(rows, i, x, v) ==
    IF ProgressRows(rows, x) = {}
    THEN rows \cup {NewRow(i, x, "progress", v)}
    ELSE {IF r \in ProgressRows(rows, x) THEN [r EXCEPT !.value = v] ELSE r : r \in rows}

(* enqueue of SetProgress: one row per title, moved forward in place and never back;
   its attempts and its wait stay as they are. *)
EnqueueProgress(rows, i, x, v) ==
    IF ProgressRows(rows, x) = {}
    THEN rows \cup {NewRow(i, x, "progress", v)}
    ELSE {IF r \in ProgressRows(rows, x) /\ r.value < v THEN [r EXCEPT !.value = v] ELSE r
             : r \in rows}

(* enqueue of any other op: always a row of its own. *)
EnqueueStatus(rows, i, x, v) == rows \cup {NewRow(i, x, "status", v)}

(* claim_ready: the oldest rows due, at most a batch of them. *)
Due(rows)     == {r \in rows : r.wait = "due"}
Claimed(rows) ==
    {r \in Due(rows) : Cardinality({q \in Due(rows) : q.id < r.id}) < Batch}

(* defer: out of every batch until the mappings change. *)
Held(r) == [r EXCEPT !.wait = "deferred"]
Deferred(rows, held) == {IF r \in held THEN Held(r) ELSE r : r \in rows}

(* wake_deferred. *)
Woken(rows) == {IF r.wait = "deferred" THEN [r EXCEPT !.wait = "due"] ELSE r : r \in rows}

(* complete, for every row of a batch: deletes by id. *)
Completed(rows, batch) == {r \in rows : r.id \notin IdsOf(batch)}

(* Mutation: given up one failure late. *)
GivenUpLate(rows, batch) ==
    {r \in rows : r.id \in IdsOf(batch) /\ r.attempts + 1 > MaxAttempts}

(* fail, for every row of a batch: one more attempt and a backoff, or given up. *)
GivenUp(rows, batch) ==
    {r \in rows : r.id \in IdsOf(batch) /\ r.attempts + 1 >= MaxAttempts}
Retried(r) == [r EXCEPT !.attempts = @ + 1, !.wait = "backoff"]
FailedRows(rows, batch) ==
    {IF r.id \in IdsOf(batch) THEN Retried(r) ELSE r : r \in rows \ GivenUp(rows, batch)}

(* remember_pushed for every progress op of a batch, keeping the highest. *)
Remembered(memory, batch) ==
    [x \in Titles |-> Larger(memory[x], Pending(batch, x))]

(* forget_pushed. *)
Forgotten == [x \in Titles |-> 0]

-----------------------------------------------------------------------------
(* What the user does. *)

(* The queue each tracker of ts has once a title's progress is enqueued for it. *)
QueueProgressFor(ts, x, eps) ==
    \E ids \in NewIds :
        outbox' = [t \in Trackers |->
                     IF t \in ts /\ Reached(eps) > 0
                     THEN EnqueueProgress(outbox[t], ids[t], x, Reached(eps))
                     ELSE outbox[t]]

(* A playback starts, and captures the trackers signed in at that moment. *)
StartPlayback(x) ==
    /\ playing = NoPlay
    /\ playing' = [title |-> x, trackers |-> SignedIn]
    /\ UNCHANGED <<watched, edits, queue, session, task, pull, world>>

(* The episode crosses the commit threshold: the history row is written, then the
   progress reached is queued for the trackers captured at the start. *)
CommitEpisode(e) ==
    /\ playing # NoPlay
    /\ LET x == playing.title  eps == watched[playing.title] \cup {e}
       IN /\ watched' = [watched EXCEPT ![x] = eps]
          /\ QueueProgressFor(playing.trackers, x, eps)
    /\ playing' = NoPlay
    /\ UNCHANGED <<edits, pushed, hold, session, task, pull, world>>

(* The playback ends without committing. *)
AbandonPlayback ==
    /\ playing # NoPlay
    /\ playing' = NoPlay
    /\ UNCHANGED <<watched, edits, queue, session, task, pull, world>>

(* An episode is marked watched: recorded, then queued for the signed-in trackers. *)
MarkWatched(x, e) ==
    LET eps == watched[x] \cup {e}
    IN /\ watched' = [watched EXCEPT ![x] = eps]
       /\ QueueProgressFor(SignedIn, x, eps)
       /\ UNCHANGED <<playing, edits, pushed, hold, session, task, pull, world>>

(* A mark is taken back: local history forgets, no tracker is told. *)
Unmark(x, e) ==
    /\ CanUnmark
    /\ e \in watched[x]
    /\ watched' = [watched EXCEPT ![x] = @ \ {e}]
    /\ UNCHANGED <<playing, edits, queue, session, task, pull, world>>

(* A status (or score) is set: a row of its own for every signed-in tracker. *)
SetStatus(x) ==
    /\ edits < MaxEdits
    /\ edits' = edits + 1
    /\ \E ids \in NewIds :
          outbox' = [t \in Trackers |->
                       IF t \in SignedIn
                       THEN EnqueueStatus(outbox[t], ids[t], x, edits + 1) ELSE outbox[t]]
    /\ UNCHANGED <<watched, playing, pushed, hold, session, task, pull, world>>

(* activate: the live tracker takes the credential, the hold is lifted and what was
   sent to the last account is forgotten.  The pull it starts is FetchLibrary. *)
SignIn(t, a) ==
    /\ account' = [account EXCEPT ![t] = a]
    /\ hold' = [hold EXCEPT ![t] = FALSE]
    /\ pushed' = [pushed EXCEPT ![t] = Forgotten]
    /\ UNCHANGED <<local, outbox, mapped, task, pull, world>>

(* disconnect: the credential and the memory of what was sent go; the queue stays. *)
SignOut(t) ==
    /\ account[t] # NoAccount
    /\ account' = [account EXCEPT ![t] = NoAccount]
    /\ pushed' = [pushed EXCEPT ![t] = Forgotten]
    /\ UNCHANGED <<local, outbox, hold, mapped, task, pull, world>>

-----------------------------------------------------------------------------
(* The drain. *)

(* Mutation: a title with no id goes out with the rest. *)
StartDrainUnpartitioned(t, k) ==
    LET claimed == Claimed(outbox[t])
    IN /\ task[t][k] = Idle
       /\ account[t] # NoAccount
       /\ ~hold[t]
       /\ claimed # {}
       /\ task' = [task EXCEPT ![t][k] = [batch  |-> claimed,
                                        unsent |-> TitlesOf(claimed),
                                        cred   |-> account[t]]]
       /\ UNCHANGED <<local, queue, session, pull, world>>

(* Claim what is due, hold back what the tracker cannot address, and begin to push
   the rest.  Nothing is written on the rows that go out. *)
StartDrain(t, k) ==
    LET claimed  == Claimed(outbox[t])
        sendable == {r \in claimed : r.title \in mapped[t]}
    IN /\ task[t][k] = Idle
       /\ account[t] # NoAccount
       /\ ~hold[t]
       /\ claimed # {}
       /\ outbox' = [outbox EXCEPT ![t] = Deferred(@, claimed \ sendable)]
       /\ task' = [task EXCEPT ![t][k] =
                     IF sendable = {} THEN Idle
                     ELSE [batch  |-> sendable,
                           unsent |-> TitlesOf(sendable),
                           cred   |-> account[t]]]
       /\ UNCHANGED <<local, pushed, hold, session, pull, world>>

(* What one request leaves of a title's entry: the fields it carries are set outright,
   and of several status edits in a batch the last queued one stands. *)
NewestStatus(batch, x) ==
    CHOOSE r \in StatusRows(batch, x) : \A q \in StatusRows(batch, x) : q.id <= r.id
Saved(entry, batch, x) ==
    [progress |-> IF ProgressRows(batch, x) # {} THEN Pending(batch, x)
                  ELSE Larger(entry.progress, 0),
     status   |-> IF StatusRows(batch, x) # {} THEN NewestStatus(batch, x).value
                  ELSE entry.status]

(* What a tracker has been told, once it has taken that request too. *)
Told(known, batch, x) ==
    [progress |-> [known.progress EXCEPT ![x] = Larger(@, Pending(batch, x))],
     edits    |-> known.edits \cup {r.value : r \in StatusRows(batch, x)}]

(* One title's request goes out and is taken.  It carries the token read when the push
   began (MyAnimeList, Kitsu, Simkl, Trakt) or the one held now (AniList).  A title the
   tracker has no id for is skipped, one its service cannot match is answered and not applied. *)
Send(t, k, x) ==
    LET batch == task[t][k].batch
    IN /\ x \in task[t][k].unsent
       /\ task' = [task EXCEPT ![t][k].unsent = @ \ {x}]
       /\ \E a \in {task[t][k].cred, account[t]} \ {NoAccount} :
             remote' = IF x \in mapped[t] \cap catalogue[t]
                       THEN [remote EXCEPT ![t][a][x] = Saved(@, batch, x)]
                       ELSE remote
       /\ heard' = IF x \in mapped[t] THEN [heard EXCEPT ![t] = Told(@, batch, x)] ELSE heard
       /\ UNCHANGED <<local, queue, session, pull, catalogue>>

(* Mutation: what is remembered is the row as it is by now, not as it was claimed. *)
PushOkReread(t, k) ==
    LET batch == task[t][k].batch
    IN /\ batch # {}
       /\ task[t][k].unsent = {}
       /\ outbox' = [outbox EXCEPT ![t] = Completed(@, batch)]
       /\ pushed' = [pushed EXCEPT ![t] =
                       Remembered(@, {r \in outbox[t] : r.id \in IdsOf(batch)})]
       /\ task' = [task EXCEPT ![t][k] = Idle]
       /\ UNCHANGED <<local, hold, session, pull, world>>

(* The push succeeded: every row of the batch is completed and its progress remembered
   as sent, whether or not the tracker applied it. *)
PushOk(t, k) ==
    LET batch == task[t][k].batch
    IN /\ batch # {}
       /\ task[t][k].unsent = {}
       /\ outbox' = [outbox EXCEPT ![t] = Completed(@, batch)]
       /\ pushed' = [pushed EXCEPT ![t] = Remembered(@, batch)]
       /\ task' = [task EXCEPT ![t][k] = Idle]
       /\ UNCHANGED <<local, hold, session, pull, world>>

(* The push failed, with none, some or all of its titles taken: the batch's fate is
   applied to every op in it. *)
PushFailed(t, k) ==
    LET batch == task[t][k].batch
    IN /\ batch # {}
       /\ outbox' = [outbox EXCEPT ![t] = FailedRows(@, batch)]
       /\ task' = [task EXCEPT ![t][k] = Idle]
       /\ UNCHANGED <<local, pushed, hold, session, pull, world>>

(* The credential was rejected, or is gone: the queue is held and no row is touched. *)
PushRejected(t, k) ==
    /\ task[t][k].batch # {}
    /\ hold' = [hold EXCEPT ![t] = TRUE]
    /\ task' = [task EXCEPT ![t][k] = Idle]
    /\ UNCHANGED <<local, outbox, pushed, session, pull, world>>

-----------------------------------------------------------------------------
(* The pull. *)

(* The library is fetched from the account signed in; the merge comes later, and reads
   the local state as it is by then. *)
FetchLibrary(t) ==
    /\ pull[t] = NoPull
    /\ account[t] # NoAccount
    /\ pull' = [pull EXCEPT ![t] =
                  [todo |-> {x \in Titles : remote[t][account[t]][x].progress # Unlisted},
                   seen |-> [x \in Titles |-> remote[t][account[t]][x].progress]]]
    /\ UNCHANGED <<local, queue, session, task, world>>

(* Mutation: what was sent already is sent again. *)
MergePushEchoed(reached, pending, sent, seen) ==
    LET effective == Larger(reached, pending)
    IN IF effective > seen /\ pending # effective THEN effective ELSE 0

(* merge::reconcile, for the progress of one entry.  The value to push, 0 for none: the
   higher of local and queued when the remote is behind it, unless it is queued already
   or was already sent. *)
MergePush(reached, pending, sent, seen) ==
    LET effective == Larger(reached, pending)
    IN IF effective > seen /\ pending # effective /\ sent < effective THEN effective ELSE 0

(* The value to adopt, 0 for none: the remote's when it is ahead of both. *)
MergeAdopt(reached, pending, seen) ==
    IF Larger(reached, pending) < seen THEN seen ELSE 0

(* A fetched library with one entry less to merge. *)
Without(library, x) ==
    IF library.todo = {x} THEN NoPull ELSE [library EXCEPT !.todo = @ \ {x}]

(* One entry of the library is reconciled and the result applied: a push is enqueued, or
   episodes 1..n are recorded as completed. *)
MergeEntry(t, x) ==
    LET reached == Reached(watched[x])
        pending == Pending(outbox[t], x)
        seen    == pull[t].seen[x]
        send    == MergePush(reached, pending, pushed[t][x], seen)
    IN /\ x \in pull[t].todo
       /\ watched' = [watched EXCEPT ![x] = @ \cup (1..MergeAdopt(reached, pending, seen))]
       /\ \E ids \in NewIds :
             outbox' = IF send > 0
                       THEN [outbox EXCEPT ![t] = EnqueueProgress(@, ids[t], x, send)]
                       ELSE outbox
       /\ pull' = [pull EXCEPT ![t] = Without(@, x)]
       /\ UNCHANGED <<playing, edits, pushed, hold, session, task, world>>

-----------------------------------------------------------------------------
(* What the world does. *)

(* The user goes further on the service itself, from a phone or the website. *)
WatchElsewhere(t, a, x, e) ==
    /\ e > remote[t][a][x].progress
    /\ remote' = [remote EXCEPT ![t][a][x].progress = e]
    /\ UNCHANGED <<local, queue, session, task, pull, catalogue, heard>>

(* Mutation: the refresh wakes nothing. *)
RefreshMappingsUnwoken(t, x) ==
    /\ x \notin mapped[t]
    /\ mapped' = [mapped EXCEPT ![t] = @ \cup {x}]
    /\ UNCHANGED <<local, queue, account, task, pull, world>>

(* A mapping refresh names another title, and wakes every deferred row. *)
RefreshMappings(t, x) ==
    /\ x \notin mapped[t]
    /\ mapped' = [mapped EXCEPT ![t] = @ \cup {x}]
    /\ outbox' = [u \in Trackers |-> Woken(outbox[u])]
    /\ UNCHANGED <<local, pushed, hold, account, task, pull, world>>

(* The backoff of a row runs out. *)
BackoffElapses(t, i) ==
    \E r \in outbox[t] :
        /\ r.id = i /\ r.wait = "backoff"
        /\ outbox' = [outbox EXCEPT ![t] = (@ \ {r}) \cup {[r EXCEPT !.wait = "due"]}]
        /\ UNCHANGED <<local, pushed, hold, session, task, pull, world>>

(* The hold lapses. *)
HoldLapses(t) ==
    /\ hold[t]
    /\ hold' = [hold EXCEPT ![t] = FALSE]
    /\ UNCHANGED <<local, outbox, pushed, session, task, pull, world>>

(* The process ends and starts again: everything in the store is kept, everything in
   flight is gone, whether or not its requests went out. *)
Restart ==
    /\ playing' = NoPlay
    /\ task' = [t \in Trackers |-> [k \in Tasks |-> Idle]]
    /\ pull' = [t \in Trackers |-> NoPull]
    /\ UNCHANGED <<watched, edits, queue, session, world>>

-----------------------------------------------------------------------------
(* The specification. *)

TypeOK ==
    /\ watched \in [Titles -> SUBSET Episodes]
    /\ playing \in [title : Titles, trackers : SUBSET Trackers] \cup {NoPlay}
    /\ outbox \in [Trackers -> SUBSET Row]
    /\ pushed \in [Trackers -> [Titles -> Nat]]
    /\ hold \in [Trackers -> BOOLEAN]
    /\ account \in [Trackers -> Accounts \cup {NoAccount}]
    /\ mapped \in [Trackers -> SUBSET Titles]
    /\ task \in [Trackers -> [Tasks -> Push]]
    /\ pull \in [Trackers -> Pull]
    /\ edits \in 0..MaxEdits
    /\ catalogue \in [Trackers -> SUBSET Titles]
    /\ remote \in [Trackers -> [Accounts -> [Titles -> Entry]]]
    /\ heard \in [Trackers -> [progress : [Titles -> Nat], edits : SUBSET Nat]]

Init ==
    /\ watched = [x \in Titles |-> {}]
    /\ playing = NoPlay
    /\ outbox = [t \in Trackers |-> {}]
    /\ pushed = [t \in Trackers |-> Forgotten]
    /\ hold = [t \in Trackers |-> FALSE]
    /\ account = [t \in Trackers |-> NoAccount]
    /\ mapped \in [Trackers -> SUBSET Titles]
    /\ task = [t \in Trackers |-> [k \in Tasks |-> Idle]]
    /\ pull = [t \in Trackers |-> NoPull]
    /\ edits = 0
    /\ catalogue \in [Trackers -> Catalogues]
    /\ remote = [t \in Trackers |-> [a \in Accounts |->
                   [x \in Titles |-> [progress |-> Unlisted, status |-> 0]]]]
    /\ heard = [t \in Trackers |-> [progress |-> [x \in Titles |-> 0], edits |-> {}]]

User ==
    \/ \E x \in Titles : StartPlayback(x)
    \/ \E e \in Episodes : CommitEpisode(e)
    \/ AbandonPlayback
    \/ \E x \in Titles, e \in Episodes : MarkWatched(x, e) \/ Unmark(x, e)
    \/ \E x \in Titles : SetStatus(x)
    \/ \E t \in Trackers, a \in Accounts : SignIn(t, a)
    \/ \E t \in Trackers : SignOut(t)
    \/ \E t \in Trackers, a \in Accounts, x \in Titles, e \in Elsewhere :
          WatchElsewhere(t, a, x, e)
    \/ Restart

Drain(t, k) ==
    \/ StartDrain(t, k)
    \/ \E x \in Titles : Send(t, k, x)
    \/ PushOk(t, k)
    \/ PushFailed(t, k)
    \/ PushRejected(t, k)

Reconcile(t) == FetchLibrary(t) \/ \E x \in Titles : MergeEntry(t, x)

Passing(t) ==
    \/ \E x \in Titles : RefreshMappings(t, x)
    \/ \E i \in RowIds : BackoffElapses(t, i)
    \/ HoldLapses(t)

Next ==
    \/ User
    \/ \E t \in Trackers, k \in Tasks : Drain(t, k)
    \/ \E t \in Trackers : Reconcile(t) \/ Passing(t)

Spec == Init /\ [][Next]_vars

(* The drain and the pull are timers that tick for as long as the program runs, a
   backoff and a hold run out, the datasets are refreshed, and a network that keeps
   coming back sooner or later takes a request and lets its answer through.  The user
   owes nothing. *)
Fairness ==
    \A t \in Trackers :
        /\ \A k \in Tasks :
              /\ WF_vars(StartDrain(t, k))
              /\ \A x \in Titles : SF_vars(Send(t, k, x))
              /\ SF_vars(PushOk(t, k))
        /\ WF_vars(FetchLibrary(t))
        /\ \A x \in Titles : SF_vars(MergeEntry(t, x))
        /\ \A x \in Titles : WF_vars(RefreshMappings(t, x))
        /\ \A i \in RowIds : WF_vars(BackoffElapses(t, i))
        /\ WF_vars(HoldLapses(t))

FairSpec == Spec /\ Fairness

-----------------------------------------------------------------------------
(* Safety. *)

(* A title has at most one progress op queued per tracker, whatever enqueues and drains
   overlap: the row coalesced into is the only one there is. *)
OneProgressRow ==
    \A t \in Trackers, x \in Titles :
        \A r, q \in ProgressRows(outbox[t], x) : r = q

(* The merge stays silent about a value it finds in pushed_progress.  That is only safe
   if the memory never runs ahead of what the tracker was really told. *)
MemoryIsHeard ==
    \A t \in Trackers, x \in Titles : pushed[t][x] <= heard[t].progress[x]

(* Nor may it outlive the account: what it holds was told to the account signed in now,
   whose list then shows at least that, if the service matches the title and the user
   takes no mark back. *)
MemoryIsOfTheAccount ==
    \A t \in SignedIn : \A x \in catalogue[t] :
        pushed[t][x] > 0 => pushed[t][x] <= remote[t][account[t]][x].progress

(* A status edit, once queued, leaves the queue only when its request has been taken or
   its attempts are spent: not because a batch it never went out in succeeded, not
   because of another drain's answer, not in a restart. *)
NoEditLost ==
    [][\A t \in Trackers : \A r \in outbox[t] :
          (r.op = "status" /\ r.id \notin IdsOf(outbox'[t]))
             => r.value \in heard[t].edits \/ r.attempts = MaxAttempts - 1]_vars

(* The progress queued for a title is never replaced by a lower one: a queued value goes
   up, or goes away. *)
QueueNeverWalksBack ==
    [][\A t \in Trackers, x \in Titles :
          Pending(outbox'[t], x) # 0 => Pending(outbox'[t], x) >= Pending(outbox[t], x)]_vars

-----------------------------------------------------------------------------
(* Liveness, under FairSpec. *)

Remote(t, x) == remote[t][account[t]][x]
Behind(t, x, n) ==
    /\ t \in SignedIn
    /\ x \in catalogue[t]
    /\ Reached(watched[x]) >= n
    /\ Remote(t, x).progress < n

(* A title on a tracker's list does not stay behind: for as long as the account stays
   signed in, progress made here or adopted from elsewhere reaches it, through
   failures, holds, restarts and rows given up.  A row lost by the queue is made good by
   the next pull. *)
ListedTitleConverges ==
    \A t \in Trackers, x \in Titles, n \in Episodes :
        []<>~(Behind(t, x, n) /\ Remote(t, x).progress # Unlisted)

(* Once the user rests, so does the queue of every tracker signed in: a pull does not
   send again, for ever, a value the tracker took and did not apply. *)
QueueComesToRest ==
    <>[][~User]_vars => <>[](\A t \in SignedIn : outbox[t] = {})

=============================================================================
