------------------------------ MODULE Downloads ------------------------------
(***************************************************************************)
(* The download queue of anistream: the rows in SQLite                     *)
(* (crates/anistream-store/src/download.rs), the one task that owns the    *)
(* queue and the commands of the screen                                    *)
(* (crates/anistream-engine/src/downloads), and as much of the torrent     *)
(* session as they use (crates/anistream-providers/src/torrent).           *)
(*                                                                         *)
(* The manager wakes every second and does three things in turn: it walks  *)
(* what is running, takes in the torrents added since, and starts what is  *)
(* queued.  Each torrent is added in a task of its own.  A step of the     *)
(* manager runs from one await to the next; the user, the tasks, the swarm *)
(* and the VPN watch act in between, and the row and the lists the manager *)
(* read before an await are stale after it.                                *)
(*                                                                         *)
(* librqbit knows a torrent by its infohash, so a torrent IS the set of    *)
(* the episodes its release holds, and two rows can be of one torrent.     *)
(***************************************************************************)
EXTENDS Integers, FiniteSets

CONSTANTS
    Packs,        \* the releases: a partition of the episodes one may ask for
    Missing,      \* the episodes whose release turns out to hold no file for them
    Concurrency,  \* CONCURRENCY
    Seeding,      \* what config.downloads.keep_seeding may be, tick by tick
    Leaks,        \* whether the VPN check may fail
    Restarts,     \* bound: how often the process, or the session, ends
    MaxId,        \* bound: row ids alive at once
    MaxFront      \* bound: the seconds apart at which "Start now" is asked

ASSUME ConstantsAssumption ==
    /\ \A p, q \in Packs : p # q => p \cap q = {}
    /\ {} \notin Packs
    /\ Missing \subseteq UNION Packs
    /\ Concurrency \in Nat \ {0}
    /\ Seeding \subseteq BOOLEAN /\ Seeding # {} /\ Leaks \in BOOLEAN
    /\ Restarts \in Nat /\ MaxId \in Nat /\ MaxFront \in Nat

VARIABLES
    rows,      \* SUBSET Row: the download table
    file,      \* [Episodes -> Part]: what is on disk
    session,   \* [Packs -> absent, live or paused]: the torrents librqbit has
    got,       \* [Episodes -> Part]: what librqbit has of each file, by its own count
    guard,     \* whether the last VPN check passed
    halted,    \* was_leaking: the watch has acted on a failed check
    starting,  \* SUBSET Start: the torrents being added
    running,   \* SUBSET Entry: the manager's running downloads
    manager,   \* where the manager is, and what it holds across an await
    restarts,  \* how often the process has ended
    crossed    \* history: the single episodes asked for when an earlier row of them was left

disk  == <<rows, file>>
swarm == <<session, got>>
watch == <<guard, halted>>
work  == <<starting, running, manager>>
past  == <<restarts, crossed>>
vars  == <<disk, swarm, watch, work, past>>

-----------------------------------------------------------------------------
(* Data. *)

Episodes   == UNION Packs
PackOf(e)  == CHOOSE p \in Packs : e \in p
Part       == {"none", "part", "whole"}
RowIds     == 1..MaxId

(* A row: front is when it was asked to start now, 0 for never; named says its path is
   known.  Its file is its episode's, and no two episodes name one file. *)
Row == [id      : RowIds,
        episode : Episodes,
        state   : {"queued", "active", "paused", "done", "failed"},
        front   : 0..MaxFront,
        named   : BOOLEAN]

(* What runs, and what is being added.  Each holds its torrent by the number librqbit gave
   it: known says that number is still good, as it no longer is once the torrent has been
   forgotten, even if it is added again. *)
Entry == [id : RowIds, episode : Episodes, known : BOOLEAN]
Start == [id : RowIds, episode : Episodes, known : BOOLEAN,
          stage : {"asked", "adding", "ok", "failed"}]

IdsOf(S)   == {r.id : r \in S}
OfPack(S, p) == {r \in S : PackOf(r.episode) = p}
Pending    == {r \in rows : r.state \in {"queued", "active"}}

(* What the manager holds: where it is (at), the entries still to walk, those that
   finished, the torrents that backed several entries when the walk began, the entry whose
   await is under way, and the queue and the paused rows as they were read. *)
Manager == [at      : {"down", "sleep", "poll", "resume", "finish", "take", "yield"},
            todo    : SUBSET RowIds,
            gone    : SUBSET RowIds,
            shared  : SUBSET Packs,
            cur     : SUBSET RowIds,
            waiting : SUBSET Row,
            paused  : SUBSET RowIds]
At(place) == [at |-> place, todo |-> {}, gone |-> {}, shared |-> {},
              cur |-> {}, waiting |-> {}, paused |-> {}]

(* AUTOINCREMENT: a new id is past every id any part of the program still holds. *)
LiveIds    == IdsOf(rows) \cup IdsOf(running) \cup IdsOf(starting) \cup
              IdsOf(manager.waiting) \cup manager.cur
IsNewId(i) == (\A j \in LiveIds : j < i) /\ (i = 1 \/ i - 1 \in LiveIds)

-----------------------------------------------------------------------------
(* The rows and the session: what the statements and the calls do. *)

(* set_download_state, on a row that may be gone. *)
WithState(R, i, s) == {IF r.id = i THEN [r EXCEPT !.state = s] ELSE r : r \in R}

(* update_download_progress: the path is known, and a queued row is active. *)
Progressed(r) == [r EXCEPT !.named = TRUE, !.state = IF @ = "queued" THEN "active" ELSE @]
WithProgress(R, i) == {IF r.id = i THEN Progressed(r) ELSE r : r \in R}

(* Mutation: an unfinished download is left as it was. *)
RestoredNone(R) == R

(* What the manager does to the rows of the last run: a running one is queued again. *)
Restored(R) == {IF r.state = "active" THEN [r EXCEPT !.state = "queued"] ELSE r : r \in R}

(* The order of pending_downloads: the last asked to start now, then the oldest. *)
Before(q, r) == \/ q.front > r.front
                \/ q.front = r.front /\ q.id < r.id

(* The whole of a torrent is here. *)
Complete(p) == \A e \in p : got[e] = "whole"

(* What held the number of a torrent holds nothing, and the files that are left of it. *)
Unknown(S, p)  == {IF PackOf(r.episode) = p THEN [r EXCEPT !.known = FALSE] ELSE r : r \in S}
FilesOf(p, delete) == [e \in Episodes |-> IF delete /\ e \in p THEN "none" ELSE file[e]]

(* Mutation: the files go whatever was asked. *)
ForgetDeleting(entries, p, delete) ==
    /\ session' = [session EXCEPT ![p] = "absent"]
    /\ got' = [e \in Episodes |-> IF e \in p THEN "none" ELSE got[e]]
    /\ file' = FilesOf(p, TRUE)
    /\ running' = Unknown(entries, p)
    /\ starting' = Unknown(starting, p)

(* forget, of a torrent the session has: with delete every file of the release goes. *)
ForgetFrom(entries, p, delete) ==
    /\ session' = [session EXCEPT ![p] = "absent"]
    /\ got' = [e \in Episodes |-> IF e \in p THEN "none" ELSE got[e]]
    /\ file' = FilesOf(p, delete)
    /\ running' = Unknown(entries, p)
    /\ starting' = Unknown(starting, p)

-----------------------------------------------------------------------------
(* What the user does. *)

NewRow(i, e) == [id |-> i, episode |-> e, state |-> "queued", front |-> 0, named |-> FALSE]

(* Mutation: a failed download asked for again gets a second row. *)
EnqueueTwice(e) ==
    /\ \A r \in rows : r.episode = e => r.state = "failed"
    /\ \E i \in RowIds : IsNewId(i) /\ rows' = rows \cup {NewRow(i, e)}
    /\ UNCHANGED <<file, swarm, watch, work, past>>

(* An episode that is all its release holds, and what is left of an earlier row of it: an
   entry, or its torrent, as a cancelled download leaves for a second or for as long as its
   torrent is added, and a deleted one while it seeds. *)
Single(e) == {e} \in Packs /\ e \notin Missing
Left(e)   == \/ session[PackOf(e)] # "absent"
             \/ \E h \in running \cup starting \cup manager.waiting : h.episode = e

(* enqueue: an episode with no row gets one, a failed one is queued again, and any other
   is left exactly as it is. *)
Enqueue(e) ==
    /\ \/ /\ \A r \in rows : r.episode # e
          /\ \E i \in RowIds : IsNewId(i) /\ rows' = rows \cup {NewRow(i, e)}
          /\ crossed' = IF Single(e) /\ Left(e) THEN crossed \cup {e} ELSE crossed \ {e}
       \/ /\ \E r \in rows :
                /\ r.episode = e /\ r.state = "failed"
                /\ rows' = (rows \ {r}) \cup {[r EXCEPT !.state = "queued", !.front = 0]}
          /\ UNCHANGED crossed
    /\ UNCHANGED <<file, swarm, watch, work, restarts>>

(* download_pause: pauses what is queued or active, queues what is paused. *)
Pause(r) ==
    /\ r.state \in {"queued", "active", "paused"}
    /\ rows' = WithState(rows, r.id, IF r.state = "paused" THEN "queued" ELSE "paused")
    /\ UNCHANGED <<file, swarm, watch, work, past>>

(* download_to_front: stamped with the second it is, which may be the last one's. *)
StartNow(r) ==
    /\ r.state \in {"queued", "paused"}
    /\ \E at \in 1..MaxFront :
          /\ \A q \in rows : q.front <= at
          /\ rows' = (rows \ {r}) \cup {[r EXCEPT !.state = "queued", !.front = at]}
    /\ UNCHANGED <<file, swarm, watch, work, past>>

(* cancel: the row goes; its file goes with it if it was idle, and is otherwise the
   manager's to remove, or the user's to keep. *)
Cancel(r) ==
    /\ rows' = rows \ {r}
    /\ file' = IF r.state \in {"paused", "queued", "failed"} /\ r.named
               THEN [file EXCEPT ![r.episode] = "none"] ELSE file
    /\ UNCHANGED <<swarm, watch, work, past>>

(* download_delete: the row goes, and its file. *)
Delete(r) ==
    /\ rows' = rows \ {r}
    /\ file' = IF r.named THEN [file EXCEPT ![r.episode] = "none"] ELSE file
    /\ UNCHANGED <<swarm, watch, work, past>>

(* clear_completed_downloads: the finished rows go, their files stay. *)
ClearCompleted ==
    /\ \E r \in rows : r.state = "done"
    /\ rows' = {r \in rows : r.state # "done"}
    /\ UNCHANGED <<file, swarm, watch, work, past>>

(* The process ends, or a settings change tears the session down.  Rows and files are
   kept.  Until the session is up again no manager runs, and the user may act. *)
Restart ==
    /\ manager.at # "down" /\ restarts < Restarts
    /\ restarts' = restarts + 1
    /\ manager' = At("down")
    /\ running' = {} /\ starting' = {}
    /\ session' = [p \in Packs |-> "absent"]
    /\ got' = [e \in Episodes |-> "none"]
    /\ guard' = TRUE /\ halted' = FALSE
    /\ UNCHANGED <<disk, crossed>>

-----------------------------------------------------------------------------
(* The tasks that add torrents, the swarm, and the VPN watch. *)

Staged(s, stage) ==
    starting' = (starting \ {s}) \cup {[s EXCEPT !.stage = stage, !.known = stage = "ok"]}

(* TorrentSession::download asks the guard once, before it adds. *)
Permit(s) ==
    /\ s.stage = "asked"
    /\ Staged(s, IF guard THEN "adding" ELSE "failed")
    /\ UNCHANGED <<disk, swarm, watch, running, manager, past>>

(* Nobody sends the metadata in time. *)
NoPeers(s) ==
    /\ s.stage = "adding"
    /\ Staged(s, "failed")
    /\ UNCHANGED <<disk, swarm, watch, running, manager, past>>

(* The torrent is added, unless the session has it: its files are made, or found on disk
   and counted.  A release with no file for the episode fails, and stays in the session. *)
Add(s) ==
    LET p == PackOf(s.episode)
        made == [e \in Episodes |-> IF e \in p /\ file[e] = "none" THEN "part" ELSE file[e]]
    IN /\ s.stage = "adding"
       /\ Staged(s, IF s.episode \in Missing THEN "failed" ELSE "ok")
       /\ IF session[p] = "absent"
          THEN /\ session' = [session EXCEPT ![p] = "live"]
               /\ file' = made
               /\ got' = [e \in Episodes |-> IF e \in p THEN made[e] ELSE got[e]]
          ELSE UNCHANGED <<session, file, got>>
       /\ UNCHANGED <<rows, watch, running, manager, past>>

(* More of a file is fetched.  One deleted while its torrent runs stays deleted: the
   session writes on to the file it holds open. *)
Fetch(e) ==
    /\ session[PackOf(e)] = "live"
    /\ got[e] = "part"
    /\ got' = [got EXCEPT ![e] = "whole"]
    /\ file' = [file EXCEPT ![e] = IF @ = "part" THEN "whole" ELSE @]
    /\ UNCHANGED <<rows, session, watch, work, past>>

(* vpn_watch: a check fails, and then every torrent there is is paused, once. *)
Leak ==
    /\ Leaks /\ manager.at # "down" /\ guard
    /\ guard' = FALSE
    /\ UNCHANGED <<disk, swarm, halted, work, past>>
Halt ==
    /\ ~guard /\ ~halted
    /\ halted' = TRUE
    /\ session' = [p \in Packs |-> IF session[p] = "live" THEN "paused" ELSE session[p]]
    /\ UNCHANGED <<disk, got, guard, work, past>>

(* It passes again, and every torrent resumes. *)
Recover ==
    /\ halted
    /\ guard' = TRUE /\ halted' = FALSE
    /\ session' = [p \in Packs |-> IF session[p] = "paused" THEN "live" ELSE session[p]]
    /\ UNCHANGED <<disk, got, work, past>>

-----------------------------------------------------------------------------
(* The manager: the session is up, and the rows of the last run are queued again. *)

Spawn ==
    /\ manager.at = "down"
    /\ rows' = Restored(rows)
    /\ manager' = At("sleep")
    /\ UNCHANGED <<file, swarm, watch, starting, running, past>>

(* poll_running.  The rows that share a torrent are counted before the walk. *)
BeginPoll ==
    /\ manager.at = "sleep"
    /\ manager' = [At("poll") EXCEPT
                     !.todo   = IdsOf(running),
                     !.shared = {p \in Packs :
                                   Cardinality({r \in OfPack(running, p) : r.known}) > 1}]
    /\ UNCHANGED <<disk, swarm, watch, starting, running, past>>

(* One entry of the walk is done with, and goes on running or does not. *)
Walked(i)  == [manager EXCEPT !.at = "poll", !.cur = {}, !.todo = @ \ {i}]
Retired(i) == [Walked(i) EXCEPT !.gone = @ \cup {i}]

Polling(e) == manager.at = "poll" /\ e \in running /\ e.id \in manager.todo
RowsAt(e, states) == {r \in rows : r.id = e.id /\ r.state \in states}

(* Its row is gone: the torrent goes, with every file of it, unless several entries were
   using it when the walk began. *)
PollCancelled(e) ==
    /\ Polling(e)
    /\ e.id \notin IdsOf(rows)
    /\ IF e.known /\ PackOf(e.episode) \notin manager.shared
       THEN ForgetFrom(running, PackOf(e.episode), TRUE)
       ELSE UNCHANGED <<file, swarm, running, starting>>
    /\ manager' = Retired(e.id)
    /\ UNCHANGED <<rows, watch, past>>

(* Mutation: a torrent the session does not know leaves its row as it was. *)
RequeuedNever(R, i) == R

(* Its row is settled, or the session does not know its torrent: it is let go of, and
   queued again if it was still to be fetched. *)
Requeued(R, i) ==
    {IF r.id = i /\ r.state = "active" THEN [r EXCEPT !.state = "queued"] ELSE r : r \in R}
PollLetGo(e) ==
    /\ Polling(e)
    /\ \/ RowsAt(e, {"done", "failed"}) # {}
       \/ RowsAt(e, {"queued", "active"}) # {} /\ ~e.known
    /\ rows' = Requeued(rows, e.id)
    /\ manager' = Retired(e.id)
    /\ UNCHANGED <<file, swarm, watch, starting, running, past>>

(* Its row is paused, and so is its torrent. *)
PollPaused(e) ==
    /\ Polling(e)
    /\ RowsAt(e, {"paused"}) # {}
    /\ session' = IF e.known THEN [session EXCEPT ![PackOf(e.episode)] = "paused"] ELSE session
    /\ manager' = Walked(e.id)
    /\ UNCHANGED <<disk, got, watch, starting, running, past>>

ToResume(e) ==
    /\ Polling(e)
    /\ RowsAt(e, {"queued", "active"}) # {}
    /\ e.known /\ session[PackOf(e.episode)] = "paused"

(* Its torrent is paused and its row is not: the guard refuses, and the row is paused. *)
PollRefused(e) ==
    /\ ToResume(e) /\ ~guard
    /\ rows' = WithState(rows, e.id, "paused")
    /\ manager' = Walked(e.id)
    /\ UNCHANGED <<file, swarm, watch, starting, running, past>>

(* Mutation: nothing clears the pause. *)
PollResumeUnsaid(e) ==
    /\ ToResume(e) /\ guard
    /\ manager' = [manager EXCEPT !.at = "resume", !.cur = {e.id}]
    /\ UNCHANGED <<disk, swarm, watch, starting, running, past>>

(* Or the torrent is resumed. *)
PollResume(e) ==
    /\ ToResume(e) /\ guard
    /\ session' = [session EXCEPT ![PackOf(e.episode)] = "live"]
    /\ manager' = [manager EXCEPT !.at = "resume", !.cur = {e.id}]
    /\ UNCHANGED <<disk, got, watch, starting, running, past>>

(* The row after a resume is not read again. *)
ToMeasure(e) ==
    \/ /\ Polling(e) /\ RowsAt(e, {"queued", "active"}) # {}
       /\ e.known /\ session[PackOf(e.episode)] = "live"
    \/ manager.at = "resume" /\ e \in running /\ e.id \in manager.cur

(* Its progress is written; when all of the torrent is here, the torrent is forgotten,
   its files kept, unless it seeds. *)
PollProgress(e) ==
    /\ ToMeasure(e)
    /\ rows' = WithProgress(rows, e.id)
    /\ \/ /\ ~Complete(PackOf(e.episode))
          /\ manager' = Walked(e.id)
          /\ UNCHANGED <<file, swarm, running, starting>>
       \/ /\ Complete(PackOf(e.episode))
          /\ manager' = [manager EXCEPT !.at = "finish", !.cur = {e.id}]
          /\ \/ FALSE \in Seeding /\ ForgetFrom(running, PackOf(e.episode), FALSE)
             \/ TRUE \in Seeding /\ UNCHANGED <<file, swarm, running, starting>>
    /\ UNCHANGED <<watch, past>>

(* finish_download, on whatever has become of the row. *)
FinishDownload(i) ==
    /\ manager.at = "finish" /\ i \in manager.cur
    /\ rows' = WithState(rows, i, "done")
    /\ manager' = Retired(i)
    /\ UNCHANGED <<file, swarm, watch, starting, running, past>>

(* The walk is over: what was retired runs no more. *)
EndPoll ==
    /\ manager.at = "poll" /\ manager.todo = {}
    /\ running' = {r \in running : r.id \notin manager.gone}
    /\ manager' = At("take")
    /\ UNCHANGED <<disk, swarm, watch, starting, past>>

-----------------------------------------------------------------------------
(* The manager: what was added, and what is queued. *)

(* take_started: running from now on, even if it was paused or cancelled meanwhile. *)
TakeStarted(s) ==
    /\ manager.at = "take"
    /\ s.stage = "ok"
    /\ rows' = WithProgress(rows, s.id)
    /\ running' = running \cup {[id |-> s.id, episode |-> s.episode, known |-> s.known]}
    /\ starting' = starting \ {s}
    /\ UNCHANGED <<file, swarm, watch, manager, past>>

(* Or failed, if there is still a row to fail. *)
TakeFailed(s) ==
    /\ manager.at = "take"
    /\ s.stage = "failed"
    /\ rows' = WithState(rows, s.id, "failed")
    /\ starting' = starting \ {s}
    /\ UNCHANGED <<file, swarm, watch, running, manager, past>>

Taken == manager.at = "take" /\ \A s \in starting : s.stage \in {"asked", "adding"}

(* Mutation: what is being added takes no place. *)
RoomOfRunning == Concurrency - Cardinality(running)
Room          == Concurrency - Cardinality(running) - Cardinality(starting)

(* Mutation: only what runs is passed over. *)
StartableTwice(queue) ==
    {r \in queue : r.state = "queued" /\ r.id \notin IdsOf(running)}
(* The rows of a queue as it was read that have no place yet. *)
Startable(queue) ==
    {r \in queue : r.state = "queued" /\ r.id \notin IdsOf(running) \cup IdsOf(starting)}

(* Their first ones start, as many as there is room for. *)
Begun(r) == [id |-> r.id, episode |-> r.episode, known |-> FALSE, stage |-> "asked"]
StartFrom(queue) ==
    starting' = starting \cup
        {Begun(r) : r \in {r \in Startable(queue) :
                              Cardinality({q \in Startable(queue) : Before(q, r)}) < Room}}

(* to_yield.  There is one asked to start now that is not running; the place goes to it from
   one that is paused, or else from the one latest in the queue, if behind it. *)
PausedIds == {r.id : r \in {q \in rows : q.state = "paused"}}
Asked     == {r \in Pending : r.state = "queued" /\ r.front > 0 /\ r.id \notin IdsOf(running)}
Behind    == {r \in Pending : /\ r.id \in IdsOf(running)
                              /\ \E f \in Asked : Before(f, r)}
Yields(i) ==
    /\ Asked # {}
    /\ IF PausedIds \cap IdsOf(running) # {}
       THEN i \in PausedIds \cap IdsOf(running)
       ELSE \E r \in Behind : r.id = i /\ \A q \in Behind : q = r \/ Before(q, r)

(* start_queued, with room. *)
StartQueued ==
    /\ Taken /\ Room > 0
    /\ StartFrom(Pending)
    /\ manager' = At("sleep")
    /\ UNCHANGED <<disk, swarm, watch, running, past>>

(* With none, and nobody to yield. *)
StayFull ==
    /\ Taken /\ Room <= 0
    /\ \A i \in IdsOf(running) : ~Yields(i)
    /\ manager' = At("sleep")
    /\ UNCHANGED <<disk, swarm, watch, starting, running, past>>

(* Mutation: the one that yields leaves its torrent in the session. *)
YieldKeeping(e) ==
    /\ Taken /\ Room <= 0
    /\ e \in running /\ Yields(e.id)
    /\ manager' = [At("yield") EXCEPT !.cur = {e.id}, !.waiting = Pending, !.paused = PausedIds]
    /\ running' = running \ {e}
    /\ UNCHANGED <<disk, swarm, watch, starting, past>>

(* One yields: its torrent leaves the session, unless another entry fetches from it. *)
Yield(e) ==
    LET left == running \ {e}
    IN /\ Taken /\ Room <= 0
       /\ e \in running /\ Yields(e.id)
       /\ manager' = [At("yield") EXCEPT
                        !.cur = {e.id}, !.waiting = Pending, !.paused = PausedIds]
       /\ IF e.known /\ \A r \in OfPack(left, PackOf(e.episode)) : ~r.known
          THEN ForgetFrom(left, PackOf(e.episode), FALSE)
          ELSE running' = left /\ UNCHANGED <<file, swarm, starting>>
       /\ UNCHANGED <<rows, watch, past>>

(* Its row is queued again, unless it was paused when the lists were read, and the queue
   as it was read starts. *)
Yielded ==
    /\ manager.at = "yield"
    /\ \E i \in manager.cur :
          rows' = IF i \in manager.paused THEN rows ELSE WithState(rows, i, "queued")
    /\ StartFrom(manager.waiting)
    /\ manager' = At("sleep")
    /\ UNCHANGED <<file, swarm, watch, running, past>>

-----------------------------------------------------------------------------
(* The specification. *)

TypeOK ==
    /\ rows \in SUBSET Row
    /\ \A q, r \in rows : q.id = r.id \/ q.episode = r.episode => q = r
    /\ file \in [Episodes -> Part]
    /\ session \in [Packs -> {"absent", "live", "paused"}]
    /\ got \in [Episodes -> Part]
    /\ guard \in BOOLEAN /\ halted \in BOOLEAN
    /\ starting \in SUBSET Start
    /\ running \in SUBSET Entry
    /\ manager \in Manager
    /\ restarts \in 0..Restarts
    /\ crossed \in SUBSET Episodes

Init ==
    /\ rows = {}
    /\ file = [e \in Episodes |-> "none"]
    /\ session = [p \in Packs |-> "absent"]
    /\ got = [e \in Episodes |-> "none"]
    /\ guard = TRUE /\ halted = FALSE
    /\ starting = {} /\ running = {}
    /\ manager = At("down")
    /\ restarts = 0 /\ crossed = {}

Screen ==
    \/ \E e \in Episodes : Enqueue(e)
    \/ \E r \in rows : Pause(r) \/ StartNow(r) \/ Cancel(r) \/ Delete(r)
    \/ ClearCompleted

Outside == Screen \/ Restart \/ Leak

Task(i) == \E s \in starting : s.id = i /\ (Permit(s) \/ NoPeers(s) \/ Add(s))

Watch == Halt \/ Recover

Poll ==
    \/ BeginPoll
    \/ \E e \in running :
          \/ PollCancelled(e) \/ PollLetGo(e) \/ PollPaused(e) \/ PollRefused(e)
          \/ PollResume(e) \/ PollProgress(e)
    \/ \E i \in RowIds : FinishDownload(i)
    \/ EndPoll

Refill ==
    \/ \E s \in starting : TakeStarted(s) \/ TakeFailed(s)
    \/ StartQueued \/ StayFull \/ Yielded
    \/ \E e \in running : Yield(e)

Manage == Spawn \/ Poll \/ Refill

Next ==
    \/ Outside
    \/ \E i \in RowIds : Task(i)
    \/ \E e \in Episodes : Fetch(e)
    \/ Watch
    \/ Manage

Spec == Init /\ [][Next]_vars

(* The manager's loop goes round, a task that adds a torrent ends, one way or the other,
   and what is live is fetched in the end.  The user owes nothing, nor does the VPN. *)
FairSpec ==
    /\ Spec
    /\ WF_vars(Manage)
    /\ \A i \in RowIds : WF_vars(Task(i))
    /\ \A e \in Episodes : WF_vars(Fetch(e))
    /\ WF_vars(Halt)

-----------------------------------------------------------------------------
(* Safety. *)

(* "Concurrency is capped": what runs and what is being added never take more places than
   there are, whatever is paused, cancelled, asked for again or asked to start now while
   torrents are being added. *)
PlacesKept == Cardinality(running) + Cardinality(starting) <= Concurrency

(* No row ever has two places: not while its torrent is being added, not after it was
   let go of and queued again, not from a queue read before an await. *)
OnePlaceEach ==
    /\ \A a, b \in running : a.id = b.id => a = b
    /\ \A a, b \in starting : a.id = b.id => a = b
    /\ IdsOf(running) \cap IdsOf(starting) = {}

(* A row never sits at "downloading" with nothing behind it: one that is active has an
   entry the manager walks, or is the one being told to wait. *)
ActiveIsManaged ==
    manager.at # "down" =>
        \A r \in rows : r.state = "active" => r.id \in IdsOf(running) \cup manager.cur

(* A row that says done has its whole file on disk, whatever pauses, cancellations and
   restarts came before it, if its release holds that file only and nothing was left of an
   earlier row of it when it was asked for. *)
DoneIsOnDisk ==
    \A r \in rows :
        r.state = "done" /\ Single(r.episode) /\ r.episode \notin crossed
            => file[r.episode] = "whole"

(* Between two rounds, no torrent is left fetching for nobody: what was cancelled, yielded
   or finished took its torrent with it, unless it seeds.  Of the same episodes. *)
TorrentsAreWanted ==
    manager.at = "sleep" /\ Seeding = {FALSE} =>
        \A e \in Episodes \ crossed :
            Single(e) /\ session[{e}] # "absent"
               => \E r \in running \cup starting : r.episode = e

(* "This can never reach a finished one": nothing the program does for another row takes
   a finished row's file. *)
FinishedFileKept ==
    [][\A r \in rows :
          r.state = "done" /\ r \in rows' /\ file[r.episode] = "whole"
             => file'[r.episode] = "whole"]_vars

-----------------------------------------------------------------------------
(* Liveness, under FairSpec. *)

(* Once the user and the VPN rest and nothing is left paused, the queue drains: every row
   is fetched or fails. *)
DownloadsSettle ==
    <>[][~Outside]_vars /\ <>[](\A r \in rows : r.state # "paused")
        => <>[](Pending = {})

=============================================================================
