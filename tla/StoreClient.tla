------------------------------ MODULE StoreClient ------------------------------
(***************************************************************************)
(* A plugin store as one machine uses it: joining and leaving, the list    *)
(* held of it, and a plugin of it installed and removed                    *)
(* (crates/anistream-engine/src/plugin_stores/mod.rs with                  *)
(* crates/anistream-plugin-store/src/local.rs and install.rs).             *)
(*                                                                         *)
(* Each command runs as a task of its own, beside the others.  The state   *)
(* file is read without a lock and changed under one; the token, the       *)
(* plugin directory and the store are reached outside it.  The store is    *)
(* what StoreList promises, which may also answer with a list it signed    *)
(* before.                                                                 *)
(***************************************************************************)
EXTENDS Integers, Sequences

CONSTANTS
    Ids, Versions, Files,
    P,           \* the plugin installed
    Tasks,       \* the commands under way
    Plans,       \* SUBSET [Tasks -> Command]: which they may be
    MaxList,     \* bound: changes of the store's list
    Kinds,       \* what may go wrong, of Mishap
    MaxMishaps   \* bound: how often

VARIABLES
    signed,      \* the lists the store has signed, numbered from 0
    live,        \* SUBSET Token: the tokens the store takes
    joined,      \* LocalState::stores: the record of the store, or none
    remembered,  \* LocalState::sequences: the highest number seen of it
    installed,   \* LocalState::installed: the plugin's entry, or none
    kept,        \* the token in the TokenStore, or none
    target,      \* the plugin's file, known by the task that created it, or none
    partial,     \* the file it is written to first
    content,     \* [Tasks -> Content]: what is in the file a task created
    does,        \* [Tasks -> Command]: what each is, fixed
    task,        \* [Tasks -> Task]
    agreed,      \* the versions of the plugin a person asked for
    mishaps      \* how much has gone wrong

store   == <<signed, live>>
record  == <<joined, remembered, installed>>
plugins == <<target, partial, content>>
asked   == <<does, agreed>>
vars    == <<store, record, kept, plugins, task, asked, mishaps>>

-----------------------------------------------------------------------------
Listed  == INSTANCE StoreList
             WITH sequence <- Len(signed) - 1, list <- signed[Len(signed)]
Entry   == Listed!Entry
NoEntry == Listed!NoEntry

Command == {"refresh", "install", "remove", "join", "leave"}
Mishap  == {"offline", "replayed", "evicted", "unsaved", "stopped"}

(* A token the store gave out is known by the task that joined with it; the first one by
   nobody here. *)
FirstToken == "first"
NoToken    == "none"
Token      == Tasks \cup {FirstToken}
NoFile     == "none"

ASSUME ConstantsAssumption ==
    /\ P \in Ids /\ Plans \subseteq [Tasks -> Command]
    /\ MaxList \in Nat /\ Kinds \subseteq Mishap /\ MaxMishaps \in Nat
    /\ Tasks \cap {FirstToken, NoToken, NoFile} = {}
Broken  == [id |-> "broken"]            \* cut short, or two writes in one
Content == Entry \cup {Broken}

Number   == 0..MaxList
NoList   == -1
Refused  == -2
Latest   == Len(signed) - 1
Offer(n) == IF n = NoList THEN NoEntry ELSE signed[n + 1][P]
Higher(m, n) == IF m > n THEN m ELSE n

NotJoined == [joined |-> FALSE, seen |-> 0, index |-> NoList, revoked |-> FALSE]
Joined    == [joined : {TRUE}, seen : Number, index : Number \cup {NoList}, revoked : BOOLEAN]

(* A task: where it is, and what it read before it waited: the number in the record, the
   token and the one it replaces, the list it was sent, the entry on screen and then the one
   it installs, whether there was a record, the file it has open. *)
Stage == {"idle", "fetch", "accept", "refused", "decide", "download", "open", "write",
          "rename", "record", "forget", "redeem", "floor", "first", "undo", "token",
          "upsert", "drop", "revoke", "clear", "remove", "done"}
Task  == [at : Stage, floor : Number, token : Token \cup {NoToken}, old : Token \cup {NoToken},
          got : Number \cup {NoList, Refused}, entry : Entry \cup {NoEntry}, had : BOOLEAN,
          file : Tasks \cup {NoFile}]
Fresh == [at |-> "idle", floor |-> 0, token |-> NoToken, old |-> NoToken, got |-> NoList,
          entry |-> NoEntry, had |-> FALSE, file |-> NoFile]

At(t, s)   == task[t].at = s
Goes(t, s) == task' = [task EXCEPT ![t].at = s]

GoesWrong(k) == k \in Kinds /\ mishaps < MaxMishaps /\ mishaps' = mishaps + 1
Offline      == GoesWrong("offline")
Unsaved      == GoesWrong("unsaved")

-----------------------------------------------------------------------------
(* The store. *)

Publish == \E l \in Listed!List :
             /\ Latest < MaxList
             /\ signed' = Append(signed, l)
             /\ Listed!Change
             /\ UNCHANGED <<live, record, kept, plugins, task, asked, mishaps>>

(* An owner removes the device. *)
Evict(k) == /\ k \in live /\ GoesWrong("evicted")
            /\ live' = live \ {k}
            /\ UNCHANGED <<signed, record, kept, plugins, task, asked>>

(* The number of the list it answers with: the newest, or one it signed before. *)
Answers(n) == \/ n = Latest /\ UNCHANGED mishaps
              \/ n \in 0..(Latest - 1) /\ GoesWrong("replayed")

-----------------------------------------------------------------------------
(* The list: refresh, refresh_one. *)

(* The record and the token are read. *)
Refresh(t) ==
    /\ does[t] = "refresh" /\ At(t, "idle") /\ joined.joined
    /\ task' = [task EXCEPT ![t] = [Fresh EXCEPT !.at = IF kept = NoToken THEN "done" ELSE "fetch",
                                                 !.floor = joined.seen, !.token = kept]]
    /\ UNCHANGED <<store, record, kept, plugins, asked, mishaps>>

(* StoreClient::index: the answer is checked against the number read before. *)
Fetch(t) ==
    /\ At(t, "fetch")
    /\ \/ Offline /\ Goes(t, "done")
       \/ task[t].token \notin live /\ Goes(t, "refused") /\ UNCHANGED mishaps
       \/ /\ task[t].token \in live
          /\ \E n \in 0..Latest :
               /\ Answers(n)
               /\ IF n >= task[t].floor
                  THEN task' = [task EXCEPT ![t].at = "accept", ![t].got = n]
                  ELSE Goes(t, "done")
    /\ UNCHANGED <<store, record, kept, plugins, asked>>

(* Mutation: the list is taken and its number is not. *)
AcceptList(r, n) == IF r.joined THEN [r EXCEPT !.index = n, !.revoked = FALSE] ELSE r

(* accept_index: the number only rises, the list is the one sent. *)
AcceptIndex(r, n) == IF r.joined THEN [r EXCEPT !.seen = Higher(@, n), !.index = n, !.revoked = FALSE]
                                 ELSE r

Accept(t) ==
    /\ At(t, "accept")
    /\ \/ /\ joined' = AcceptIndex(joined, task[t].got)
          /\ remembered' = Higher(remembered, task[t].got)
          /\ Goes(t, IF does[t] = "install" THEN "decide" ELSE "done")
          /\ UNCHANGED mishaps
       \/ Unsaved /\ Goes(t, "done") /\ UNCHANGED <<joined, remembered>>
    /\ UNCHANGED <<store, installed, kept, plugins, asked>>

MarkRevoked(t) ==
    /\ At(t, "refused")
    /\ joined' = IF joined.joined THEN [joined EXCEPT !.revoked = TRUE] ELSE joined
    /\ Goes(t, "done")
    /\ UNCHANGED <<store, remembered, installed, kept, plugins, asked, mishaps>>

-----------------------------------------------------------------------------
(* install, remove. *)

(* A person asks for the version on screen, which is the one in the list held. *)
Install(t) ==
    /\ does[t] = "install" /\ At(t, "idle")
    /\ joined.joined /\ kept # NoToken /\ Offer(joined.index) # NoEntry
    /\ task' = [task EXCEPT ![t] = [Fresh EXCEPT !.at = "fetch", !.floor = joined.seen,
                                                 !.token = kept, !.entry = Offer(joined.index)]]
    /\ agreed' = agreed \cup {Offer(joined.index).version}
    /\ UNCHANGED <<store, record, kept, plugins, does, mishaps>>

(* Mutation: what the store offers now is installed. *)
DecideAnyway(t) ==
    LET now == Offer(task[t].got) IN
    /\ At(t, "decide")
    /\ IF now = NoEntry
       THEN Goes(t, "done")
       ELSE task' = [task EXCEPT ![t].at = "download", ![t].entry = now]
    /\ UNCHANGED <<store, record, kept, plugins, asked, mishaps>>

(* What the store offers now, unless it is not what was agreed to. *)
Decide(t) ==
    LET now == Offer(task[t].got) IN
    /\ At(t, "decide")
    /\ IF now = NoEntry \/ now.version # task[t].entry.version
       THEN Goes(t, "done")
       ELSE task' = [task EXCEPT ![t].at = "download", ![t].entry = now]
    /\ UNCHANGED <<store, record, kept, plugins, asked, mishaps>>

(* The bytes the store offers under that version, if they are those of the entry. *)
Download(t) ==
    /\ At(t, "download")
    /\ \/ Offline /\ Goes(t, "done")
       \/ /\ Goes(t, IF task[t].token \in live /\ Offer(Latest) = task[t].entry
                     THEN "open" ELSE "done")
          /\ UNCHANGED mishaps
    /\ UNCHANGED <<store, record, kept, plugins, asked>>

(* Mutation: the plugin's own file is written. *)
OpenTarget(t) ==
    /\ At(t, "open")
    /\ LET f == IF target = NoFile THEN t ELSE target
       IN /\ target' = f
          /\ content' = [content EXCEPT ![f] = Broken]
          /\ task' = [task EXCEPT ![t].at = "write", ![t].file = f]
    /\ UNCHANGED <<store, record, kept, partial, asked, mishaps>>

(* tokio::fs::write of the .part file: opened and emptied, then written. *)
OpenPartial(t) ==
    /\ At(t, "open")
    /\ LET f == IF partial = NoFile THEN t ELSE partial
       IN /\ partial' = f
          /\ content' = [content EXCEPT ![f] = Broken]
          /\ task' = [task EXCEPT ![t].at = "write", ![t].file = f]
    /\ UNCHANGED <<store, record, kept, target, asked, mishaps>>

WritePartial(t) ==
    LET f == task[t].file IN
    /\ At(t, "write")
    /\ \/ /\ \E c \in IF content[f] = Broken THEN {task[t].entry} ELSE {task[t].entry, Broken} :
               content' = [content EXCEPT ![f] = c]
          /\ Goes(t, "rename")
          /\ UNCHANGED mishaps
       \/ Unsaved /\ Goes(t, "done") /\ UNCHANGED content
    /\ UNCHANGED <<store, record, kept, target, partial, asked>>

(* The rename: whatever is at the .part path becomes the plugin's file. *)
Rename(t) ==
    /\ At(t, "rename")
    /\ IF partial = NoFile
       THEN Goes(t, "done") /\ UNCHANGED <<target, partial>>
       ELSE Goes(t, "record") /\ target' = partial /\ partial' = NoFile
    /\ UNCHANGED <<store, record, kept, content, asked, mishaps>>

RecordInstall(t) ==
    /\ At(t, "record")
    /\ \/ installed' = task[t].entry /\ UNCHANGED mishaps
       \/ Unsaved /\ UNCHANGED installed
    /\ Goes(t, "done")
    /\ UNCHANGED <<store, joined, remembered, kept, plugins, asked>>

(* remove: the file, then the record of it. *)
Remove(t) ==
    /\ does[t] = "remove" /\ At(t, "idle")
    /\ target' = NoFile
    /\ Goes(t, "forget")
    /\ UNCHANGED <<store, record, kept, partial, content, asked, mishaps>>

ForgetInstall(t) ==
    /\ At(t, "forget")
    /\ \/ installed' = NoEntry /\ UNCHANGED mishaps
       \/ Unsaved /\ UNCHANGED installed
    /\ Goes(t, "done")
    /\ UNCHANGED <<store, joined, remembered, kept, plugins, asked>>

-----------------------------------------------------------------------------
(* join, leave. *)

Join(t) ==
    /\ does[t] = "join" /\ At(t, "idle")
    /\ task' = [task EXCEPT ![t] = [Fresh EXCEPT !.at = "redeem", !.floor = joined.seen,
                                                 !.had = joined.joined]]
    /\ UNCHANGED <<store, record, kept, plugins, asked, mishaps>>

Redeem(t) ==
    /\ At(t, "redeem")
    /\ \/ /\ live' = live \cup {t}
          /\ task' = [task EXCEPT ![t].at = "floor", ![t].token = t]
          /\ UNCHANGED mishaps
       \/ Offline /\ Goes(t, "done") /\ UNCHANGED live
    /\ UNCHANGED <<signed, record, kept, plugins, asked>>

(* The floor is the highest list this machine has seen from the store, joined or not. *)
Floor(t) ==
    /\ At(t, "floor")
    /\ task' = [task EXCEPT ![t].at = "first", ![t].floor = Higher(@, remembered)]
    /\ UNCHANGED <<store, record, kept, plugins, asked, mishaps>>

(* The first list: an older one ends it; a store that does not answer does not. *)
First(t) ==
    /\ At(t, "first")
    /\ \/ Offline /\ Goes(t, "token")
       \/ /\ task[t].token \notin live
          /\ task' = [task EXCEPT ![t].at = "token", ![t].got = Refused]
          /\ UNCHANGED mishaps
       \/ /\ task[t].token \in live
          /\ \E n \in 0..Latest :
               /\ Answers(n)
               /\ IF n >= task[t].floor
                  THEN task' = [task EXCEPT ![t].at = "token", ![t].got = n]
                  ELSE Goes(t, "undo")
    /\ UNCHANGED <<store, record, kept, plugins, asked>>

(* DELETE /v1/me, as far as that works: of the new token, of the one replaced, of the one
   held. *)
Revokes(t, s, k, next) ==
    /\ At(t, s)
    /\ \/ live' = live \ {k} /\ UNCHANGED mishaps
       \/ Offline /\ UNCHANGED live
    /\ Goes(t, next)
    /\ UNCHANGED <<signed, record, kept, plugins, asked>>

Undo(t)    == Revokes(t, "undo", task[t].token, "done")
DropOld(t) == Revokes(t, "drop", task[t].old, "done")
Revoke(t)  == Revokes(t, "revoke", task[t].token, "clear")

(* The token before the record. *)
KeepToken(t) ==
    /\ At(t, "token")
    /\ \/ /\ kept' = task[t].token
          /\ task' = [task EXCEPT ![t].at = "upsert",
                                  ![t].old = IF task[t].had THEN kept ELSE NoToken]
          /\ UNCHANGED mishaps
       \/ Unsaved /\ Goes(t, "done") /\ UNCHANGED kept
    /\ UNCHANGED <<store, record, plugins, asked>>

(* Mutation: the number starts over with the record. *)
UpsertFresh(t) ==
    LET new == [NotJoined EXCEPT !.joined = TRUE] IN
    /\ At(t, "upsert")
    /\ joined' = IF task[t].got \in Number THEN AcceptIndex(new, task[t].got) ELSE new
    /\ remembered' = IF task[t].got \in Number THEN task[t].got ELSE 0
    /\ Goes(t, IF task[t].old = NoToken THEN "done" ELSE "drop")
    /\ UNCHANGED <<store, installed, kept, plugins, asked, mishaps>>

(* LocalState::upsert, and what became of the first list. *)
Upsert(t) ==
    LET got == task[t].got
        new == [joined |-> TRUE, seen |-> Higher(joined.seen, remembered), index |-> NoList,
                revoked |-> got = Refused]
    IN
    /\ At(t, "upsert")
    /\ \/ /\ joined' = IF got \in Number THEN AcceptIndex(new, got) ELSE new
          /\ remembered' = IF got \in Number THEN Higher(remembered, got) ELSE remembered
          /\ Goes(t, IF task[t].old = NoToken THEN "done" ELSE "drop")
          /\ UNCHANGED mishaps
       \/ Unsaved /\ Goes(t, "done") /\ UNCHANGED <<joined, remembered>>
    /\ UNCHANGED <<store, installed, kept, plugins, asked>>

Leave(t) ==
    /\ does[t] = "leave" /\ At(t, "idle") /\ joined.joined
    /\ task' = [task EXCEPT ![t] = [Fresh EXCEPT !.at = IF kept = NoToken THEN "clear" ELSE "revoke",
                                                 !.token = kept]]
    /\ UNCHANGED <<store, record, kept, plugins, asked, mishaps>>

Clear(t) ==
    /\ At(t, "clear")
    /\ \/ kept' = NoToken /\ UNCHANGED mishaps
       \/ Unsaved /\ UNCHANGED kept
    /\ Goes(t, "remove")
    /\ UNCHANGED <<store, record, plugins, asked>>

RemoveStore(t) ==
    /\ At(t, "remove")
    /\ \/ /\ joined' = NotJoined
          /\ remembered' = Higher(remembered, joined.seen)
          /\ UNCHANGED mishaps
       \/ Unsaved /\ UNCHANGED <<joined, remembered>>
    /\ Goes(t, "done")
    /\ UNCHANGED <<store, installed, kept, plugins, asked>>

(* The app ends. *)
Stop ==
    /\ GoesWrong("stopped")
    /\ task' = [t \in Tasks |-> IF At(t, "idle") THEN task[t] ELSE [Fresh EXCEPT !.at = "done"]]
    /\ UNCHANGED <<store, record, kept, plugins, asked>>

-----------------------------------------------------------------------------
Init ==
    /\ signed = <<[i \in Ids |-> NoEntry]>>
    /\ live = {FirstToken} /\ kept = FirstToken
    /\ joined = [joined |-> TRUE, seen |-> 0, index |-> 0, revoked |-> FALSE]
    /\ remembered = 0 /\ installed = NoEntry
    /\ target = NoFile /\ partial = NoFile /\ content = [t \in Tasks |-> Broken]
    /\ does \in Plans /\ task = [t \in Tasks |-> Fresh]
    /\ agreed = {} /\ mishaps = 0

Listing(t)    == Refresh(t) \/ Fetch(t) \/ Accept(t) \/ MarkRevoked(t)
Installing(t) == \/ Install(t) \/ Decide(t) \/ Download(t) \/ OpenPartial(t) \/ WritePartial(t)
                 \/ Rename(t) \/ RecordInstall(t) \/ Remove(t) \/ ForgetInstall(t)
Joining(t)    == \/ Join(t) \/ Redeem(t) \/ Floor(t) \/ First(t) \/ Undo(t) \/ KeepToken(t)
                 \/ Upsert(t) \/ DropOld(t)
Leaving(t)    == Leave(t) \/ Revoke(t) \/ Clear(t) \/ RemoveStore(t)

Next == \/ \E t \in Tasks : Listing(t) \/ Installing(t) \/ Joining(t) \/ Leaving(t)
        \/ Publish \/ Stop
        \/ \E k \in live : Evict(k)

Spec == Init /\ [][Next]_vars

-----------------------------------------------------------------------------
(* Properties. *)

(* Every variable holds values of its type; the list held has been seen. *)
TypeOK ==
    /\ signed \in Seq(Listed!List) /\ Len(signed) \in 1..(MaxList + 1)
    /\ live \in SUBSET Token
    /\ joined \in Joined \cup {NotJoined} /\ remembered \in Number
    /\ installed \in Entry \cup {NoEntry} /\ kept \in Token \cup {NoToken}
    /\ target \in Tasks \cup {NoFile} /\ partial \in Tasks \cup {NoFile}
    /\ content \in [Tasks -> Content] /\ task \in [Tasks -> Task]
    /\ does \in Plans /\ agreed \in SUBSET Versions /\ mishaps \in 0..MaxMishaps
    /\ joined.index <= joined.seen

(* The highest number seen of a store never falls, whether it is left, joined again or
   refreshed by tasks that cross, and wherever one ends (local.rs: "A store left and joined
   again must not be able to hand back a list older than one this machine has already
   seen"). *)
Seen == Higher(remembered, joined.seen)
SeenNeverFalls == [][Seen' >= Seen]_vars

(* The plugin's file is one a person asked for, though the store may change what it offers
   between the tap and the download, or send another list. *)
AgreedOnly == target # NoFile => content[target] = Broken \/ content[target].version \in agreed

(* The plugin's file is whole whenever the app might load it, and wherever an install ends;
   as long as one install of a plugin runs at a time (install.rs: "The directory is what the
   app loads at startup"). *)
FileIsWhole == target # NoFile => content[target] # Broken
=============================================================================
