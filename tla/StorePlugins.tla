----------------------------- MODULE StorePlugins -----------------------------
(***************************************************************************)
(* The plugins of a hosted store: uploads in parts, publishing and         *)
(* unpublishing (crates/anistream-store-core/src/store.rs).  The store is  *)
(* a database that offers single statements and atomic batches, and a      *)
(* place for files; nothing spans the two, and a request is interleaved    *)
(* with the others wherever it waits for either.                           *)
(*                                                                         *)
(* A file is kept under the plugin's id, its version and the digest of its *)
(* bytes (blob_key): an entry of the list and the key of its file are the  *)
(* same data.                                                              *)
(***************************************************************************)
EXTENDS Integers, FiniteSets

CONSTANTS
    Ids, Versions, Files,
    Uploads,     \* the uploads owners begin
    Parts,       \* the parts of each
    Plugin,      \* [Uploads -> Entry]: what each puts together
    Requests,    \* the requests to finish an upload or to unpublish
    Asks,        \* [Requests -> Ask]
    MaxFailures  \* bound: requests that end early, and files that cannot be put or deleted

VARIABLES
    sequence,    \* meta.sequence
    plugins,     \* [Ids -> Entry or NoEntry]: the rows
    blobs,       \* SUBSET Entry: the keys that have a file
    uploads,     \* [Uploads -> the row: not begun, open, over an hour old, deleted]
    parts,       \* [Uploads -> SUBSET Parts]: the files of its parts
    sending,     \* SUBSET (Uploads \X Parts): parts let in and not written yet
    sent,        \* [Uploads -> SUBSET Parts]: parts the owner has an answer for
    job,         \* [Requests -> Job]
    failures     \* how much has failed

vars == <<sequence, plugins, blobs, uploads, parts, sending, sent, job, failures>>

-----------------------------------------------------------------------------
Listed == INSTANCE StoreList WITH list <- plugins

Entry   == Listed!Entry
NoEntry == Listed!NoEntry
Ask     == [op : {"finish"}, upload : Uploads] \cup [op : {"unpublish"}, id : Ids]

ASSUME ConstantsAssumption ==
    /\ Plugin \in [Uploads -> Entry]
    /\ Asks \in [Requests -> Ask]
    /\ MaxFailures \in Nat

(* A request: where it has come to, and the row it read first (previous). *)
Publishing == {"assembling", "reading", "putting", "writing", "undoing", "clearing"}
Stage      == Publishing \cup {"idle", "dropping", "removing", "answered"}
Job        == [at : Stage, previous : Entry \cup {NoEntry}]

Finishing(r) == Asks[r].op = "finish"
Published(r) == Plugin[Asks[r].upload]
Step(r, s)   == job' = [job EXCEPT ![r].at = s]
Fails        == failures < MaxFailures /\ failures' = failures + 1

database == <<sequence, plugins>>
received == <<uploads, parts, sending, sent>>

-----------------------------------------------------------------------------
(* Uploads. *)

(* begin_upload: the uploads over an hour old are thrown away as a new one starts.  Nobody
   gets past the check of an old row, so its parts and the row go in one step here. *)
BeginUpload(u) ==
    /\ uploads[u] = "none"
    /\ uploads' = [v \in Uploads |-> IF v = u THEN "open"
                                     ELSE IF uploads[v] = "old" THEN "deleted" ELSE uploads[v]]
    /\ parts' = [v \in Uploads |-> IF uploads[v] = "old" THEN {} ELSE parts[v]]
    /\ UNCHANGED <<database, blobs, sending, sent, job, failures>>

(* put_part: let in while the row is under an hour old, then written. *)
CheckPart(u, k) ==
    /\ uploads[u] = "open" /\ k \notin sent[u] /\ <<u, k>> \notin sending
    /\ sending' = sending \cup {<<u, k>>}
    /\ UNCHANGED <<database, blobs, uploads, parts, sent, job, failures>>

PutPart(u, k) ==
    /\ <<u, k>> \in sending
    /\ sending' = sending \ {<<u, k>>}
    /\ \/ /\ parts' = [parts EXCEPT ![u] = @ \cup {k}]
          /\ sent' = [sent EXCEPT ![u] = @ \cup {k}]
          /\ UNCHANGED failures
       \/ Fails /\ UNCHANGED <<parts, sent>>
    /\ UNCHANGED <<database, blobs, uploads, job>>

(* An hour goes by. *)
Expire(u) ==
    /\ uploads[u] = "open"
    /\ uploads' = [uploads EXCEPT ![u] = "old"]
    /\ UNCHANGED <<database, blobs, parts, sending, sent, job, failures>>

(* finish_upload, once the owner has an answer for every part. *)
Finish(r) ==
    /\ job[r].at = "idle" /\ Finishing(r)
    /\ sent[Asks[r].upload] = Parts
    /\ Step(r, IF uploads[Asks[r].upload] = "open" THEN "assembling" ELSE "answered")
    /\ UNCHANGED <<database, blobs, received, failures>>

(* The parts are read, and one that is not there ends it: "never arrived". *)
Assemble(r) ==
    /\ job[r].at = "assembling"
    /\ Step(r, IF parts[Asks[r].upload] = Parts THEN "reading" ELSE "answered")
    /\ UNCHANGED <<database, blobs, received, failures>>

(* The parts and the row go whether or not it published. *)
Clear(r) ==
    LET u == Asks[r].upload IN
    /\ job[r].at = "clearing"
    /\ parts' = [parts EXCEPT ![u] = {}]
    /\ uploads' = [uploads EXCEPT ![u] = "deleted"]
    /\ Step(r, "answered")
    /\ UNCHANGED <<database, blobs, sending, sent, failures>>

-----------------------------------------------------------------------------
(* publish_with_digest. *)

(* The row is read; the version it has already is not published again. *)
ReadPrevious(r) ==
    LET e == Published(r) IN
    /\ job[r].at = "reading"
    /\ job' = [job EXCEPT ![r] =
                 [at |-> IF /\ plugins[e.id] # NoEntry
                            /\ plugins[e.id].version = e.version
                         THEN "clearing" ELSE "putting",
                  previous |-> plugins[e.id]]]
    /\ UNCHANGED <<database, blobs, received, failures>>

PutBlob(r) ==
    /\ job[r].at = "putting"
    /\ \/ blobs' = blobs \cup {Published(r)} /\ Step(r, "writing") /\ UNCHANGED failures
       \/ Fails /\ Step(r, "clearing") /\ UNCHANGED blobs
    /\ UNCHANGED <<database, received>>

(* Mutation: the sequence moves in a statement of its own, before the row. *)
WriteUncounted(r) ==
    LET e == Published(r)
        applies == plugins[e.id] = NoEntry \/ plugins[e.id].version # e.version
    IN
    /\ job[r].at = "writing"
    /\ plugins' = [plugins EXCEPT ![e.id] = IF applies THEN e ELSE @]
    /\ Step(r, IF applies THEN "dropping" ELSE "undoing")
    /\ UNCHANGED <<sequence, blobs, received, failures>>

(* The batch: an upsert that applies to another version only, and the sequence. *)
WriteRow(r) ==
    LET e == Published(r)
        applies == plugins[e.id] = NoEntry \/ plugins[e.id].version # e.version
    IN
    /\ job[r].at = "writing"
    /\ plugins' = [plugins EXCEPT ![e.id] = IF applies THEN e ELSE @]
    /\ sequence' = sequence + 1
    /\ Step(r, IF applies THEN "dropping" ELSE "undoing")
    /\ UNCHANGED <<blobs, received, failures>>

(* Mutation: the version's file is deleted, whatever its digest. *)
UndoVersion(r) ==
    LET e == Published(r) IN
    /\ job[r].at = "undoing"
    /\ blobs' = {b \in blobs : b.id # e.id \/ b.version # e.version}
    /\ Step(r, "clearing")
    /\ UNCHANGED <<database, received, failures>>

(* Another request published this version in between: the file just put is deleted, as far
   as that works. *)
UndoBlob(r) ==
    /\ job[r].at = "undoing"
    /\ \/ blobs' = blobs \ {Published(r)} /\ UNCHANGED failures
       \/ Fails /\ UNCHANGED blobs
    /\ Step(r, "clearing")
    /\ UNCHANGED <<database, received>>

(* The file of the row that was read is deleted, as far as that works. *)
DropPrevious(r) ==
    /\ job[r].at = "dropping"
    /\ \/ blobs' = blobs \ {job[r].previous} /\ UNCHANGED failures
       \/ Fails /\ UNCHANGED blobs
    /\ Step(r, IF Finishing(r) THEN "clearing" ELSE "answered")
    /\ UNCHANGED <<database, received>>

-----------------------------------------------------------------------------
(* unpublish. *)

(* Mutation: what is not published here is unpublished all the same. *)
ReadAnything(r) ==
    /\ job[r].at = "idle" /\ ~Finishing(r)
    /\ job' = [job EXCEPT ![r] = [at |-> "removing", previous |-> plugins[Asks[r].id]]]
    /\ UNCHANGED <<database, blobs, received, failures>>

ReadOffered(r) ==
    /\ job[r].at = "idle" /\ ~Finishing(r)
    /\ LET e == plugins[Asks[r].id]
       IN job' = [job EXCEPT ![r] = [at |-> IF e = NoEntry THEN "answered" ELSE "removing",
                                     previous |-> e]]
    /\ UNCHANGED <<database, blobs, received, failures>>

(* The batch: the row goes while it has the digest that was read; the sequence moves. *)
RemoveRow(r) ==
    LET i == Asks[r].id
        applies == plugins[i] # NoEntry /\ plugins[i].file = job[r].previous.file
    IN
    /\ job[r].at = "removing"
    /\ plugins' = [plugins EXCEPT ![i] = IF applies THEN NoEntry ELSE @]
    /\ sequence' = sequence + 1
    /\ Step(r, IF applies THEN "dropping" ELSE "answered")
    /\ UNCHANGED <<blobs, received, failures>>

(* A request ends where it is: the store stops, the owner's connection goes, or the database
   does not answer. *)
End(r) ==
    /\ job[r].at \notin {"idle", "answered"}
    /\ Fails /\ Step(r, "answered")
    /\ UNCHANGED <<database, blobs, received>>

-----------------------------------------------------------------------------
Init ==
    /\ Listed!Init
    /\ blobs   = {}
    /\ uploads = [u \in Uploads |-> "none"]
    /\ parts   = [u \in Uploads |-> {}]
    /\ sending = {}
    /\ sent    = [u \in Uploads |-> {}]
    /\ job     = [r \in Requests |-> [at |-> "idle", previous |-> NoEntry]]
    /\ failures = 0

Upload(u)  == \/ BeginUpload(u) \/ Expire(u)
              \/ \E k \in Parts : CheckPart(u, k) \/ PutPart(u, k)
Publish(r) == \/ Finish(r) \/ Assemble(r) \/ ReadPrevious(r) \/ PutBlob(r)
              \/ WriteRow(r) \/ UndoBlob(r) \/ DropPrevious(r) \/ Clear(r)

Next == \/ \E u \in Uploads : Upload(u)
        \/ \E r \in Requests : Publish(r) \/ ReadOffered(r) \/ RemoveRow(r) \/ End(r)

Spec == Init /\ [][Next]_vars

-----------------------------------------------------------------------------
(* Properties. *)

(* Every variable holds values of its type; a request to unpublish goes on only with a row
   it has read. *)
TypeOK ==
    /\ sequence \in Nat /\ plugins \in Listed!List
    /\ blobs \in SUBSET Entry
    /\ uploads \in [Uploads -> {"none", "open", "old", "deleted"}]
    /\ parts \in [Uploads -> SUBSET Parts] /\ sent \in [Uploads -> SUBSET Parts]
    /\ sending \in SUBSET (Uploads \X Parts)
    /\ job \in [Requests -> Job]
    /\ failures \in 0..MaxFailures
    /\ \A r \in Requests :
         /\ job[r].at \in Publishing => Finishing(r)
         /\ job[r].at = "removing" => ~Finishing(r) /\ job[r].previous # NoEntry

(* A plugin the list offers can be downloaded, whatever requests cross and wherever one ends:
   its file is there (store.rs: "Named by content, so a file is never overwritten in place:
   a racing publish of the same version writes a different key, and the row decides which
   one counts"). *)
OfferedHasBytes == \A i \in Ids : plugins[i] # NoEntry => plugins[i] \in blobs

(* The list the store keeps is the numbered list it promises (see StoreList): no two lists
   go out under one number, and a version that is offered keeps its bytes though two
   requests publish it at once. *)
KeepsTheList == Listed!Spec
=============================================================================
