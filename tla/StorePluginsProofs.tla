-------------------------- MODULE StorePluginsProofs --------------------------
(***************************************************************************)
(* Theorems of StorePlugins, for every set of plugins, uploads and         *)
(* requests, and any number of failures.                                   *)
(***************************************************************************)
EXTENDS StorePlugins, TLAPS

-----------------------------------------------------------------------------
(* Data. *)

LEMMA NoEntryIsNone == NoEntry \notin Entry
<1>1. DOMAIN NoEntry = {"id"}
  BY DEF NoEntry, Listed!NoEntry
<1>2. \A e \in Entry : DOMAIN e = {"id", "version", "file"}
  BY DEF Entry, Listed!Entry
<1> QED BY <1>1, <1>2

(* What is asked for, and what a request to publish publishes. *)
LEMMA AskType ==
    ASSUME NEW r \in Requests
    PROVE  /\ Finishing(r) => Asks[r].upload \in Uploads /\ Published(r) \in Entry
           /\ ~Finishing(r) => Asks[r].id \in Ids
<1>1. Asks[r] \in Ask
  BY ConstantsAssumption
<1>2. CASE Asks[r] \in [op : {"finish"}, upload : Uploads]
  BY <1>2, ConstantsAssumption DEF Finishing, Published
<1>3. CASE Asks[r] \in [op : {"unpublish"}, id : Ids]
  BY <1>3 DEF Finishing
<1> QED BY <1>1, <1>2, <1>3 DEF Ask

LEMMA EntryFields ==
    ASSUME NEW e \in Entry
    PROVE  e.id \in Ids /\ e.version \in Versions /\ e.file \in Files
BY DEF Entry, Listed!Entry

-----------------------------------------------------------------------------
(* Type correctness. *)

(* What a step does to one request. *)
LEMMA StepType ==
    ASSUME NEW r \in Requests, NEW s \in Stage, job \in [Requests -> Job], Step(r, s)
    PROVE  job' \in [Requests -> Job] /\ job'[r].at = s /\ job'[r].previous = job[r].previous
           /\ \A q \in Requests : q # r => job'[q] = job[q]
BY DEF Step, Job

(* A list with a row changed to an entry of its plugin, or to nothing, is a list. *)
LEMMA ListWith ==
    ASSUME NEW l \in Listed!List, NEW i \in Ids, NEW e \in Entry \cup {NoEntry},
           e # NoEntry => e.id = i
    PROVE  [l EXCEPT ![i] = e] \in Listed!List
<1> DEFINE m == [l EXCEPT ![i] = e]
<1>1. m \in [Ids -> Entry \cup {NoEntry}]
  BY DEF Listed!List, Entry, NoEntry
<1>2. \A j \in Ids : m[j] # NoEntry => m[j].id = j
  BY DEF Listed!List, NoEntry
<1> QED BY <1>1, <1>2 DEF Listed!List, Entry, NoEntry

LEMMA Listing ==
    ASSUME NEW l \in Listed!List, NEW i \in Ids
    PROVE  l[i] \in Entry \cup {NoEntry} /\ (l[i] # NoEntry => l[i].id = i)
BY DEF Listed!List, Entry, NoEntry

LEMMA InitType == Init => TypeOK
<1> SUFFICES ASSUME Init PROVE TypeOK
  OBVIOUS
<1>1. sequence \in Nat /\ plugins \in Listed!List
  BY DEF Init, Listed!Init, Listed!List, NoEntry
<1>2. job \in [Requests -> Job] /\ \A r \in Requests : job[r].at = "idle"
  BY DEF Init, Job, Stage, Publishing
<1> QED BY <1>1, <1>2, ConstantsAssumption DEF TypeOK, Init, Publishing

(* A request that goes on keeps the type of the requests. *)
Requesting(j) == /\ j \in [Requests -> Job]
                 /\ \A r \in Requests :
                      /\ j[r].at \in Publishing => Finishing(r)
                      /\ j[r].at = "removing" => ~Finishing(r) /\ j[r].previous # NoEntry

LEMMA StepKeepsType ==
    ASSUME Requesting(job), NEW r \in Requests, NEW s \in Stage \ {"removing"}, Step(r, s),
           s \in Publishing => Finishing(r)
    PROVE  Requesting(job')
BY StepType DEF Requesting

(* Who a request is, by where it has come to. *)
LEMMA StagesOf ==
    ASSUME Requesting(job), NEW r \in Requests
    PROVE  /\ job[r].at \in Publishing => Finishing(r)
           /\ job[r].at = "removing" => ~Finishing(r) /\ job[r].previous # NoEntry
           /\ job[r].at \in Stage /\ job[r].previous \in Entry \cup {NoEntry}
BY DEF Requesting, Job

LEMMA FailsType ==
    ASSUME failures \in 0..MaxFailures, Fails \/ UNCHANGED failures
    PROVE  failures' \in 0..MaxFailures
BY ConstantsAssumption DEF Fails

LEMMA TypeParts ==
    TypeOK <=> /\ sequence \in Nat /\ plugins \in Listed!List /\ blobs \in SUBSET Entry
               /\ uploads \in [Uploads -> {"none", "open", "old", "deleted"}]
               /\ parts \in [Uploads -> SUBSET Parts] /\ sent \in [Uploads -> SUBSET Parts]
               /\ sending \in SUBSET (Uploads \X Parts)
               /\ failures \in 0..MaxFailures
               /\ Requesting(job)
BY DEF TypeOK, Requesting

LEMMA TypePartsNext ==
    TypeOK' <=> /\ sequence' \in Nat /\ plugins' \in Listed!List /\ blobs' \in SUBSET Entry
                /\ uploads' \in [Uploads -> {"none", "open", "old", "deleted"}]
                /\ parts' \in [Uploads -> SUBSET Parts] /\ sent' \in [Uploads -> SUBSET Parts]
                /\ sending' \in SUBSET (Uploads \X Parts)
                /\ failures' \in 0..MaxFailures
                /\ Requesting(job')
BY DEF TypeOK, Requesting

LEMMA NextType == TypeOK /\ [Next]_vars => TypeOK'
<1> SUFFICES ASSUME TypeOK, [Next]_vars PROVE TypeOK'
  OBVIOUS
<1> USE TypeParts, TypePartsNext DEF database, received
<1>1. ASSUME NEW u \in Uploads, BeginUpload(u) PROVE TypeOK'
  BY <1>1 DEF BeginUpload
<1>2. ASSUME NEW u \in Uploads, NEW k \in Parts, CheckPart(u, k) PROVE TypeOK'
  BY <1>2 DEF CheckPart
<1>3. ASSUME NEW u \in Uploads, NEW k \in Parts, PutPart(u, k) PROVE TypeOK'
  BY <1>3, FailsType DEF PutPart
<1>4. ASSUME NEW u \in Uploads, Expire(u) PROVE TypeOK'
  BY <1>4 DEF Expire
<1>5. ASSUME NEW r \in Requests, Finish(r) PROVE TypeOK'
  <2>1. \E s \in Stage \ {"removing"} : Step(r, s) /\ (s \in Publishing => Finishing(r))
    BY <1>5, StagesOf DEF Finish, Stage, Publishing
  <2> QED BY <1>5, <2>1, StepKeepsType DEF Finish
<1>6. ASSUME NEW r \in Requests, Assemble(r) PROVE TypeOK'
  <2>1. \E s \in Stage \ {"removing"} : Step(r, s) /\ (s \in Publishing => Finishing(r))
    BY <1>6, StagesOf DEF Assemble, Stage, Publishing
  <2> QED BY <1>6, <2>1, StepKeepsType DEF Assemble
<1>7. ASSUME NEW r \in Requests, ReadPrevious(r) PROVE TypeOK'
  <2> DEFINE e == plugins[Published(r).id]
  <2>1. PICK s \in {"clearing", "putting"} : job' = [job EXCEPT ![r] = [at |-> s, previous |-> e]]
    BY <1>7, StagesOf DEF ReadPrevious, Stage, Publishing
  <2>3. Finishing(r)
    BY <1>7, StagesOf DEF ReadPrevious, Publishing
  <2>2. e \in Entry \cup {NoEntry}
    BY <2>3, AskType, EntryFields, Listing
  <2>4. Requesting(job')
    BY <2>1, <2>2, <2>3 DEF Requesting, Job, Stage, Publishing
  <2> QED BY <1>7, <2>4 DEF ReadPrevious
<1>8. ASSUME NEW r \in Requests, PutBlob(r) PROVE TypeOK'
  <2>1. \E s \in Stage \ {"removing"} : Step(r, s) /\ (s \in Publishing => Finishing(r))
    BY <1>8, StagesOf DEF PutBlob, Stage, Publishing
  <2>2. blobs' \in SUBSET Entry
    BY <1>8, StagesOf, AskType DEF PutBlob, Publishing
  <2> QED BY <1>8, <2>1, <2>2, StepKeepsType, FailsType DEF PutBlob
<1>9. ASSUME NEW r \in Requests, WriteRow(r) PROVE TypeOK'
  <2>1. \E s \in Stage \ {"removing"} : Step(r, s) /\ (s \in Publishing => Finishing(r))
    BY <1>9, StagesOf DEF WriteRow, Stage, Publishing
  <2>2. plugins' \in Listed!List
    <3>1. Published(r) \in Entry /\ Published(r).id \in Ids
      BY <1>9, StagesOf, AskType, EntryFields DEF WriteRow, Publishing
    <3>2. plugins[Published(r).id] \in Entry \cup {NoEntry}
      BY <3>1, Listing
    <3> QED BY <1>9, <3>1, <3>2, ListWith, Listing DEF WriteRow
  <2> QED BY <1>9, <2>1, <2>2, StepKeepsType DEF WriteRow
<1>10. ASSUME NEW r \in Requests, UndoBlob(r) PROVE TypeOK'
  <2>1. \E s \in Stage \ {"removing"} : Step(r, s) /\ (s \in Publishing => Finishing(r))
    BY <1>10, StagesOf DEF UndoBlob, Stage, Publishing
  <2> QED BY <1>10, <2>1, StepKeepsType, FailsType DEF UndoBlob
<1>11. ASSUME NEW r \in Requests, DropPrevious(r) PROVE TypeOK'
  <2>1. \E s \in Stage \ {"removing"} : Step(r, s) /\ (s \in Publishing => Finishing(r))
    BY <1>11, StagesOf DEF DropPrevious, Stage, Publishing
  <2> QED BY <1>11, <2>1, StepKeepsType, FailsType DEF DropPrevious
<1>12. ASSUME NEW r \in Requests, Clear(r) PROVE TypeOK'
  <2>1. \E s \in Stage \ {"removing"} : Step(r, s) /\ (s \in Publishing => Finishing(r))
    BY <1>12, StagesOf DEF Clear, Stage, Publishing
  <2> QED BY <1>12, <2>1, StepKeepsType DEF Clear
<1>13. ASSUME NEW r \in Requests, ReadOffered(r) PROVE TypeOK'
  <2> DEFINE e == plugins[Asks[r].id]
  <2>1. e \in Entry \cup {NoEntry}
    BY <1>13, AskType, Listing DEF ReadOffered
  <2>2. Requesting(job')
    BY <1>13, <2>1 DEF ReadOffered, Requesting, Job, Stage, Publishing
  <2> QED BY <1>13, <2>2 DEF ReadOffered
<1>14. ASSUME NEW r \in Requests, RemoveRow(r) PROVE TypeOK'
  <2>1. \E s \in Stage \ {"removing"} : Step(r, s) /\ (s \in Publishing => Finishing(r))
    BY <1>14, StagesOf DEF RemoveRow, Stage, Publishing
  <2>2. plugins' \in Listed!List
    <3>1. Asks[r].id \in Ids
      BY <1>14, StagesOf, AskType DEF RemoveRow
    <3> QED BY <1>14, <3>1, ListWith, Listing DEF RemoveRow
  <2> QED BY <1>14, <2>1, <2>2, StepKeepsType DEF RemoveRow
<1>15. ASSUME NEW r \in Requests, End(r) PROVE TypeOK'
  <2>1. \E s \in Stage \ {"removing"} : Step(r, s) /\ (s \in Publishing => Finishing(r))
    BY <1>15, StagesOf DEF End, Stage, Publishing
  <2> QED BY <1>15, <2>1, StepKeepsType, FailsType DEF End
<1>16. CASE UNCHANGED vars
  BY <1>16 DEF vars
<1> QED BY <1>1, <1>2, <1>3, <1>4, <1>5, <1>6, <1>7, <1>8, <1>9, <1>10, <1>11, <1>12, <1>13,
           <1>14, <1>15, <1>16 DEF Next, Upload, Publish

(* Every variable keeps its type. *)
THEOREM TypeCorrect == Spec => []TypeOK
BY InitType, NextType, PTL DEF Spec

-----------------------------------------------------------------------------
(* The list. *)

LEMMA Restands ==
    ASSUME NEW l \in Listed!List
    PROVE  Listed!Stands(l, l)
BY DEF Listed!Stands

(* A row that is written or removed leaves every version that stays as it was. *)
LEMMA RowStands ==
    ASSUME NEW l \in Listed!List, NEW i \in Ids, NEW e,
           e # NoEntry /\ l[i] # NoEntry => l[i].version # e.version
    PROVE  Listed!Stands(l, [l EXCEPT ![i] = e])
<1> DEFINE m == [l EXCEPT ![i] = e]
<1> SUFFICES ASSUME NEW j \in Ids, l[j] # NoEntry, m[j] # NoEntry, l[j].version = m[j].version
             PROVE  l[j] = m[j]
  BY DEF Listed!Stands, NoEntry
<1>1. CASE j = i
  BY <1>1 DEF Listed!List
<1>2. CASE j # i
  BY <1>2 DEF Listed!List
<1> QED BY <1>1, <1>2

LEMMA InitLists == Init => Listed!Init
BY DEF Init

LEMMA NextLists == TypeOK /\ [Next]_vars => [Listed!Change]_(Listed!storeVars)
<1> SUFFICES ASSUME TypeOK, [Next]_vars
             PROVE  [Listed!Change]_(Listed!storeVars)
  OBVIOUS
<1>t. sequence \in Nat /\ plugins \in Listed!List /\ Requesting(job) /\ plugins' \in Listed!List
  BY NextType, TypeParts, TypePartsNext
<1> DEFINE Kept == UNCHANGED <<sequence, plugins>>
<1>1. ASSUME NEW u \in Uploads, Upload(u) PROVE Kept
  BY <1>1 DEF Upload, BeginUpload, CheckPart, PutPart, Expire, database
<1>2. ASSUME NEW r \in Requests, Publish(r), ~WriteRow(r) PROVE Kept
  BY <1>2 DEF Publish, Finish, Assemble, ReadPrevious, PutBlob, UndoBlob, DropPrevious, Clear,
              database
<1>3. ASSUME NEW r \in Requests, ReadOffered(r) \/ End(r) PROVE Kept
  BY <1>3 DEF ReadOffered, End, database
<1>4. ASSUME NEW r \in Requests, WriteRow(r) PROVE Listed!Change
  <2> DEFINE e == Published(r)
             w == IF plugins[e.id] = NoEntry \/ plugins[e.id].version # e.version
                  THEN e ELSE plugins[e.id]
  <2>1. e \in Entry /\ e.id \in Ids
    BY <1>t, <1>4, StagesOf, AskType, EntryFields DEF WriteRow, Publishing
  <2>2. sequence' = sequence + 1 /\ plugins' = [plugins EXCEPT ![e.id] = w]
    BY <1>4 DEF WriteRow
  <2>3. CASE plugins[e.id] = NoEntry \/ plugins[e.id].version # e.version
    <3>1. Listed!Stands(plugins, plugins')
      BY <1>t, <2>1, <2>2, <2>3, RowStands
    <3> QED BY <1>t, <2>2, <3>1 DEF Listed!Change
  <2>4. CASE ~(plugins[e.id] = NoEntry \/ plugins[e.id].version # e.version)
    <3>1. plugins' = plugins
      BY <1>t, <2>1, <2>2, <2>4 DEF Listed!List
    <3> QED BY <1>t, <2>2, <3>1, Restands DEF Listed!Change
  <2> QED BY <2>3, <2>4
<1>5. ASSUME NEW r \in Requests, RemoveRow(r) PROVE Listed!Change
  <2> DEFINE i == Asks[r].id
             applies == plugins[i] # NoEntry /\ plugins[i].file = job[r].previous.file
  <2>1. i \in Ids
    BY <1>t, <1>5, StagesOf, AskType DEF RemoveRow
  <2>2. /\ sequence' = sequence + 1
        /\ plugins' = [plugins EXCEPT ![i] = IF applies THEN NoEntry ELSE @]
    BY <1>5 DEF RemoveRow
  <2>3. CASE applies
    <3>1. Listed!Stands(plugins, plugins')
      BY <1>t, <2>1, <2>2, <2>3, RowStands
    <3> QED BY <1>t, <2>2, <3>1 DEF Listed!Change
  <2>4. CASE ~applies
    <3>1. plugins' = plugins
      BY <1>t, <2>1, <2>2, <2>4 DEF Listed!List
    <3> QED BY <1>t, <2>2, <3>1, Restands DEF Listed!Change
  <2> QED BY <2>3, <2>4
<1>6. CASE UNCHANGED vars
  BY <1>6 DEF vars, database, Listed!storeVars
<1> QED BY <1>1, <1>2, <1>3, <1>4, <1>5, <1>6 DEF Next, Publish, Listed!storeVars

(* The store's database keeps the numbered list it promises, whatever requests cross: the
   specification of the store implements that of the list. *)
THEOREM ListKept == Spec => KeepsTheList
<1>1. Init /\ []TypeOK /\ [][Next]_vars => Listed!Init /\ [][Listed!Change]_(Listed!storeVars)
  BY InitLists, NextLists, PTL
<1> QED BY <1>1, TypeCorrect, PTL DEF Spec, KeepsTheList, Listed!Spec

-----------------------------------------------------------------------------
(* The files. *)

(* No version of a plugin is published twice: the uploads put together different plugins,
   or different versions or bytes of one, and each is finished once. *)
PublishedOnce ==
    \A r, q \in Requests :
        Finishing(r) /\ Finishing(q) /\ Published(r) = Published(q) => r = q

Offered(e) == plugins[e.id] = e
(* The request that publishes an entry has written its row. *)
Written(e) == \E q \in Requests : /\ Finishing(q) /\ Published(q) = e
                                  /\ job[q].at \in {"dropping", "clearing", "answered"}

(* What is offered has its file because a file that is about to be deleted is not offered
   and will not be again, and what is about to be written has its file. *)
FileInv ==
    /\ \A e \in Entry : Offered(e) => e \in blobs /\ Written(e)
    /\ \A r \in Requests :
         /\ job[r].at = "writing"  => Published(r) \in blobs
         /\ job[r].at = "undoing"  => ~Offered(Published(r))
         /\ job[r].at = "dropping" /\ job[r].previous \in Entry => ~Offered(job[r].previous)
         /\ job[r].previous \in Entry =>
              /\ Written(job[r].previous)
              /\ job[r].previous.id = IF Finishing(r) THEN Published(r).id ELSE Asks[r].id

IInv == TypeOK /\ FileInv

LEMMA InitFiles == Init => FileInv
<1> SUFFICES ASSUME Init PROVE FileInv
  OBVIOUS
<1>1. \A e \in Entry : ~Offered(e)
  BY EntryFields, NoEntryIsNone DEF Init, Listed!Init, Offered, NoEntry
<1>2. \A r \in Requests : job[r].at = "idle" /\ job[r].previous \notin Entry
  BY NoEntryIsNone DEF Init
<1> QED BY <1>1, <1>2 DEF FileInv

(* A request that has written its row stays so. *)
LEMMA WrittenStays ==
    ASSUME NEW e,
           \A q \in Requests : \/ job'[q] = job[q]
                               \/ job[q].at = "dropping" /\ job'[q].at \in {"clearing", "answered"}
                               \/ job[q].at = "clearing" /\ job'[q].at = "answered"
                               \/ job[q].at \notin {"dropping", "clearing", "answered"},
           Written(e)
    PROVE  Written(e)'
BY DEF Written, Finishing, Published

(* A step that leaves the list and the files, and takes one request no further towards
   them. *)
LEMMA FilesKept ==
    ASSUME TypeOK, FileInv, UNCHANGED <<plugins, blobs>>, NEW r \in Requests,
           job'[r].previous = job[r].previous,
           job'[r].at \notin {"writing", "undoing", "dropping"},
           job[r].at \in {"dropping", "clearing", "answered"} =>
             job'[r].at \in {"clearing", "answered"},
           \A q \in Requests : q # r => job'[q] = job[q]
    PROVE  FileInv'
<1>1. \A e : Written(e) => Written(e)'
  BY WrittenStays DEF Written, Finishing, Published
<1>2. \A e : Offered(e)' <=> Offered(e)
  BY DEF Offered
<1> QED BY <1>1, <1>2 DEF FileInv, Finishing, Published

LEMMA NextFiles == PublishedOnce /\ IInv /\ [Next]_vars => FileInv'
<1> SUFFICES ASSUME PublishedOnce, TypeOK, FileInv, [Next]_vars PROVE FileInv'
  BY DEF IInv
<1>t. Requesting(job) /\ plugins \in Listed!List /\ job \in [Requests -> Job]
  BY TypeParts DEF Requesting
<1>1. ASSUME NEW u \in Uploads, Upload(u) PROVE FileInv'
  <2>1. UNCHANGED <<plugins, blobs, job>>
    BY <1>1 DEF Upload, BeginUpload, CheckPart, PutPart, Expire, database
  <2> QED BY <2>1 DEF FileInv, Offered, Written, Finishing, Published
<1>2. ASSUME NEW r \in Requests, NEW s \in {"assembling", "reading", "clearing", "answered"},
             Step(r, s), UNCHANGED <<plugins, blobs>>,
             job[r].at \notin {"dropping", "clearing"} \/ s \in {"clearing", "answered"},
             job[r].at # "answered"
      PROVE  FileInv'
  <2>1. s \in Stage
    BY DEF Stage, Publishing
  <2>2. /\ job'[r].at = s /\ job'[r].previous = job[r].previous
        /\ \A q \in Requests : q # r => job'[q] = job[q]
    BY <1>t, <1>2, <2>1, StepType
  <2> QED BY <1>2, <2>2, FilesKept
<1>3. ASSUME NEW r \in Requests, Finish(r) \/ Assemble(r) \/ Clear(r) \/ End(r) PROVE FileInv'
  <2>1. UNCHANGED <<plugins, blobs>>
    BY <1>3 DEF Finish, Assemble, Clear, End, database
  <2>2. job[r].at # "answered"
    BY <1>3 DEF Finish, Assemble, Clear, End
  <2>3. PICK s \in {"assembling", "reading", "clearing", "answered"} :
           Step(r, s) /\ (job[r].at \notin {"dropping", "clearing"} \/ s \in {"clearing", "answered"})
    BY <1>3 DEF Finish, Assemble, Clear, End
  <2> QED BY <1>2, <2>1, <2>2, <2>3
<1>4. ASSUME NEW r \in Requests, ReadPrevious(r) PROVE FileInv'
  <2> DEFINE p == plugins[Published(r).id]
  <2>1. Finishing(r) /\ Published(r) \in Entry /\ Published(r).id \in Ids
    BY <1>t, <1>4, StagesOf, AskType, EntryFields DEF ReadPrevious, Publishing
  <2>2. PICK s \in {"clearing", "putting"} : job' = [job EXCEPT ![r] = [at |-> s, previous |-> p]]
    BY <1>4 DEF ReadPrevious
  <2>3. /\ job'[r].at = s /\ job'[r].previous = p
        /\ \A q \in Requests : q # r => job'[q] = job[q]
    BY <1>t, <2>2
  <2>4. \A e : Written(e) => Written(e)'
    BY <1>4, <2>3, WrittenStays DEF ReadPrevious
  <2>5. p \in Entry => Written(p) /\ p.id = Published(r).id
    <3>1. p \in Entry => p.id = Published(r).id
      BY <1>t, <2>1, Listing, NoEntryIsNone
    <3> QED BY <3>1 DEF FileInv, Offered
  <2>6. UNCHANGED <<plugins, blobs>>
    BY <1>4 DEF ReadPrevious, database
  <2>7. \A e : Offered(e)' <=> Offered(e)
    BY <2>6 DEF Offered
  <2> QED BY <2>1, <2>3, <2>4, <2>5, <2>6, <2>7 DEF FileInv, Finishing, Published
<1>5. ASSUME NEW r \in Requests, ReadOffered(r) PROVE FileInv'
  <2> DEFINE p == plugins[Asks[r].id]
  <2>1. ~Finishing(r) /\ Asks[r].id \in Ids
    BY <1>5, AskType DEF ReadOffered
  <2>2. PICK s \in {"answered", "removing"} : job' = [job EXCEPT ![r] = [at |-> s, previous |-> p]]
    BY <1>5 DEF ReadOffered
  <2>3. /\ job'[r].at = s /\ job'[r].previous = p
        /\ \A q \in Requests : q # r => job'[q] = job[q]
    BY <1>t, <2>2
  <2>4. \A e : Written(e) => Written(e)'
    BY <1>5, <2>3, WrittenStays DEF ReadOffered
  <2>5. p \in Entry => Written(p) /\ p.id = Asks[r].id
    <3>1. p \in Entry => p.id = Asks[r].id
      BY <1>t, <2>1, Listing, NoEntryIsNone
    <3> QED BY <3>1 DEF FileInv, Offered
  <2>6. UNCHANGED <<plugins, blobs>>
    BY <1>5 DEF ReadOffered, database
  <2>7. \A e : Offered(e)' <=> Offered(e)
    BY <2>6 DEF Offered
  <2> QED BY <2>1, <2>3, <2>4, <2>5, <2>6, <2>7 DEF FileInv, Finishing, Published
<1>6. ASSUME NEW r \in Requests, PutBlob(r) PROVE FileInv'
  <2>1. CASE blobs' = blobs \cup {Published(r)} /\ Step(r, "writing")
    <3>1. /\ job'[r].at = "writing" /\ job'[r].previous = job[r].previous
          /\ \A q \in Requests : q # r => job'[q] = job[q]
      BY <1>t, <2>1, StepType DEF Stage, Publishing
    <3>2. \A e : Written(e) => Written(e)'
      BY <1>6, <3>1, WrittenStays DEF PutBlob
    <3>3. \A e : Offered(e)' <=> Offered(e)
      BY <1>6 DEF Offered, PutBlob, database
    <3> QED BY <2>1, <3>1, <3>2, <3>3 DEF FileInv, Finishing, Published
  <2>2. CASE Step(r, "clearing") /\ UNCHANGED blobs
    BY <1>2, <1>6, <2>2 DEF PutBlob, database
  <2> QED BY <1>6, <2>1, <2>2 DEF PutBlob
<1>7. ASSUME NEW r \in Requests, WriteRow(r) PROVE FileInv'
  <2> DEFINE e == Published(r)
             applies == plugins[e.id] = NoEntry \/ plugins[e.id].version # e.version
  <2>1. Finishing(r) /\ e \in Entry /\ e.id \in Ids
    BY <1>t, <1>7, StagesOf, AskType, EntryFields DEF WriteRow, Publishing
  <2>2. ~Written(e)
    BY <1>7, <2>1 DEF Written, WriteRow, PublishedOnce
  <2>3. e \in blobs /\ ~Offered(e)
    BY <1>7, <2>1, <2>2 DEF FileInv, WriteRow
  <2>4. /\ job'[r].at = (IF applies THEN "dropping" ELSE "undoing")
        /\ job'[r].previous = job[r].previous
        /\ \A q \in Requests : q # r => job'[q] = job[q]
    BY <1>t, <1>7, StepType DEF WriteRow, Stage, Publishing
  <2>5. \A f : Written(f) => Written(f)'
    BY <1>7, <2>4, WrittenStays DEF WriteRow
  <2>6. blobs' = blobs /\ plugins' = [plugins EXCEPT ![e.id] = IF applies THEN e ELSE @]
    BY <1>7 DEF WriteRow
  <2>7. CASE applies
    <3> DEFINE Now(f) == plugins'[f.id] = f
    <3>1. Written(e)'
      BY <2>1, <2>4, <2>7 DEF Written, Finishing, Published
    <3>2. \A f \in Entry : Now(f) => f = e \/ Offered(f)
      BY <1>t, <2>1, <2>6, <2>7, EntryFields DEF Offered, Listed!List
    <3>3. \A f \in Entry : f.id = e.id /\ f # e => ~Now(f)
      BY <1>t, <2>1, <2>6, <2>7, EntryFields DEF Offered, Listed!List
    <3>4. \A q \in Requests : job[q].previous \in Entry => job[q].previous # e
      BY <2>2 DEF FileInv
    <3>5. \A q \in Requests : job[q].at = "undoing" => Published(q) # e /\ Published(q) \in Entry
      BY <1>t, <1>7, <2>1, StagesOf, AskType DEF PublishedOnce, WriteRow, Publishing
    <3>6. \A f \in Entry : Now(f) => f \in blobs' /\ Written(f)'
      BY <2>3, <2>5, <2>6, <3>1, <3>2 DEF FileInv
    <3>7. ASSUME NEW q \in Requests, q # r
          PROVE  /\ job'[q].at = "writing" => Published(q) \in blobs'
                 /\ job'[q].at = "undoing" => ~Now(Published(q))
                 /\ job'[q].at = "dropping" /\ job'[q].previous \in Entry
                      => ~Now(job'[q].previous)
      BY <2>4, <2>6, <3>2, <3>4, <3>5, <3>7 DEF FileInv
    <3>8. job[r].previous \in Entry => ~Now(job[r].previous)
      BY <2>1, <3>3, <3>4 DEF FileInv
    <3>9. ASSUME NEW q \in Requests, job'[q].previous \in Entry
          PROVE  /\ Written(job[q].previous)
                 /\ job'[q].previous = job[q].previous
                 /\ job'[q].previous.id = IF Finishing(q) THEN Published(q).id ELSE Asks[q].id
      BY <2>4, <3>9 DEF FileInv
    <3>10. \A f : Offered(f)' <=> Now(f)
      BY DEF Offered
    <3>11. (\A q \in Requests : job[q].previous \in Entry => Written(job[q].previous))'
      <4> SUFFICES ASSUME NEW q \in Requests, job'[q].previous \in Entry
                   PROVE  Written(job[q].previous)'
        OBVIOUS
      <4>1. PICK p \in Requests : /\ Finishing(p) /\ Published(p) = job[q].previous
                                  /\ job[p].at \in {"dropping", "clearing", "answered"}
        BY <3>9 DEF Written
      <4>2. job'[p] = job[p]
        BY <1>7, <2>4, <4>1 DEF WriteRow
      <4> QED BY <3>9, <4>1, <4>2 DEF Written, Finishing, Published
    <3> HIDE DEF Now
    <3> QED BY <2>4, <2>7, <3>6, <3>7, <3>8, <3>9, <3>10, <3>11
            DEF FileInv, Finishing, Published
  <2>8. CASE ~applies
    <3>1. plugins' = plugins
      BY <1>t, <2>1, <2>6, <2>8 DEF Listed!List
    <3>2. \A f : Offered(f)' <=> Offered(f)
      BY <3>1 DEF Offered
    <3> QED BY <2>3, <2>4, <2>5, <2>6, <2>8, <3>1, <3>2 DEF FileInv, Finishing, Published
  <2> QED BY <2>7, <2>8
<1>8. ASSUME NEW r \in Requests, UndoBlob(r) PROVE FileInv'
  <2> DEFINE e == Published(r)
  <2>1. Finishing(r) /\ e \in Entry
    BY <1>t, <1>8, StagesOf, AskType DEF UndoBlob, Publishing
  <2>2. /\ job'[r].at = "clearing" /\ job'[r].previous = job[r].previous
        /\ \A q \in Requests : q # r => job'[q] = job[q]
    BY <1>t, <1>8, StepType DEF UndoBlob, Stage, Publishing
  <2>3. \A f : Written(f) => Written(f)'
    BY <1>8, <2>2, WrittenStays DEF UndoBlob
  <2>4. plugins' = plugins /\ \A f : f # e /\ f \in blobs => f \in blobs'
    BY <1>8 DEF UndoBlob, database
  <2>5. ~Offered(e)
    BY <1>8, <2>1 DEF FileInv, UndoBlob
  <2>6. \A q \in Requests : job[q].at = "writing" => Published(q) # e
    BY <1>t, <1>8, <2>1, StagesOf DEF PublishedOnce, UndoBlob, Publishing
  <2>7. \A f : Offered(f)' <=> Offered(f)
    BY <2>4 DEF Offered
  <2> QED BY <2>2, <2>3, <2>4, <2>5, <2>6, <2>7 DEF FileInv, Finishing, Published
<1>9. ASSUME NEW r \in Requests, DropPrevious(r) PROVE FileInv'
  <2> DEFINE p == job[r].previous
  <2>1. PICK s \in {"clearing", "answered"} : Step(r, s)
    BY <1>9 DEF DropPrevious
  <2>2. /\ job'[r].at = s /\ job'[r].previous = job[r].previous
        /\ \A q \in Requests : q # r => job'[q] = job[q]
    BY <1>t, <2>1, StepType DEF Stage, Publishing
  <2>3. \A f : Written(f) => Written(f)'
    BY <1>9, <2>2, WrittenStays DEF DropPrevious
  <2>4. plugins' = plugins /\ \A f \in Entry : f # p /\ f \in blobs => f \in blobs'
    BY <1>9 DEF DropPrevious, database
  <2>5. p \in Entry => ~Offered(p) /\ Written(p)
    BY <1>9 DEF FileInv, DropPrevious
  <2>6. \A q \in Requests : job[q].at = "writing" => Published(q) # p /\ Published(q) \in Entry
    <3> SUFFICES ASSUME NEW q \in Requests, job[q].at = "writing"
                 PROVE  Published(q) # p /\ Published(q) \in Entry
      OBVIOUS
    <3>1. Finishing(q) /\ Published(q) \in Entry
      BY <1>t, StagesOf, AskType DEF Publishing
    <3>2. ~Written(Published(q))
      BY <3>1 DEF Written, PublishedOnce
    <3> QED BY <2>5, <3>1, <3>2
  <2>7. \A f : Offered(f)' <=> Offered(f)
    BY <2>4 DEF Offered
  <2> QED BY <2>2, <2>3, <2>4, <2>5, <2>6, <2>7 DEF FileInv, Finishing, Published
<1>10. ASSUME NEW r \in Requests, RemoveRow(r) PROVE FileInv'
  <2> DEFINE i == Asks[r].id
             applies == plugins[i] # NoEntry /\ plugins[i].file = job[r].previous.file
  <2>1. ~Finishing(r) /\ i \in Ids
    BY <1>t, <1>10, StagesOf, AskType DEF RemoveRow
  <2>2. /\ job'[r].at = (IF applies THEN "dropping" ELSE "answered")
        /\ job'[r].previous = job[r].previous
        /\ \A q \in Requests : q # r => job'[q] = job[q]
    BY <1>t, <1>10, StepType DEF RemoveRow, Stage, Publishing
  <2>3. \A f : Written(f) => Written(f)'
    BY <1>10, <2>2, WrittenStays DEF RemoveRow
  <2>4. blobs' = blobs /\ plugins' = [plugins EXCEPT ![i] = IF applies THEN NoEntry ELSE @]
    BY <1>10 DEF RemoveRow
  <2>5. \A f \in Entry : Offered(f)' => Offered(f)
    BY <1>t, <2>1, <2>4, EntryFields, NoEntryIsNone DEF Offered, Listed!List
  <2>6. applies => \A f \in Entry : f.id = i => ~Offered(f)'
    BY <1>t, <2>1, <2>4, NoEntryIsNone DEF Offered, Listed!List
  <2>7. job[r].previous \in Entry => job[r].previous.id = i
    BY <2>1 DEF FileInv
  <2>8. \A q \in Requests : job[q].at = "undoing" => Published(q) \in Entry
    BY <1>t, StagesOf, AskType DEF Publishing
  <2> QED BY <2>2, <2>3, <2>4, <2>5, <2>6, <2>7, <2>8 DEF FileInv, Finishing, Published
<1>11. CASE UNCHANGED vars
  <2>1. UNCHANGED <<plugins, blobs, job>>
    BY <1>11 DEF vars
  <2> QED BY <2>1 DEF FileInv, Offered, Written, Finishing, Published
<1> QED BY <1>1, <1>3, <1>4, <1>5, <1>6, <1>7, <1>8, <1>9, <1>10, <1>11 DEF Next, Publish

(* What the list offers can be downloaded, whatever requests cross and wherever one ends, as
   long as no version of a plugin is published twice. *)
THEOREM OfferedCanBeDownloaded ==
    ASSUME PublishedOnce
    PROVE  Spec => []OfferedHasBytes
<1>1. Init => IInv
  BY InitType, InitFiles DEF IInv
<1>2. IInv /\ [Next]_vars => IInv'
  BY NextType, NextFiles DEF IInv
<1>3. IInv => OfferedHasBytes
  <2> SUFFICES ASSUME IInv, NEW i \in Ids, plugins[i] # NoEntry
               PROVE  plugins[i] \in blobs
    BY DEF OfferedHasBytes
  <2>1. plugins[i] \in Entry /\ plugins[i].id = i
    BY Listing, TypeParts DEF IInv
  <2> QED BY <2>1 DEF IInv, FileInv, Offered
<1> QED BY <1>1, <1>2, <1>3, PTL DEF Spec
=============================================================================
