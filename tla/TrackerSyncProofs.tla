-------------------------- MODULE TrackerSyncProofs --------------------------
(***************************************************************************)
(* Theorems of TrackerSync, for every set of trackers, titles, accounts    *)
(* and drains, and every bound.                                            *)
(***************************************************************************)
EXTENDS TrackerSync, FiniteSetTheorems, WellFoundedInduction, TLAPS

-----------------------------------------------------------------------------
(* What the operators return. *)

(* The highest episode of a set is one of 0..MaxEpisode, and no higher than that of a
   set that reaches as far. *)
LEMMA ReachedType ==
    ASSUME NEW S
    PROVE  /\ Reached(S) \in 0..MaxEpisode
           /\ Reached(S) \in Nat
<1> DEFINE N == {n \in Episodes : \E e \in S : n <= e}
<1>1. IsFiniteSet(1..MaxEpisode) /\ Cardinality(1..MaxEpisode) = MaxEpisode
  <2>1. MaxEpisode \in Nat /\ MaxEpisode \in Int /\ 1 \in Int
    BY ConstantsAssumption
  <2> QED BY <2>1, FS_Interval
<1>2. N \in SUBSET (1..MaxEpisode)
  BY DEF Episodes
<1>3. IsFiniteSet(N) /\ Cardinality(N) <= MaxEpisode
  BY <1>1, <1>2, FS_Subset
<1>4. Cardinality(N) \in Nat
  BY <1>3, FS_CardinalityType
<1> QED BY <1>3, <1>4, ConstantsAssumption DEF Reached

LEMMA ReachedMonotone ==
    ASSUME NEW S \in SUBSET Nat, NEW T \in SUBSET Nat,
           \A e \in S : \E f \in T : e <= f
    PROVE  Reached(S) <= Reached(T)
<1> DEFINE N(U) == {n \in Episodes : \E e \in U : n <= e}
<1>1. IsFiniteSet(1..MaxEpisode)
  <2>1. MaxEpisode \in Int /\ 1 \in Int
    BY ConstantsAssumption
  <2> QED BY <2>1, FS_Interval
<1>2. N(T) \in SUBSET (1..MaxEpisode)
  BY DEF Episodes
<1>3. N(S) \in SUBSET N(T)
  BY DEF Episodes
<1>4. IsFiniteSet(N(T))
  BY <1>1, <1>2, FS_Subset
<1>5. Cardinality(N(S)) <= Cardinality(N(T))
  BY <1>3, <1>4, FS_Subset
<1> QED BY <1>5 DEF Reached

(* What is queued for a title is an episode number. *)
LEMMA PendingType ==
    ASSUME NEW rows, NEW x
    PROVE  Pending(rows, x) \in Nat /\ Pending(rows, x) \in 0..MaxEpisode
BY ReachedType DEF Pending

(* A nonempty set of naturals has a least one. *)
LessThan == {p \in Nat \X Nat : p[1] < p[2]}

LEMMA LessThanWellFounded == IsWellFoundedOn(LessThan, Nat)
BY NatLessThanWellFounded DEF OpToRel, LessThan

LEMMA LeastNatural ==
    ASSUME NEW T \in SUBSET Nat, T # {}
    PROVE  \E m \in T : \A n \in T : m <= n
<1>1. \E m \in T : \A n \in T : ~(<<n, m>> \in LessThan)
  BY LessThanWellFounded, WFMin
<1>2. PICK m \in T : \A n \in T : ~(<<n, m>> \in LessThan)
  BY <1>1
<1>3. ASSUME NEW n \in T PROVE m <= n
  <2>1. CASE n < m
    <3>1. <<n, m>> \in LessThan
      BY <2>1 DEF LessThan
    <3> QED BY <1>2, <3>1
  <2> QED BY <2>1
<1> QED BY <1>3

(* Among status rows one was queued last. *)
LEMMA NewestStatusType ==
    ASSUME NEW batch \in SUBSET Row, NEW x, StatusRows(batch, x) # {}
    PROVE  NewestStatus(batch, x) \in StatusRows(batch, x)
<1> DEFINE S == StatusRows(batch, x)
           Below == {MaxId - r.id : r \in S}
<1>1. S \subseteq Row
  BY DEF StatusRows
<1>2. \A r \in S : r.id \in 1..MaxId
  BY <1>1 DEF Row, RowIds
<1>3. Below \subseteq Nat /\ Below # {}
  BY <1>2, ConstantsAssumption
<1>4. PICK m \in Below : \A n \in Below : m <= n
  BY <1>3, LeastNatural
<1>5. PICK r \in S : m = MaxId - r.id
  BY <1>4
<1>6. ASSUME NEW q \in S PROVE q.id <= r.id
  <2>1. m <= MaxId - q.id
    BY <1>4
  <2>2. q.id \in 1..MaxId /\ r.id \in 1..MaxId
    BY <1>2
  <2> QED BY <1>5, <2>1, <2>2, ConstantsAssumption
<1>7. \E s \in StatusRows(batch, x) : \A q \in StatusRows(batch, x) : q.id <= s.id
  BY <1>6
<1> QED BY <1>7 DEF NewestStatus

(* Rows stay rows, whatever the queue does to them. *)
LEMMA NewRowType ==
    ASSUME NEW i \in RowIds, NEW x \in Titles, NEW op \in {"progress", "status"}, NEW v \in Nat
    PROVE  NewRow(i, x, op, v) \in Row
BY ConstantsAssumption DEF NewRow, Row

LEMMA EnqueueType ==
    ASSUME NEW rows \in SUBSET Row, NEW i \in RowIds, NEW x \in Titles, NEW v \in Nat
    PROVE  /\ EnqueueProgress(rows, i, x, v) \in SUBSET Row
           /\ EnqueueStatus(rows, i, x, v) \in SUBSET Row
<1>1. EnqueueStatus(rows, i, x, v) \in SUBSET Row
  BY NewRowType DEF EnqueueStatus
<1>2. rows \cup {NewRow(i, x, "progress", v)} \in SUBSET Row
  BY NewRowType
<1>3. \A r \in rows : [r EXCEPT !.value = v] \in Row
  BY DEF Row
<1> QED BY <1>1, <1>2, <1>3 DEF EnqueueProgress

LEMMA WaitType ==
    ASSUME NEW rows \in SUBSET Row
    PROVE  /\ \A held : Deferred(rows, held) \in SUBSET Row
           /\ Woken(rows) \in SUBSET Row
           /\ \A r \in rows : [r EXCEPT !.wait = "due"] \in Row
<1>1. \A r \in rows : /\ [r EXCEPT !.wait = "due"] \in Row
                      /\ Held(r) \in Row
  BY DEF Row, Held
<1> QED BY <1>1 DEF Deferred, Woken

LEMMA FailedRowsType ==
    ASSUME NEW rows \in SUBSET Row, NEW batch
    PROVE  FailedRows(rows, batch) \in SUBSET Row
<1>1. ASSUME NEW r \in rows \ GivenUp(rows, batch), r.id \in IdsOf(batch)
      PROVE  Retried(r) \in Row
  <2>1. r \in Row /\ ~(r.attempts + 1 >= MaxAttempts)
    BY <1>1 DEF GivenUp
  <2>2. r.attempts \in 0..(MaxAttempts - 1)
    BY <2>1 DEF Row
  <2>3. r.attempts + 1 \in 0..(MaxAttempts - 1)
    BY <2>1, <2>2, ConstantsAssumption
  <2> QED BY <2>1, <2>3 DEF Row, Retried
<1> QED BY <1>1 DEF FailedRows

LEMMA RememberedType ==
    ASSUME NEW memory \in [Titles -> Nat], NEW batch
    PROVE  Remembered(memory, batch) \in [Titles -> Nat]
BY PendingType DEF Remembered, Larger

(* A taken request leaves an entry. *)
LEMMA SavedType ==
    ASSUME NEW entry \in Entry, NEW batch \in SUBSET Row, NEW x
    PROVE  Saved(entry, batch, x) \in Entry
<1>1. Pending(batch, x) \in Figures /\ Larger(entry.progress, 0) \in Figures
  BY PendingType, ConstantsAssumption DEF Figures, Unlisted, Entry, Larger
<1>2. CASE StatusRows(batch, x) = {}
  BY <1>1, <1>2 DEF Saved, Entry
<1>3. CASE StatusRows(batch, x) # {}
  <2>1. NewestStatus(batch, x) \in Row
    BY <1>3, NewestStatusType DEF StatusRows
  <2>2. NewestStatus(batch, x).value \in Nat
    BY <2>1 DEF Row
  <2> QED BY <1>1, <1>3, <2>2 DEF Saved, Entry
<1> QED BY <1>2, <1>3

(* What a merge pushes is queued as a natural, what it adopts are episodes. *)
LEMMA MergeType ==
    ASSUME NEW eps, NEW rows, NEW x, NEW sent \in Nat, NEW seen \in Figures
    PROVE  /\ MergePush(Reached(eps), Pending(rows, x), sent, seen) \in Nat
           /\ 1..MergeAdopt(Reached(eps), Pending(rows, x), seen) \subseteq Episodes
<1>1. Reached(eps) \in Nat /\ Pending(rows, x) \in Nat
  BY ReachedType, PendingType
<1>2. MergeAdopt(Reached(eps), Pending(rows, x), seen) \in 0..MaxEpisode
  BY <1>1, ConstantsAssumption DEF MergeAdopt, Figures, Unlisted, Larger
<1> QED BY <1>1, <1>2, ConstantsAssumption DEF MergePush, Larger, Episodes

-----------------------------------------------------------------------------
(* Type correctness. *)

(* A queue to which progress or a status edit is added stays a set of rows. *)
LEMMA QueueProgressForType ==
    ASSUME TypeOK, NEW ts, NEW x \in Titles, NEW eps, QueueProgressFor(ts, x, eps)
    PROVE  outbox' \in [Trackers -> SUBSET Row]
<1>1. PICK ids \in NewIds :
         outbox' = [t \in Trackers |->
                     IF t \in ts /\ Reached(eps) > 0
                     THEN EnqueueProgress(outbox[t], ids[t], x, Reached(eps))
                     ELSE outbox[t]]
  BY DEF QueueProgressFor
<1>2. ASSUME NEW t \in Trackers
      PROVE  /\ outbox[t] \in SUBSET Row
             /\ EnqueueProgress(outbox[t], ids[t], x, Reached(eps)) \in SUBSET Row
  <2>1. ids[t] \in RowIds /\ outbox[t] \in SUBSET Row
    BY DEF NewIds, TypeOK
  <2> QED BY <2>1, EnqueueType, ReachedType
<1> QED BY <1>1, <1>2

(* Every state the sync can reach has the types declared. *)
THEOREM TypeCorrect == Spec => []TypeOK
<1>1. Init => TypeOK
  BY ConstantsAssumption
     DEF Init, TypeOK, Forgotten, Push, Idle, Pull, NoPull, Entry, Figures, Unlisted
<1>2. TypeOK /\ [Next]_vars => TypeOK'
  <2> SUFFICES ASSUME TypeOK, [Next]_vars PROVE TypeOK'
    OBVIOUS
  <2> USE DEF TypeOK
  <2>1. CASE UNCHANGED vars
    BY <2>1 DEF vars, local, queue, session, world
  <2>2. ASSUME NEW x \in Titles, StartPlayback(x) PROVE TypeOK'
    BY <2>2 DEF StartPlayback, SignedIn, queue, session, world
  <2>3. ASSUME NEW e \in Episodes, CommitEpisode(e) PROVE TypeOK'
    <3>1. playing.title \in Titles
      BY <2>3 DEF CommitEpisode
    <3>2. outbox' \in [Trackers -> SUBSET Row]
      BY <2>3, <3>1, QueueProgressForType DEF CommitEpisode
    <3>3. watched' \in [Titles -> SUBSET Episodes]
      BY <2>3, <3>1 DEF CommitEpisode
    <3> QED BY <2>3, <3>2, <3>3 DEF CommitEpisode, session, world
  <2>4. CASE AbandonPlayback
    BY <2>4 DEF AbandonPlayback, queue, session, world
  <2>5. ASSUME NEW x \in Titles, NEW e \in Episodes, MarkWatched(x, e) PROVE TypeOK'
    <3>1. outbox' \in [Trackers -> SUBSET Row]
      BY <2>5, QueueProgressForType DEF MarkWatched
    <3>2. watched' \in [Titles -> SUBSET Episodes]
      BY <2>5 DEF MarkWatched
    <3> QED BY <2>5, <3>1, <3>2 DEF MarkWatched, session, world
  <2>6. ASSUME NEW x \in Titles, NEW e \in Episodes, Unmark(x, e) PROVE TypeOK'
    BY <2>6 DEF Unmark, queue, session, world
  <2>7. ASSUME NEW x \in Titles, SetStatus(x) PROVE TypeOK'
    <3>1. PICK ids \in NewIds :
            outbox' = [t \in Trackers |->
                         IF t \in SignedIn
                         THEN EnqueueStatus(outbox[t], ids[t], x, edits + 1) ELSE outbox[t]]
      BY <2>7 DEF SetStatus
    <3>2. edits + 1 \in 0..MaxEdits /\ edits + 1 \in Nat
      BY <2>7, ConstantsAssumption DEF SetStatus
    <3>3. ASSUME NEW t \in Trackers
          PROVE  EnqueueStatus(outbox[t], ids[t], x, edits + 1) \in SUBSET Row
      <4>1. ids[t] \in RowIds /\ outbox[t] \in SUBSET Row
        BY DEF NewIds
      <4> QED BY <3>2, <4>1, EnqueueType
    <3>4. outbox' \in [Trackers -> SUBSET Row]
      BY <3>1, <3>3
    <3> QED BY <2>7, <3>2, <3>4 DEF SetStatus, session, world
  <2>8. ASSUME NEW t \in Trackers, NEW a \in Accounts, SignIn(t, a) PROVE TypeOK'
    <3>1. Forgotten \in [Titles -> Nat]
      BY DEF Forgotten
    <3> QED BY <2>8, <3>1 DEF SignIn, local, world
  <2>9. ASSUME NEW t \in Trackers, SignOut(t) PROVE TypeOK'
    <3>1. Forgotten \in [Titles -> Nat]
      BY DEF Forgotten
    <3> QED BY <2>9, <3>1 DEF SignOut, local, world
  <2>10. ASSUME NEW t \in Trackers, NEW a \in Accounts, NEW x \in Titles, NEW e \in Elsewhere,
                WatchElsewhere(t, a, x, e)
         PROVE  TypeOK'
    <3>1. e \in Figures
      BY ConstantsAssumption DEF Figures
    <3>2. [remote[t][a][x] EXCEPT !.progress = e] \in Entry
      <4>1. remote[t][a][x] \in Entry
        OBVIOUS
      <4> QED BY <3>1, <4>1 DEF Entry
    <3>3. remote' \in [Trackers -> [Accounts -> [Titles -> Entry]]]
      BY <2>10, <3>2 DEF WatchElsewhere
    <3> QED BY <2>10, <3>3 DEF WatchElsewhere, local, queue, session
  <2>11. CASE Restart
    BY <2>11 DEF Restart, Idle, Push, NoPull, Pull, Figures, queue, session, world
  <2>12. ASSUME NEW t \in Trackers, NEW k \in Tasks, StartDrain(t, k) PROVE TypeOK'
    <3> DEFINE claimed  == Claimed(outbox[t])
               sendable == {r \in claimed : r.title \in mapped[t]}
               begun    == [batch  |-> sendable,
                            unsent |-> TitlesOf(sendable),
                            cred   |-> account[t]]
    <3>1. outbox[t] \in SUBSET Row /\ claimed \in SUBSET Row /\ sendable \in SUBSET Row
      BY DEF Claimed, Due
    <3>2. outbox' \in [Trackers -> SUBSET Row]
      BY <2>12, <3>1, WaitType DEF StartDrain
    <3>3. TitlesOf(sendable) \in SUBSET Titles
      BY <3>1 DEF TitlesOf, Row
    <3>4. begun \in Push /\ Idle \in Push
      BY <3>1, <3>3 DEF Push, Idle
    <3>5. task' = [task EXCEPT ![t][k] = IF sendable = {} THEN Idle ELSE begun]
      BY <2>12 DEF StartDrain
    <3>6. task' \in [Trackers -> [Tasks -> Push]]
      BY <3>4, <3>5
    <3> QED BY <2>12, <3>2, <3>6 DEF StartDrain, local, session, world
  <2>13. ASSUME NEW t \in Trackers, NEW k \in Tasks, NEW x \in Titles, Send(t, k, x)
         PROVE  TypeOK'
    <3> DEFINE batch == task[t][k].batch
    <3>1. task[t][k] \in Push /\ batch \in SUBSET Row
      BY DEF Push
    <3>2. [task[t][k] EXCEPT !.unsent = @ \ {x}] \in Push
      BY <3>1 DEF Push
    <3>3. task' \in [Trackers -> [Tasks -> Push]]
      BY <2>13, <3>2 DEF Send
    <3>4. ASSUME NEW a \in Accounts PROVE Saved(remote[t][a][x], batch, x) \in Entry
      BY <3>1, SavedType
    <3>5. {task[t][k].cred, account[t]} \ {NoAccount} \subseteq Accounts
      BY <3>1 DEF Push
    <3>6. remote' \in [Trackers -> [Accounts -> [Titles -> Entry]]]
      <4>1. PICK a \in Accounts :
               remote' = IF x \in mapped[t] \cap catalogue[t]
                         THEN [remote EXCEPT ![t][a][x] = Saved(@, batch, x)]
                         ELSE remote
        BY <2>13, <3>5 DEF Send
      <4> QED BY <3>4, <4>1
    <3>7. heard' \in [Trackers -> [progress : [Titles -> Nat], edits : SUBSET Nat]]
      <4>1. {r.value : r \in StatusRows(batch, x)} \in SUBSET Nat
        BY <3>1 DEF StatusRows, Row
      <4>2. Larger(heard[t].progress[x], Pending(batch, x)) \in Nat
        BY PendingType DEF Larger
      <4>3. Told(heard[t], batch, x) \in [progress : [Titles -> Nat], edits : SUBSET Nat]
        BY <4>1, <4>2 DEF Told
      <4>4. heard' = heard \/ heard' = [heard EXCEPT ![t] = Told(heard[t], batch, x)]
        BY <2>13 DEF Send
      <4> QED BY <4>3, <4>4
    <3> QED BY <2>13, <3>3, <3>6, <3>7 DEF Send, local, queue, session
  <2>14. ASSUME NEW t \in Trackers, NEW k \in Tasks, PushOk(t, k) PROVE TypeOK'
    <3>1. Idle \in Push
      BY DEF Idle, Push
    <3>2. Remembered(pushed[t], task[t][k].batch) \in [Titles -> Nat]
      BY RememberedType
    <3>3. Completed(outbox[t], task[t][k].batch) \in SUBSET Row
      BY DEF Completed
    <3> QED BY <2>14, <3>1, <3>2, <3>3 DEF PushOk, local, session, world
  <2>15. ASSUME NEW t \in Trackers, NEW k \in Tasks, PushFailed(t, k) PROVE TypeOK'
    <3>1. Idle \in Push
      BY DEF Idle, Push
    <3>2. FailedRows(outbox[t], task[t][k].batch) \in SUBSET Row
      BY FailedRowsType
    <3> QED BY <2>15, <3>1, <3>2 DEF PushFailed, local, session, world
  <2>16. ASSUME NEW t \in Trackers, NEW k \in Tasks, PushRejected(t, k) PROVE TypeOK'
    <3>1. Idle \in Push
      BY DEF Idle, Push
    <3> QED BY <2>16, <3>1 DEF PushRejected, local, session, world
  <2>17. ASSUME NEW t \in Trackers, FetchLibrary(t) PROVE TypeOK'
    <3> DEFINE fetched ==
          [todo |-> {x \in Titles : remote[t][account[t]][x].progress # Unlisted},
           seen |-> [x \in Titles |-> remote[t][account[t]][x].progress]]
    <3>1. account[t] \in Accounts
      BY <2>17 DEF FetchLibrary
    <3>2. fetched \in Pull
      BY <3>1 DEF Pull, Entry
    <3>3. pull' \in [Trackers -> Pull]
      BY <2>17, <3>2 DEF FetchLibrary
    <3> QED BY <2>17, <3>3 DEF FetchLibrary, local, queue, session, world
  <2>18. ASSUME NEW t \in Trackers, NEW x \in Titles, MergeEntry(t, x) PROVE TypeOK'
    <3> DEFINE reached == Reached(watched[x])
               pending == Pending(outbox[t], x)
               seen    == pull[t].seen[x]
               send    == MergePush(reached, pending, pushed[t][x], seen)
               adopt   == MergeAdopt(reached, pending, seen)
    <3>1. pull[t] \in Pull /\ seen \in Figures /\ pushed[t][x] \in Nat
      BY DEF Pull
    <3>2. send \in Nat /\ 1..adopt \subseteq Episodes
      BY <3>1, MergeType
    <3>3. watched' \in [Titles -> SUBSET Episodes]
      <4>1. watched' = [watched EXCEPT ![x] = @ \cup (1..adopt)]
        BY <2>18 DEF MergeEntry
      <4> QED BY <3>2, <4>1
    <3>4. outbox' \in [Trackers -> SUBSET Row]
      <4>1. PICK ids \in NewIds :
              outbox' = IF send > 0
                        THEN [outbox EXCEPT ![t] = EnqueueProgress(@, ids[t], x, send)]
                        ELSE outbox
        BY <2>18 DEF MergeEntry
      <4>2. ids[t] \in RowIds /\ outbox[t] \in SUBSET Row
        BY DEF NewIds
      <4>3. EnqueueProgress(outbox[t], ids[t], x, send) \in SUBSET Row
        BY <3>2, <4>2, EnqueueType
      <4> QED BY <4>1, <4>3
    <3>5. pull' \in [Trackers -> Pull]
      <4>1. NoPull \in Pull /\ Without(pull[t], x) \in Pull
        BY <3>1 DEF Pull, NoPull, Figures, Without
      <4> QED BY <2>18, <4>1 DEF MergeEntry
    <3> QED BY <2>18, <3>3, <3>4, <3>5 DEF MergeEntry, session, world
  <2>19. ASSUME NEW t \in Trackers, NEW x \in Titles, RefreshMappings(t, x) PROVE TypeOK'
    <3>1. outbox' \in [Trackers -> SUBSET Row]
      BY <2>19, WaitType DEF RefreshMappings
    <3> QED BY <2>19, <3>1 DEF RefreshMappings, local, world
  <2>20. ASSUME NEW t \in Trackers, NEW i \in RowIds, BackoffElapses(t, i) PROVE TypeOK'
    <3>1. PICK r \in outbox[t] :
            outbox' = [outbox EXCEPT ![t] = (@ \ {r}) \cup {[r EXCEPT !.wait = "due"]}]
      BY <2>20 DEF BackoffElapses
    <3>2. outbox[t] \in SUBSET Row /\ [r EXCEPT !.wait = "due"] \in Row
      BY WaitType
    <3>3. outbox' \in [Trackers -> SUBSET Row]
      BY <3>1, <3>2
    <3> QED BY <2>20, <3>3 DEF BackoffElapses, local, session, world
  <2>21. ASSUME NEW t \in Trackers, HoldLapses(t) PROVE TypeOK'
    BY <2>21 DEF HoldLapses, local, session, world
  <2> QED
    BY <2>1, <2>2, <2>3, <2>4, <2>5, <2>6, <2>7, <2>8, <2>9, <2>10, <2>11, <2>12, <2>13,
       <2>14, <2>15, <2>16, <2>17, <2>18, <2>19, <2>20, <2>21
       DEF Next, User, Drain, Reconcile, Passing
<1> QED BY <1>1, <1>2, PTL DEF Spec

-----------------------------------------------------------------------------
(* What a step may do to one tracker's queue. *)

(* The progress queued is what local history reaches by now, or what a merge found that
   the tracker was not sent yet. *)
Newly(t, x, v) ==
    \/ v = Reached(watched'[x])
    \/ /\ v = Larger(Reached(watched[x]), Pending(outbox[t], x))
       /\ pushed[t][x] < v

Kept(t)     == outbox'[t] = outbox[t]
Advanced(t) == \E i \in RowIds, x \in Titles, v \in Nat :
                  /\ IsNewId(t, i) /\ Newly(t, x, v)
                  /\ outbox'[t] = EnqueueProgress(outbox[t], i, x, v)
Edited(t)   == \E i \in RowIds, x \in Titles, v \in Nat :
                  IsNewId(t, i) /\ outbox'[t] = EnqueueStatus(outbox[t], i, x, v)
HeldBack(t) == \E held \in SUBSET outbox[t] : outbox'[t] = Deferred(outbox[t], held)
Stirred(t)  == outbox'[t] = Woken(outbox[t])
Sent(t)     == \E k \in Tasks :
                  PushOk(t, k) /\ outbox'[t] = Completed(outbox[t], task[t][k].batch)
Failed(t)   == \E k \in Tasks :
                  PushFailed(t, k) /\ outbox'[t] = FailedRows(outbox[t], task[t][k].batch)
Ripened(t)  == \E r \in outbox[t] :
                  outbox'[t] = (outbox[t] \ {r}) \cup {[r EXCEPT !.wait = "due"]}

QueueStep(t) ==
    \/ Kept(t) \/ Advanced(t) \/ Edited(t) \/ HeldBack(t) \/ Stirred(t) \/ Sent(t)
    \/ Failed(t) \/ Ripened(t)

LEMMA QueueProgressForStep ==
    ASSUME TypeOK, NEW ts, NEW x \in Titles, NEW eps, QueueProgressFor(ts, x, eps),
           watched' = [watched EXCEPT ![x] = eps], NEW t \in Trackers
    PROVE  Kept(t) \/ Advanced(t)
<1>1. PICK ids \in NewIds :
         outbox' = [u \in Trackers |->
                     IF u \in ts /\ Reached(eps) > 0
                     THEN EnqueueProgress(outbox[u], ids[u], x, Reached(eps))
                     ELSE outbox[u]]
  BY DEF QueueProgressFor
<1>2. ids[t] \in RowIds /\ IsNewId(t, ids[t])
  BY DEF NewIds
<1>3. Reached(eps) \in Nat
  BY ReachedType
<1>4. Newly(t, x, Reached(eps))
  BY DEF Newly, TypeOK
<1> QED BY <1>1, <1>2, <1>3, <1>4 DEF Kept, Advanced

LEMMA NextQueueStep ==
    ASSUME TypeOK, [Next]_vars, NEW t \in Trackers
    PROVE  QueueStep(t)
<1> USE DEF QueueStep
<1>1. CASE UNCHANGED outbox
  BY <1>1 DEF Kept
<1>2. ASSUME NEW e \in Episodes, CommitEpisode(e) PROVE QueueStep(t)
  <2>1. playing.title \in Titles
    BY <1>2 DEF CommitEpisode, TypeOK
  <2> QED BY <1>2, <2>1, QueueProgressForStep DEF CommitEpisode
<1>3. ASSUME NEW x \in Titles, NEW e \in Episodes, MarkWatched(x, e) PROVE QueueStep(t)
  BY <1>3, QueueProgressForStep DEF MarkWatched
<1>4. ASSUME NEW x \in Titles, SetStatus(x) PROVE QueueStep(t)
  <2>1. PICK ids \in NewIds :
          outbox' = [u \in Trackers |->
                       IF u \in SignedIn
                       THEN EnqueueStatus(outbox[u], ids[u], x, edits + 1) ELSE outbox[u]]
    BY <1>4 DEF SetStatus
  <2>2. ids[t] \in RowIds /\ IsNewId(t, ids[t]) /\ edits + 1 \in Nat
    BY ConstantsAssumption DEF NewIds, TypeOK
  <2> QED BY <2>1, <2>2 DEF Kept, Edited
<1>5. ASSUME NEW u \in Trackers, NEW k \in Tasks, StartDrain(u, k) PROVE QueueStep(t)
  <2> DEFINE claimed == Claimed(outbox[u])
             held    == claimed \ {r \in claimed : r.title \in mapped[u]}
  <2>1. outbox' = [outbox EXCEPT ![u] = Deferred(outbox[u], held)]
    BY <1>5 DEF StartDrain
  <2>2. held \in SUBSET outbox[u]
    BY DEF Claimed, Due
  <2> QED BY <2>1, <2>2 DEF Kept, HeldBack, TypeOK
<1>6. ASSUME NEW u \in Trackers, NEW k \in Tasks, PushOk(u, k) PROVE QueueStep(t)
  BY <1>6 DEF PushOk, Kept, Sent, TypeOK
<1>7. ASSUME NEW u \in Trackers, NEW k \in Tasks, PushFailed(u, k) PROVE QueueStep(t)
  BY <1>7 DEF PushFailed, Kept, Failed, TypeOK
<1>8. ASSUME NEW u \in Trackers, NEW x \in Titles, MergeEntry(u, x) PROVE QueueStep(t)
  <2> DEFINE seen == pull[u].seen[x]
             send == MergePush(Reached(watched[x]), Pending(outbox[u], x), pushed[u][x], seen)
  <2>1. PICK ids \in NewIds :
          outbox' = IF send > 0
                    THEN [outbox EXCEPT ![u] = EnqueueProgress(@, ids[u], x, send)]
                    ELSE outbox
    BY <1>8 DEF MergeEntry
  <2>2. ids[t] \in RowIds /\ IsNewId(t, ids[t])
    BY DEF NewIds
  <2>3. send \in Nat
    BY MergeType DEF TypeOK, Pull
  <2>4. CASE t = u /\ send > 0
    <3>1. Newly(t, x, send)
      BY <2>4 DEF Newly, MergePush
    <3>2. outbox'[t] = EnqueueProgress(outbox[t], ids[t], x, send)
      BY <2>1, <2>4 DEF TypeOK
    <3> QED BY <2>2, <2>3, <3>1, <3>2 DEF Advanced
  <2>5. CASE ~(t = u /\ send > 0)
    BY <2>1, <2>5 DEF Kept, TypeOK
  <2> QED BY <2>4, <2>5
<1>9. ASSUME NEW u \in Trackers, NEW x \in Titles, RefreshMappings(u, x) PROVE QueueStep(t)
  BY <1>9 DEF RefreshMappings, Stirred
<1>10. ASSUME NEW u \in Trackers, NEW i \in RowIds, BackoffElapses(u, i) PROVE QueueStep(t)
  <2>1. PICK r \in outbox[u] :
          outbox' = [outbox EXCEPT ![u] = (@ \ {r}) \cup {[r EXCEPT !.wait = "due"]}]
    BY <1>10 DEF BackoffElapses
  <2>2. CASE t = u
    <3>1. outbox'[t] = (outbox[t] \ {r}) \cup {[r EXCEPT !.wait = "due"]}
      BY <2>1, <2>2 DEF TypeOK
    <3> QED BY <2>2, <3>1 DEF Ripened
  <2>3. CASE t # u
    BY <2>1, <2>3 DEF Kept, TypeOK
  <2> QED BY <2>2, <2>3
<1>11. CASE UNCHANGED vars
  BY <1>1, <1>11 DEF vars, queue
<1>12. CASE Next
  <2>1. CASE User
    BY <1>1, <1>2, <1>3, <1>4, <2>1
       DEF User, StartPlayback, AbandonPlayback, Unmark, SignIn, SignOut, WatchElsewhere,
           Restart, queue
  <2>2. ASSUME NEW u \in Trackers, NEW k \in Tasks, Drain(u, k) PROVE QueueStep(t)
    BY <1>1, <1>5, <1>6, <1>7, <2>2 DEF Drain, Send, PushRejected, queue
  <2>3. ASSUME NEW u \in Trackers, Reconcile(u) PROVE QueueStep(t)
    BY <1>1, <1>8, <2>3 DEF Reconcile, FetchLibrary, queue
  <2>4. ASSUME NEW u \in Trackers, Passing(u) PROVE QueueStep(t)
    BY <1>1, <1>9, <1>10, <2>4 DEF Passing, HoldLapses
  <2> QED BY <1>12, <2>1, <2>2, <2>3, <2>4 DEF Next
<1> QED BY <1>11, <1>12

-----------------------------------------------------------------------------
(* One progress row a title, which never goes down. *)

SingleRows(rows) == \A x \in Titles : \A r, q \in ProgressRows(rows, x) : r = q

(* No row becomes the row of another title, or of another op. *)
LEMMA SameOps ==
    ASSUME NEW rows \in SUBSET Row, NEW held, NEW batch, NEW x
    PROVE  /\ \A r \in ProgressRows(Deferred(rows, held), x) :
                 \E q \in ProgressRows(rows, x) :
                    r = IF q \in held THEN Held(q) ELSE q
           /\ \A r \in ProgressRows(Woken(rows), x) :
                 \E q \in ProgressRows(rows, x) :
                    r = IF q.wait = "deferred" THEN [q EXCEPT !.wait = "due"] ELSE q
           /\ \A r \in ProgressRows(FailedRows(rows, batch), x) :
                 \E q \in ProgressRows(rows, x) \ GivenUp(rows, batch) :
                    r = IF q.id \in IdsOf(batch)
                        THEN Retried(q) ELSE q
BY DEF ProgressRows, Deferred, Woken, FailedRows, GivenUp, Row, Held, Retried

LEMMA StepKeepsSingle ==
    ASSUME TypeOK, NEW t \in Trackers, QueueStep(t), SingleRows(outbox[t])
    PROVE  SingleRows(outbox'[t])
<1> USE DEF SingleRows
<1>0. outbox[t] \in SUBSET Row
  BY DEF TypeOK
<1>1. CASE Kept(t)
  BY <1>1 DEF Kept
<1>2. CASE Advanced(t)
  <2>1. PICK i \in RowIds, y \in Titles, v \in Nat :
           outbox'[t] = EnqueueProgress(outbox[t], i, y, v)
    BY <1>2 DEF Advanced
  <2>2. CASE ProgressRows(outbox[t], y) = {}
    BY <2>1, <2>2 DEF EnqueueProgress, ProgressRows, NewRow
  <2>3. CASE ProgressRows(outbox[t], y) # {}
    <3>1. ASSUME NEW x \in Titles, NEW r \in ProgressRows(outbox'[t], x)
          PROVE  \E q \in ProgressRows(outbox[t], x) :
                    r = IF q \in ProgressRows(outbox[t], y) /\ q.value < v
                        THEN [q EXCEPT !.value = v] ELSE q
      BY <1>0, <2>1, <2>3 DEF EnqueueProgress, ProgressRows, Row
    <3> QED BY <3>1
  <2> QED BY <2>2, <2>3
<1>3. CASE Edited(t)
  BY <1>3 DEF Edited, EnqueueStatus, ProgressRows, NewRow
<1>4. CASE HeldBack(t)
  <2>1. PICK held \in SUBSET outbox[t] : outbox'[t] = Deferred(outbox[t], held)
    BY <1>4 DEF HeldBack
  <2>2. ASSUME NEW x \in Titles, NEW r \in ProgressRows(outbox'[t], x)
        PROVE  \E q \in ProgressRows(outbox[t], x) :
                  r = IF q \in held THEN Held(q) ELSE q
    BY <1>0, <2>1, SameOps
  <2> QED BY <2>2
<1>5. CASE Stirred(t)
  <2>1. ASSUME NEW x \in Titles, NEW r \in ProgressRows(outbox'[t], x)
        PROVE  \E q \in ProgressRows(outbox[t], x) :
                  r = IF q.wait = "deferred" THEN [q EXCEPT !.wait = "due"] ELSE q
    BY <1>0, <1>5, SameOps DEF Stirred
  <2> QED BY <2>1
<1>6. CASE Sent(t)
  BY <1>6 DEF Sent, Completed, ProgressRows
<1>7. CASE Failed(t)
  <2>1. PICK k \in Tasks : outbox'[t] = FailedRows(outbox[t], task[t][k].batch)
    BY <1>7 DEF Failed
  <2>2. ASSUME NEW x \in Titles, NEW r \in ProgressRows(outbox'[t], x)
        PROVE  \E q \in ProgressRows(outbox[t], x) :
                  r = IF q.id \in IdsOf(task[t][k].batch)
                      THEN Retried(q) ELSE q
    <3> DEFINE batch == task[t][k].batch
    <3>1. PICK q \in ProgressRows(outbox[t], x) \ GivenUp(outbox[t], batch) :
             r = IF q.id \in IdsOf(batch) THEN Retried(q) ELSE q
      BY <1>0, <2>1, SameOps
    <3> QED BY <3>1
  <2> QED BY <2>2
<1>8. CASE Ripened(t)
  <2>1. PICK p \in outbox[t] :
           outbox'[t] = (outbox[t] \ {p}) \cup {[p EXCEPT !.wait = "due"]}
    BY <1>8 DEF Ripened
  <2>2. p \in Row
    BY <1>0
  <2>3. ASSUME NEW x \in Titles, NEW r \in ProgressRows(outbox'[t], x)
        PROVE  \E q \in ProgressRows(outbox[t], x) :
                  r = IF q = p THEN [q EXCEPT !.wait = "due"] ELSE q
    BY <2>1, <2>2 DEF ProgressRows, Row
  <2> QED BY <2>3
<1> QED BY <1>1, <1>2, <1>3, <1>4, <1>5, <1>6, <1>7, <1>8 DEF QueueStep

(* A tracker's queue holds one progress op a title, whatever drains, merges and edits
   overlap. *)
THEOREM ProgressIsOneRow == Spec => []OneProgressRow
<1>1. Init => OneProgressRow
  BY DEF Init, OneProgressRow, ProgressRows
<1>2. TypeOK /\ OneProgressRow /\ [Next]_vars => OneProgressRow'
  BY NextQueueStep, StepKeepsSingle DEF OneProgressRow, SingleRows
<1> QED BY <1>1, <1>2, TypeCorrect, PTL DEF Spec

(* What is queued only depends on the rows of the title. *)
LEMMA PendingGrows ==
    ASSUME NEW rows \in SUBSET Row, NEW after \in SUBSET Row, NEW x,
           \A r \in ProgressRows(rows, x) : \E q \in ProgressRows(after, x) : r.value <= q.value
    PROVE  Pending(rows, x) <= Pending(after, x)
<1> DEFINE S == {r.value : r \in ProgressRows(rows, x)}
           T == {q.value : q \in ProgressRows(after, x)}
<1>1. S \in SUBSET Nat /\ T \in SUBSET Nat
  BY DEF ProgressRows, Row
<1>2. \A e \in S : \E f \in T : e <= f
  OBVIOUS
<1>3. Reached(S) <= Reached(T)
  BY <1>1, <1>2, ReachedMonotone
<1> QED BY <1>3 DEF Pending

LEMMA PendingNone ==
    ASSUME NEW rows, NEW x, ProgressRows(rows, x) = {}
    PROVE  Pending(rows, x) = 0
<1>1. {n \in Episodes : \E e \in {r.value : r \in ProgressRows(rows, x)} : n <= e} = {}
  OBVIOUS
<1> QED BY <1>1, FS_EmptySet DEF Pending, Reached

LEMMA StepNeverWalksBack ==
    ASSUME TypeOK, TypeOK', NEW t \in Trackers, NEW x \in Titles, QueueStep(t),
           SingleRows(outbox[t]), Pending(outbox'[t], x) # 0
    PROVE  Pending(outbox'[t], x) >= Pending(outbox[t], x)
<1>0. outbox[t] \in SUBSET Row /\ outbox'[t] \in SUBSET Row
  BY DEF TypeOK
<1>1. PICK r \in ProgressRows(outbox'[t], x) : TRUE
  BY PendingNone
<1> SUFFICES \A q \in ProgressRows(outbox[t], x) :
                \E p \in ProgressRows(outbox'[t], x) : q.value <= p.value
  BY <1>0, PendingGrows, PendingType
<1> TAKE q \in ProgressRows(outbox[t], x)
<1>2. q \in Row /\ q.op = "progress" /\ q.title = x /\ q.value \in Nat /\ q \in outbox[t]
  BY <1>0 DEF ProgressRows, Row
<1>3. CASE Kept(t)
  BY <1>2, <1>3 DEF Kept
<1>4. CASE Advanced(t)
  <2>1. PICK i \in RowIds, y \in Titles, v \in Nat :
           outbox'[t] = EnqueueProgress(outbox[t], i, y, v)
    BY <1>4 DEF Advanced
  <2> DEFINE p == IF q \in ProgressRows(outbox[t], y) /\ q.value < v
                  THEN [q EXCEPT !.value = v] ELSE q
  <2>2. CASE ProgressRows(outbox[t], y) = {}
    BY <1>2, <2>1, <2>2 DEF EnqueueProgress, ProgressRows
  <2>3. CASE ProgressRows(outbox[t], y) # {}
    <3>1. p \in outbox'[t]
      BY <1>2, <2>1, <2>3 DEF EnqueueProgress
    <3>2. p.op = "progress" /\ p.title = x /\ q.value <= p.value
      BY <1>2 DEF Row
    <3> QED BY <3>1, <3>2 DEF ProgressRows
  <2> QED BY <2>2, <2>3
<1>5. CASE Edited(t)
  BY <1>2, <1>5 DEF Edited, EnqueueStatus, ProgressRows
<1>6. CASE HeldBack(t)
  <2>1. PICK held \in SUBSET outbox[t] : outbox'[t] = Deferred(outbox[t], held)
    BY <1>6 DEF HeldBack
  <2>2. (IF q \in held THEN Held(q) ELSE q) \in outbox'[t]
    BY <1>2, <2>1 DEF Deferred
  <2> QED BY <1>2, <2>2 DEF ProgressRows, Row, Held
<1>7. CASE Stirred(t)
  <2>1. (IF q.wait = "deferred" THEN [q EXCEPT !.wait = "due"] ELSE q) \in outbox'[t]
    BY <1>2, <1>7 DEF Stirred, Woken
  <2> QED BY <1>2, <2>1 DEF ProgressRows, Row
<1>8. CASE Sent(t)
  \* The row left is the only one there was.
  <2>1. r \in ProgressRows(outbox[t], x)
    BY <1>8 DEF Sent, Completed, ProgressRows
  <2>2. r = q
    BY <2>1 DEF SingleRows
  <2> QED BY <1>2, <2>2
<1>9. CASE Failed(t)
  <2>1. PICK k \in Tasks : outbox'[t] = FailedRows(outbox[t], task[t][k].batch)
    BY <1>9 DEF Failed
  <2>2. PICK p \in ProgressRows(outbox[t], x) \ GivenUp(outbox[t], task[t][k].batch) :
           r = IF p.id \in IdsOf(task[t][k].batch)
               THEN Retried(p) ELSE p
    BY <1>0, <2>1, SameOps
  <2>3. p = q
    BY <2>2 DEF SingleRows
  <2>4. r.value = q.value
    BY <1>2, <2>2, <2>3 DEF Row, Retried
  <2> QED BY <1>2, <2>4
<1>10. CASE Ripened(t)
  <2>1. PICK p \in outbox[t] :
           outbox'[t] = (outbox[t] \ {p}) \cup {[p EXCEPT !.wait = "due"]}
    BY <1>10 DEF Ripened
  <2>2. (IF q = p THEN [q EXCEPT !.wait = "due"] ELSE q) \in outbox'[t]
    BY <1>2, <2>1
  <2> QED BY <1>2, <2>2 DEF ProgressRows, Row
<1> QED BY <1>3, <1>4, <1>5, <1>6, <1>7, <1>8, <1>9, <1>10 DEF QueueStep

(* The progress queued for a title goes up, or goes away. *)
THEOREM QueueGoesForward == Spec => QueueNeverWalksBack
<1> DEFINE Step == \A t \in Trackers, x \in Titles :
               Pending(outbox'[t], x) # 0 => Pending(outbox'[t], x) >= Pending(outbox[t], x)
<1>1. TypeOK /\ TypeOK' /\ OneProgressRow /\ [Next]_vars => Step
  BY NextQueueStep, StepNeverWalksBack DEF OneProgressRow, SingleRows
<1>2. [Step]_vars <=> Step \/ UNCHANGED vars
  OBVIOUS
<1> QED BY <1>1, TypeCorrect, ProgressIsOneRow, PTL DEF Spec, QueueNeverWalksBack

-----------------------------------------------------------------------------
(* What was sent was heard. *)

(* A title whose request has gone out was heard, with all the batch holds of it. *)
HeardOf(known, batch, x) ==
    /\ Pending(batch, x) <= known.progress[x]
    /\ \A r \in StatusRows(batch, x) : r.value \in known.edits
SentIsHeard ==
    \A t \in Trackers, k \in Tasks : \A x \in Titles \ task[t][k].unsent :
        HeardOf(heard[t], task[t][k].batch, x)

(* A drain only sends titles the tracker has an id for: none is skipped by the push. *)
BatchIsMapped ==
    \A t \in Trackers, k \in Tasks : \A r \in task[t][k].batch : r.title \in mapped[t]

HeardInv == MemoryIsHeard /\ SentIsHeard /\ BatchIsMapped

(* What a step may do to one drain. *)
Begun(t, k) ==
    \E batch \in SUBSET outbox[t] :
        /\ \A r \in batch : r.title \in mapped[t]
        /\ task'[t][k].batch = batch
        /\ task'[t][k].unsent = TitlesOf(batch)
TaskStep(t, k) ==
    \/ task'[t][k] = task[t][k]
    \/ task'[t][k] = Idle
    \/ Begun(t, k)
    \/ \E x \in Titles :
          /\ Send(t, k, x)
          /\ task'[t][k].batch = task[t][k].batch
          /\ task'[t][k].unsent = task[t][k].unsent \ {x}

LEMMA NextTaskStep ==
    ASSUME TypeOK, [Next]_vars, NEW t \in Trackers, NEW k \in Tasks
    PROVE  TaskStep(t, k)
<1> USE DEF TaskStep
<1>1. CASE UNCHANGED task
  BY <1>1
<1>2. CASE Restart
  BY <1>2 DEF Restart
<1>3. ASSUME NEW u \in Trackers, NEW j \in Tasks, StartDrain(u, j) PROVE TaskStep(t, k)
  <2> DEFINE claimed  == Claimed(outbox[u])
             sendable == {r \in claimed : r.title \in mapped[u]}
             begun    == [batch  |-> sendable,
                          unsent |-> TitlesOf(sendable),
                          cred   |-> account[u]]
  <2>1. task' = [task EXCEPT ![u][j] = IF sendable = {} THEN Idle ELSE begun]
    BY <1>3 DEF StartDrain
  <2>2. sendable \in SUBSET outbox[u] /\ \A r \in sendable : r.title \in mapped[u]
    BY DEF Claimed, Due
  <2>3. CASE t = u /\ k = j
    <3>1. task'[t][k] = Idle \/ task'[t][k] = begun
      BY <2>1, <2>3 DEF TypeOK
    <3>2. CASE task'[t][k] = begun
      <4> HIDE DEF sendable
      <4>1. Begun(t, k)
        BY <2>2, <2>3, <3>2 DEF Begun
      <4> QED BY <4>1
    <3> QED BY <3>1, <3>2
  <2>4. CASE ~(t = u /\ k = j)
    BY <2>1, <2>4 DEF TypeOK
  <2> QED BY <2>3, <2>4
<1>4. ASSUME NEW u \in Trackers, NEW j \in Tasks, NEW x \in Titles, Send(u, j, x)
      PROVE  TaskStep(t, k)
  <2>1. task' = [task EXCEPT ![u][j].unsent = @ \ {x}]
    BY <1>4 DEF Send
  <2>2. CASE t = u /\ k = j
    <3>1. task[t][k] \in Push
      BY DEF TypeOK
    <3>2. task'[t][k] = [task[t][k] EXCEPT !.unsent = @ \ {x}]
      BY <2>1, <2>2 DEF TypeOK
    <3>3. /\ task'[t][k].batch = task[t][k].batch
          /\ task'[t][k].unsent = task[t][k].unsent \ {x}
      BY <3>1, <3>2 DEF Push
    <3> QED BY <1>4, <2>2, <3>3
  <2>3. CASE ~(t = u /\ k = j)
    BY <2>1, <2>3 DEF TypeOK
  <2> QED BY <2>2, <2>3
<1>5. ASSUME NEW u \in Trackers, NEW j \in Tasks,
             PushOk(u, j) \/ PushFailed(u, j) \/ PushRejected(u, j)
      PROVE  TaskStep(t, k)
  <2>1. task' = [task EXCEPT ![u][j] = Idle]
    BY <1>5 DEF PushOk, PushFailed, PushRejected
  <2> QED BY <2>1 DEF TypeOK
<1>6. CASE UNCHANGED vars
  BY <1>1, <1>6 DEF vars
<1>7. CASE Next
  <2>1. CASE User
    BY <1>1, <1>2, <2>1
       DEF User, StartPlayback, CommitEpisode, AbandonPlayback, MarkWatched, Unmark, SetStatus,
           SignIn, SignOut, WatchElsewhere
  <2>2. ASSUME NEW u \in Trackers, NEW j \in Tasks, Drain(u, j) PROVE TaskStep(t, k)
    BY <1>3, <1>4, <1>5, <2>2 DEF Drain
  <2>3. ASSUME NEW u \in Trackers, Reconcile(u) \/ Passing(u) PROVE TaskStep(t, k)
    BY <1>1, <2>3
       DEF Reconcile, FetchLibrary, MergeEntry, Passing, RefreshMappings, BackoffElapses,
           HoldLapses
  <2> QED BY <1>7, <2>1, <2>2, <2>3 DEF Next
<1> QED BY <1>6, <1>7

(* Mappings are only added to, and what was heard stays heard. *)
LEMMA HeardGrows ==
    ASSUME TypeOK, TypeOK', [Next]_vars, NEW t \in Trackers
    PROVE  /\ mapped[t] \subseteq mapped'[t]
           /\ heard[t].edits \subseteq heard'[t].edits
           /\ \A x \in Titles : heard[t].progress[x] <= heard'[t].progress[x]
<1> DEFINE Grows == /\ mapped[t] \subseteq mapped'[t]
                    /\ heard[t].edits \subseteq heard'[t].edits
                    /\ \A x \in Titles : heard[t].progress[x] <= heard'[t].progress[x]
<1>0. heard' = heard => /\ heard[t].edits \subseteq heard'[t].edits
                         /\ \A x \in Titles : heard[t].progress[x] <= heard'[t].progress[x]
  <2> SUFFICES ASSUME heard' = heard
               PROVE  \A x \in Titles : heard[t].progress[x] <= heard'[t].progress[x]
    OBVIOUS
  <2>1. ASSUME NEW x \in Titles PROVE heard[t].progress[x] <= heard'[t].progress[x]
    <3>1. heard[t].progress[x] \in Nat /\ heard'[t].progress[x] = heard[t].progress[x]
      BY DEF TypeOK
    <3> QED BY <3>1
  <2> QED BY <2>1
<1>1. CASE UNCHANGED <<mapped, heard>>
  BY <1>0, <1>1
<1>2. ASSUME NEW u \in Trackers, NEW x \in Titles, RefreshMappings(u, x) PROVE Grows
  BY <1>0, <1>2 DEF RefreshMappings, TypeOK, world
<1>3. ASSUME NEW u \in Trackers, NEW k \in Tasks, NEW x \in Titles, Send(u, k, x) PROVE Grows
  <2> DEFINE told == Told(heard[u], task[u][k].batch, x)
  <2>1. heard' = heard \/ heard' = [heard EXCEPT ![u] = told]
    BY <1>3 DEF Send
  <2>2. heard[u].edits \subseteq told.edits
    BY DEF Told
  <2>3. \A y \in Titles : heard[u].progress[y] <= told.progress[y]
    BY PendingType DEF Told, Larger, TypeOK
  <2>4. UNCHANGED mapped
    BY <1>3 DEF Send, session
  <2> HIDE DEF told
  <2> QED BY <2>1, <2>2, <2>3, <2>4 DEF TypeOK
<1>4. CASE UNCHANGED vars
  BY <1>1, <1>4 DEF vars, session, world
<1>5. CASE Next
  <2>1. CASE User
    BY <1>1, <2>1
       DEF User, StartPlayback, CommitEpisode, AbandonPlayback, MarkWatched, Unmark, SetStatus,
           SignIn, SignOut, WatchElsewhere, Restart, session, world
  <2>2. ASSUME NEW u \in Trackers, NEW k \in Tasks, Drain(u, k) PROVE Grows
    BY <1>1, <1>3, <2>2
       DEF Drain, StartDrain, PushOk, PushFailed, PushRejected, session, world
  <2>3. ASSUME NEW u \in Trackers, Reconcile(u) \/ Passing(u) PROVE Grows
    BY <1>1, <1>2, <2>3
       DEF Reconcile, FetchLibrary, MergeEntry, Passing, BackoffElapses, HoldLapses, session,
           world
  <2> QED BY <1>5, <2>1, <2>2, <2>3 DEF Next
<1> QED BY <1>4, <1>5

(* A batch stays heard, title by title, as it is sent. *)
LEMMA SentIsHeardStep ==
    ASSUME TypeOK, TypeOK', SentIsHeard, BatchIsMapped, [Next]_vars,
           NEW t \in Trackers, NEW k \in Tasks,
           NEW x \in Titles \ task'[t][k].unsent
    PROVE  HeardOf(heard'[t], task'[t][k].batch, x)
<1> DEFINE batch == task[t][k].batch
<1>1. /\ heard[t].edits \subseteq heard'[t].edits
      /\ heard[t].progress[x] <= heard'[t].progress[x]
      /\ heard[t].progress[x] \in Nat /\ heard'[t].progress[x] \in Nat
  BY HeardGrows DEF TypeOK
<1>2. Pending(batch, x) \in Nat
  BY PendingType
<1>3. CASE x \notin task[t][k].unsent /\ task'[t][k].batch = batch
  <2>1. HeardOf(heard[t], batch, x)
    BY <1>3 DEF SentIsHeard
  <2> QED BY <1>1, <1>2, <1>3, <2>1 DEF HeardOf
<1>4. CASE task'[t][k].batch = {} \/ x \notin TitlesOf(task'[t][k].batch)
  <2>1. ProgressRows(task'[t][k].batch, x) = {} /\ StatusRows(task'[t][k].batch, x) = {}
    BY <1>4 DEF ProgressRows, StatusRows, TitlesOf
  <2>2. Pending(task'[t][k].batch, x) = 0
    BY <2>1, PendingNone
  <2> QED BY <1>1, <2>1, <2>2 DEF HeardOf
<1>5. TaskStep(t, k)
  BY NextTaskStep
<1>6. CASE task'[t][k] = task[t][k]
  BY <1>3, <1>6
<1>7. CASE task'[t][k] = Idle
  BY <1>4, <1>7 DEF Idle
<1>8. CASE Begun(t, k)
  BY <1>4, <1>8 DEF Begun
<1>9. ASSUME NEW y \in Titles, Send(t, k, y), task'[t][k].batch = batch,
             task'[t][k].unsent = task[t][k].unsent \ {y}
      PROVE  HeardOf(heard'[t], task'[t][k].batch, x)
  <2>1. CASE x # y
    BY <1>3, <1>9, <2>1
  <2>2. CASE x = y /\ x \in mapped[t]
    <3>1. heard'[t] = Told(heard[t], batch, x)
      BY <1>9, <2>2 DEF Send, TypeOK
    <3>2. /\ heard'[t].progress[x] = Larger(heard[t].progress[x], Pending(batch, x))
          /\ heard'[t].edits = heard[t].edits \cup {r.value : r \in StatusRows(batch, x)}
      BY <3>1 DEF Told, TypeOK
    <3> QED BY <1>1, <1>2, <1>9, <3>2 DEF HeardOf, Larger
  <2>3. CASE x = y /\ x \notin mapped[t]
    <3>1. x \notin TitlesOf(batch)
      BY <2>3 DEF BatchIsMapped, TitlesOf
    <3> QED BY <1>4, <1>9, <3>1
  <2> QED BY <2>1, <2>2, <2>3
<1> QED BY <1>5, <1>6, <1>7, <1>8, <1>9 DEF TaskStep

(* What a step may do to the memory of what one tracker was sent. *)
Recalled(t) ==
    \/ pushed'[t] = pushed[t]
    \/ pushed'[t] = Forgotten
    \/ \E k \in Tasks : PushOk(t, k) /\ pushed'[t] = Remembered(pushed[t], task[t][k].batch)

LEMMA NextRecalled ==
    ASSUME TypeOK, [Next]_vars, NEW t \in Trackers
    PROVE  Recalled(t)
<1> USE DEF Recalled
<1>1. CASE UNCHANGED pushed
  BY <1>1
<1>2. ASSUME NEW u \in Trackers, NEW a \in Accounts, SignIn(u, a) PROVE Recalled(t)
  BY <1>2 DEF SignIn, TypeOK
<1>3. ASSUME NEW u \in Trackers, SignOut(u) PROVE Recalled(t)
  BY <1>3 DEF SignOut, TypeOK
<1>4. ASSUME NEW u \in Trackers, NEW k \in Tasks, PushOk(u, k) PROVE Recalled(t)
  <2>1. pushed' = [pushed EXCEPT ![u] = Remembered(@, task[u][k].batch)]
    BY <1>4 DEF PushOk
  <2>2. CASE t = u
    BY <1>4, <2>1, <2>2 DEF TypeOK
  <2>3. CASE t # u
    BY <2>1, <2>3 DEF TypeOK
  <2> QED BY <2>2, <2>3
<1>5. CASE UNCHANGED vars
  BY <1>1, <1>5 DEF vars, queue
<1>6. CASE Next
  <2>1. CASE User
    BY <1>1, <1>2, <1>3, <2>1
       DEF User, StartPlayback, CommitEpisode, AbandonPlayback, MarkWatched, Unmark,
           SetStatus, WatchElsewhere, Restart, queue
  <2>2. ASSUME NEW u \in Trackers, NEW k \in Tasks, Drain(u, k) PROVE Recalled(t)
    BY <1>1, <1>4, <2>2 DEF Drain, StartDrain, Send, PushFailed, PushRejected, queue
  <2>3. ASSUME NEW u \in Trackers, Reconcile(u) \/ Passing(u) PROVE Recalled(t)
    BY <1>1, <2>3
       DEF Reconcile, FetchLibrary, MergeEntry, Passing, RefreshMappings,
           BackoffElapses, HoldLapses, queue
  <2> QED BY <1>6, <2>1, <2>2, <2>3 DEF Next
<1> QED BY <1>5, <1>6

LEMMA HeardInvariant == Spec => []HeardInv
<1>1. Init => HeardInv
  <2> SUFFICES ASSUME Init PROVE HeardInv
    OBVIOUS
  <2>1. MemoryIsHeard
    BY DEF Init, MemoryIsHeard, Forgotten
  <2>2. ASSUME NEW t \in Trackers, NEW k \in Tasks, NEW x \in Titles
        PROVE  HeardOf(heard[t], task[t][k].batch, x)
    <3>1. task[t][k].batch = {} /\ heard[t].progress[x] = 0
      BY DEF Init, Idle
    <3>2. ProgressRows(task[t][k].batch, x) = {} /\ StatusRows(task[t][k].batch, x) = {}
      BY <3>1 DEF ProgressRows, StatusRows
    <3> QED BY <3>1, <3>2, PendingNone DEF HeardOf
  <2>3. BatchIsMapped
    BY DEF Init, BatchIsMapped, Idle
  <2> QED BY <2>1, <2>2, <2>3 DEF HeardInv, SentIsHeard
<1>2. TypeOK /\ TypeOK' /\ HeardInv /\ [Next]_vars => HeardInv'
  <2> SUFFICES ASSUME TypeOK, TypeOK', HeardInv, [Next]_vars PROVE HeardInv'
    OBVIOUS
  <2> USE DEF HeardInv
  <2>1. SentIsHeard'
    BY SentIsHeardStep DEF SentIsHeard
  <2>2. ASSUME NEW t \in Trackers, NEW k \in Tasks, NEW r \in task'[t][k].batch
        PROVE  r.title \in mapped'[t]
    <3>1. TaskStep(t, k) /\ mapped[t] \subseteq mapped'[t]
      BY NextTaskStep, HeardGrows
    <3> QED BY <2>2, <3>1 DEF TaskStep, Begun, Idle, BatchIsMapped
  <2>3. ASSUME NEW t \in Trackers, NEW x \in Titles
        PROVE  pushed'[t][x] <= heard'[t].progress[x]
    <3>1. /\ heard[t].progress[x] <= heard'[t].progress[x]
          /\ pushed[t][x] <= heard[t].progress[x]
          /\ heard[t].progress[x] \in Nat /\ heard'[t].progress[x] \in Nat
          /\ pushed[t][x] \in Nat
      BY HeardGrows DEF TypeOK, MemoryIsHeard
    <3>2. CASE pushed'[t] = pushed[t] \/ pushed'[t] = Forgotten
      BY <3>1, <3>2 DEF Forgotten
    <3>3. ASSUME NEW k \in Tasks, PushOk(t, k),
                 pushed'[t] = Remembered(pushed[t], task[t][k].batch)
          PROVE  pushed'[t][x] <= heard'[t].progress[x]
      <4>1. HeardOf(heard[t], task[t][k].batch, x)
        BY <3>3 DEF PushOk, SentIsHeard
      <4>2. Pending(task[t][k].batch, x) \in Nat
        BY PendingType
      <4> QED BY <3>1, <3>3, <4>1, <4>2 DEF HeardOf, Remembered, Larger
    <3>4. Recalled(t)
      BY NextRecalled
    <3> QED BY <3>2, <3>3, <3>4 DEF Recalled
  <2> QED BY <2>1, <2>2, <2>3 DEF MemoryIsHeard, BatchIsMapped
<1> QED BY <1>1, <1>2, TypeCorrect, PTL DEF Spec

(* What is remembered as sent to a tracker is never more than it was told: the merge,
   silent about what it finds in that memory, is silent about nothing the tracker has not
   heard. *)
THEOREM MemoryNeverLeads == Spec => []MemoryIsHeard
<1>1. HeardInv => MemoryIsHeard
  BY DEF HeardInv
<1> QED BY <1>1, HeardInvariant, PTL

-----------------------------------------------------------------------------
(* An id names one edit. *)

Alive(t)       == outbox[t] \cup UNION {task[t][k].batch : k \in Tasks}
SameEdit(r, q) == /\ r.id = q.id /\ r.op = q.op /\ r.title = q.title
                  /\ r.op = "status" => r.value = q.value

(* The rows of a tracker that share an id, queued or in the hands of a drain, are one
   edit: what a drain completes by id is what it sent. *)
IdIsOneEdit == \A t \in Trackers : \A r, q \in Alive(t) : r.id = q.id => SameEdit(r, q)

(* A row of the next state is one of this state's, or the one just queued. *)
Descends(t, r) == \E q \in Alive(t) : SameEdit(r, q)
Fresh(t, r)    == /\ r.id \in RowIds /\ IsNewId(t, r.id)
                  /\ outbox'[t] = outbox[t] \cup {r}

LEMMA QueueDescends ==
    ASSUME TypeOK, NEW t \in Trackers, QueueStep(t), NEW r \in outbox'[t]
    PROVE  Descends(t, r) \/ Fresh(t, r)
<1>0. outbox[t] \in SUBSET Row /\ outbox[t] \subseteq Alive(t)
  BY DEF TypeOK, Alive
<1> SUFFICES (\E q \in outbox[t] : SameEdit(r, q)) \/ Fresh(t, r)
  BY <1>0 DEF Descends
<1>1. CASE r \in outbox[t]
  BY <1>1 DEF SameEdit
<1>2. CASE Kept(t)
  BY <1>1, <1>2 DEF Kept
<1>3. CASE Advanced(t)
  <2>1. PICK i \in RowIds, x \in Titles, v \in Nat :
           IsNewId(t, i) /\ outbox'[t] = EnqueueProgress(outbox[t], i, x, v)
    BY <1>3 DEF Advanced
  <2>2. CASE ProgressRows(outbox[t], x) = {}
    <3>1. outbox'[t] = outbox[t] \cup {NewRow(i, x, "progress", v)}
      BY <2>1, <2>2 DEF EnqueueProgress
    <3>2. NewRow(i, x, "progress", v).id = i
      BY DEF NewRow
    <3>3. CASE r = NewRow(i, x, "progress", v)
      BY <2>1, <3>1, <3>2, <3>3 DEF Fresh
    <3> QED BY <1>1, <3>1, <3>3
  <2>3. CASE ProgressRows(outbox[t], x) # {}
    <3>1. PICK q \in outbox[t] :
             r = IF q \in ProgressRows(outbox[t], x) /\ q.value < v
                 THEN [q EXCEPT !.value = v] ELSE q
      BY <2>1, <2>3 DEF EnqueueProgress
    <3>2. q \in Row
      BY <1>0
    <3>3. CASE q \in ProgressRows(outbox[t], x)
      BY <3>1, <3>2, <3>3 DEF SameEdit, ProgressRows, Row
    <3> QED BY <1>1, <3>1, <3>3
  <2> QED BY <2>2, <2>3
<1>4. CASE Edited(t)
  <2>1. PICK i \in RowIds, x \in Titles, v \in Nat :
           IsNewId(t, i) /\ outbox'[t] = outbox[t] \cup {NewRow(i, x, "status", v)}
    BY <1>4 DEF Edited, EnqueueStatus
  <2>2. NewRow(i, x, "status", v).id = i
    BY DEF NewRow
  <2>3. CASE r = NewRow(i, x, "status", v)
    BY <2>1, <2>2, <2>3 DEF Fresh
  <2> QED BY <1>1, <2>1, <2>3
<1>5. CASE HeldBack(t)
  <2>1. PICK q \in outbox[t] : r = q \/ r = Held(q)
    BY <1>5 DEF HeldBack, Deferred
  <2>2. q \in Row
    BY <1>0
  <2> QED BY <1>1, <2>1, <2>2 DEF Held, SameEdit, Row
<1>6. CASE Stirred(t)
  <2>1. PICK q \in outbox[t] : r = q \/ r = [q EXCEPT !.wait = "due"]
    BY <1>6 DEF Stirred, Woken
  <2>2. q \in Row
    BY <1>0
  <2> QED BY <1>1, <2>1, <2>2 DEF SameEdit, Row
<1>7. CASE Sent(t)
  BY <1>1, <1>7 DEF Sent, Completed
<1>8. CASE Failed(t)
  <2>1. PICK q \in outbox[t] : r = q \/ r = Retried(q)
    BY <1>8 DEF Failed, FailedRows, GivenUp
  <2>2. q \in Row
    BY <1>0
  <2> QED BY <1>1, <2>1, <2>2 DEF Retried, SameEdit, Row
<1>9. CASE Ripened(t)
  <2>1. PICK q \in outbox[t] : r \in outbox[t] \/ r = [q EXCEPT !.wait = "due"]
    BY <1>9 DEF Ripened
  <2>2. q \in Row
    BY <1>0
  <2> QED BY <1>1, <2>1, <2>2 DEF SameEdit, Row
<1> QED BY <1>2, <1>3, <1>4, <1>5, <1>6, <1>7, <1>8, <1>9 DEF QueueStep

LEMMA AliveDescends ==
    ASSUME TypeOK, [Next]_vars, NEW t \in Trackers, NEW r \in Alive(t)'
    PROVE  Descends(t, r) \/ Fresh(t, r)
<1>1. CASE r \in outbox'[t]
  BY <1>1, NextQueueStep, QueueDescends
<1>2. ASSUME NEW k \in Tasks, r \in task'[t][k].batch PROVE Descends(t, r)
  <2>1. TaskStep(t, k)
    BY NextTaskStep
  <2>2. r \in Alive(t)
    BY <1>2, <2>1 DEF TaskStep, Begun, Idle, Alive
  <2> QED BY <2>2 DEF Descends, SameEdit
<1> QED BY <1>1, <1>2 DEF Alive

LEMMA FreshIsNew ==
    ASSUME NEW t \in Trackers, NEW r, Fresh(t, r), NEW q \in Alive(t)
    PROVE  q.id # r.id
<1>1. q.id \in LiveIds(t)
  BY DEF Alive, LiveIds, IdsOf
<1>2. q.id < r.id
  BY <1>1 DEF Fresh, IsNewId
<1>3. r.id \in Nat
  BY DEF Fresh, RowIds
<1> QED BY <1>2, <1>3

LEMMA IdsNameEdits == Spec => []IdIsOneEdit
<1>1. Init => IdIsOneEdit
  BY DEF Init, IdIsOneEdit, Alive, Idle
<1>2. TypeOK /\ IdIsOneEdit /\ [Next]_vars => IdIsOneEdit'
  <2> SUFFICES ASSUME TypeOK, IdIsOneEdit, [Next]_vars, NEW t \in Trackers,
                      NEW r \in Alive(t)', NEW q \in Alive(t)', r.id = q.id
               PROVE  SameEdit(r, q)
    BY DEF IdIsOneEdit
  <2>1. (Descends(t, r) \/ Fresh(t, r)) /\ (Descends(t, q) \/ Fresh(t, q))
    BY AliveDescends
  <2>2. CASE Descends(t, r) /\ Descends(t, q)
    <3>1. PICK r1 \in Alive(t), q1 \in Alive(t) : SameEdit(r, r1) /\ SameEdit(q, q1)
      BY <2>2 DEF Descends
    <3>2. SameEdit(r1, q1)
      BY <3>1 DEF SameEdit, IdIsOneEdit
    <3> QED BY <3>1, <3>2 DEF SameEdit
  <2>3. CASE Fresh(t, r) /\ Descends(t, q)
    BY <2>3, FreshIsNew DEF Descends, SameEdit
  <2>4. CASE Descends(t, r) /\ Fresh(t, q)
    BY <2>4, FreshIsNew DEF Descends, SameEdit
  <2>5. CASE Fresh(t, r) /\ Fresh(t, q)
    <3>1. r \notin outbox[t] /\ q \notin outbox[t]
      BY <2>5, FreshIsNew DEF Alive
    <3>2. q \in outbox'[t]
      BY <2>5 DEF Fresh
    <3>3. r = q
      BY <2>5, <3>1, <3>2 DEF Fresh
    <3> QED BY <3>3 DEF SameEdit
  <2> QED BY <2>1, <2>2, <2>3, <2>4, <2>5
<1> QED BY <1>1, <1>2, TypeCorrect, PTL DEF Spec

(* A status edit leaves the queue only when the tracker has taken it, or its attempts
   are spent: not with a batch it was not in, not by another drain's answer. *)
THEOREM EditsAreKept == Spec => NoEditLost
<1> DEFINE Step == \A t \in Trackers : \A r \in outbox[t] :
               (r.op = "status" /\ r.id \notin IdsOf(outbox'[t]))
                  => r.value \in heard[t].edits \/ r.attempts = MaxAttempts - 1
<1>1. TypeOK /\ HeardInv /\ IdIsOneEdit /\ [Next]_vars => Step
  <2> SUFFICES ASSUME TypeOK, HeardInv, IdIsOneEdit, [Next]_vars,
                      NEW t \in Trackers, NEW r \in outbox[t],
                      r.op = "status", r.id \notin IdsOf(outbox'[t])
               PROVE  r.value \in heard[t].edits \/ r.attempts = MaxAttempts - 1
    OBVIOUS
  <2>0. r \in Row /\ \A q \in outbox'[t] : q.id # r.id
    BY DEF TypeOK, IdsOf
  <2>1. QueueStep(t)
    BY NextQueueStep
  <2>2. CASE Sent(t)
    <3>1. PICK k \in Tasks : PushOk(t, k) /\ outbox'[t] = Completed(outbox[t], task[t][k].batch)
      BY <2>2 DEF Sent
    <3>2. PICK q \in task[t][k].batch : q.id = r.id
      BY <2>0, <3>1 DEF Completed, IdsOf
    <3>3. q \in Alive(t) /\ r \in Alive(t) /\ q \in Row
      BY DEF Alive, TypeOK, Push
    <3>4. SameEdit(q, r)
      BY <3>2, <3>3 DEF IdIsOneEdit
    <3>5. q.title \in Titles /\ q \in StatusRows(task[t][k].batch, q.title) /\ q.value = r.value
      BY <3>3, <3>4 DEF SameEdit, StatusRows, Row
    <3>6. HeardOf(heard[t], task[t][k].batch, q.title)
      BY <3>1, <3>5 DEF PushOk, HeardInv, SentIsHeard
    <3> QED BY <3>5, <3>6 DEF HeardOf
  <2>3. CASE Failed(t)
    <3>1. PICK k \in Tasks : outbox'[t] = FailedRows(outbox[t], task[t][k].batch)
      BY <2>3 DEF Failed
    <3>2. r \in GivenUp(outbox[t], task[t][k].batch)
      <4>1. Retried(r).id = r.id
        BY <2>0 DEF Retried, Row
      <4> QED BY <2>0, <3>1, <4>1 DEF FailedRows
    <3>3. r.attempts \in 0..(MaxAttempts - 1) /\ r.attempts + 1 >= MaxAttempts
      BY <2>0, <3>2 DEF GivenUp, Row
    <3> QED BY <3>3, ConstantsAssumption
  <2>4. CASE Kept(t) \/ Edited(t)
    BY <2>0, <2>4 DEF Kept, Edited, EnqueueStatus
  <2>5. CASE Advanced(t)
    <3>1. PICK i \in RowIds, x \in Titles, v \in Nat :
             outbox'[t] = EnqueueProgress(outbox[t], i, x, v)
      BY <2>5 DEF Advanced
    <3>2. r \notin ProgressRows(outbox[t], x)
      BY DEF ProgressRows
    <3>3. r \in outbox'[t]
      BY <3>1, <3>2 DEF EnqueueProgress
    <3> QED BY <2>0, <3>3
  <2>6. CASE HeldBack(t)
    <3>1. PICK q \in outbox'[t] : q = r \/ q = Held(r)
      BY <2>6 DEF HeldBack, Deferred
    <3> QED BY <2>0, <3>1 DEF Held, Row
  <2>7. CASE Stirred(t)
    <3>1. PICK q \in outbox'[t] : q = r \/ q = [r EXCEPT !.wait = "due"]
      BY <2>7 DEF Stirred, Woken
    <3> QED BY <2>0, <3>1 DEF Row
  <2>8. CASE Ripened(t)
    <3>1. PICK q \in outbox'[t] : q = r \/ q = [r EXCEPT !.wait = "due"]
      BY <2>8 DEF Ripened
    <3> QED BY <2>0, <3>1 DEF Row
  <2> QED BY <2>1, <2>2, <2>3, <2>4, <2>5, <2>6, <2>7, <2>8 DEF QueueStep
<1> QED BY <1>1, TypeCorrect, HeardInvariant, IdsNameEdits, PTL DEF Spec, NoEditLost

-----------------------------------------------------------------------------
(* What is remembered is on the list of the account. *)

(* The premises: one account is ever signed in to, one drain runs at a time and no mark is
   taken back.  Without any of the three the memory can outrun the list. *)
OneAccount == \A a, b \in Accounts : a = b
OneDrain   == \A j, k \in Tasks : j = k

(* A set whose highest member is an episode or 0 reaches just that far. *)
LEMMA ReachedBounds ==
    ASSUME NEW S \in SUBSET Nat, NEW m \in 0..MaxEpisode
    PROVE  /\ m \in S => m <= Reached(S)
           /\ (\A e \in S : e <= m) => Reached(S) <= m
<1> DEFINE N == {n \in Episodes : \E e \in S : n <= e}
<1>1. IsFiniteSet(1..m) /\ Cardinality(1..m) = m /\ IsFiniteSet(1..MaxEpisode)
  <2>1. m \in Nat /\ m \in Int /\ 1 \in Int /\ MaxEpisode \in Int /\ 1 <= m + 1
    BY ConstantsAssumption
  <2>2. Cardinality(1..m) = IF 1 > m THEN 0 ELSE m - 1 + 1
    BY <2>1, FS_Interval
  <2> QED BY <2>1, <2>2, FS_Interval
<1>2. N \in SUBSET (1..MaxEpisode) /\ IsFiniteSet(N)
  <2>1. N \in SUBSET (1..MaxEpisode)
    BY DEF Episodes
  <2> QED BY <1>1, <2>1, FS_Subset
<1>3. ASSUME m \in S PROVE m <= Reached(S)
  <2>1. 1..m \in SUBSET N
    BY <1>3, ConstantsAssumption DEF Episodes
  <2>2. Cardinality(1..m) <= Cardinality(N)
    BY <1>2, <2>1, FS_Subset
  <2> QED BY <1>1, <2>2 DEF Reached
<1>4. ASSUME \A e \in S : e <= m PROVE Reached(S) <= m
  <2>1. N \in SUBSET (1..m)
    BY <1>4, ConstantsAssumption DEF Episodes
  <2>2. Cardinality(N) <= Cardinality(1..m)
    BY <1>1, <2>1, FS_Subset
  <2> QED BY <1>1, <2>2 DEF Reached
<1> QED BY <1>3, <1>4

(* The same of what is queued: it covers every row, and is covered by what covers all. *)
LEMMA PendingBounds ==
    ASSUME NEW rows \in SUBSET Row, NEW x, NEW m \in 0..MaxEpisode
    PROVE  /\ (\A r \in ProgressRows(rows, x) : r.value <= m) => Pending(rows, x) <= m
           /\ \A r \in ProgressRows(rows, x) : r.value = m => m <= Pending(rows, x)
<1> DEFINE S == {r.value : r \in ProgressRows(rows, x)}
<1>1. S \in SUBSET Nat
  BY DEF ProgressRows, Row
<1>2. /\ m \in S => m <= Reached(S)
      /\ (\A e \in S : e <= m) => Reached(S) <= m
  BY <1>1, ReachedBounds
<1> QED BY <1>2 DEF Pending

(* Without a mark taken back, local history only reaches further. *)
LEMMA HistoryGrows ==
    ASSUME TypeOK, TypeOK', ~CanUnmark, [Next]_vars, NEW x \in Titles
    PROVE  /\ Reached(watched[x]) <= Reached(watched'[x])
           /\ Reached(watched[x]) \in 0..MaxEpisode /\ Reached(watched[x]) \in Nat
           /\ Reached(watched'[x]) \in 0..MaxEpisode /\ Reached(watched'[x]) \in Nat
<1>1. watched[x] \subseteq watched'[x]
  <2>1. CASE UNCHANGED watched
    BY <2>1
  <2>2. ASSUME NEW e \in Episodes, CommitEpisode(e) PROVE watched[x] \subseteq watched'[x]
    BY <2>2 DEF CommitEpisode, TypeOK
  <2>3. ASSUME NEW y \in Titles, NEW e \in Episodes, MarkWatched(y, e)
        PROVE  watched[x] \subseteq watched'[x]
    BY <2>3 DEF MarkWatched, TypeOK
  <2>4. ASSUME NEW t \in Trackers, NEW y \in Titles, MergeEntry(t, y)
        PROVE  watched[x] \subseteq watched'[x]
    BY <2>4 DEF MergeEntry, TypeOK
  <2>5. CASE UNCHANGED vars
    BY <2>1, <2>5 DEF vars, local
  <2>6. CASE Next
    <3>1. CASE User
      BY <2>1, <2>2, <2>3, <3>1
         DEF User, StartPlayback, AbandonPlayback, Unmark, SetStatus, SignIn, SignOut,
             WatchElsewhere, Restart, local
    <3>2. ASSUME NEW t \in Trackers, NEW k \in Tasks, Drain(t, k)
          PROVE  watched[x] \subseteq watched'[x]
      BY <2>1, <3>2
         DEF Drain, StartDrain, Send, PushOk, PushFailed, PushRejected, local
    <3>3. ASSUME NEW t \in Trackers, Reconcile(t) \/ Passing(t)
          PROVE  watched[x] \subseteq watched'[x]
      BY <2>1, <2>4, <3>3
         DEF Reconcile, FetchLibrary, Passing, RefreshMappings, BackoffElapses, HoldLapses,
             local
    <3> QED BY <2>6, <3>1, <3>2, <3>3 DEF Next
  <2> QED BY <2>5, <2>6
<1>2. watched[x] \in SUBSET Nat /\ watched'[x] \in SUBSET Nat
  BY DEF TypeOK, Episodes
<1>3. \A e \in watched[x] : e \in Nat /\ e \in watched'[x] /\ e <= e
  BY <1>1, <1>2
<1> QED BY <1>2, <1>3, ReachedMonotone, ReachedType

(* The progress rows of the queue stand between what is remembered as sent and what local
   history reaches, and so do the ones a drain claimed. *)
Timely(rows, t, x) ==
    \A r \in ProgressRows(rows, x) : pushed[t][x] <= r.value /\ r.value <= Reached(watched[x])
Abreast ==
    \A t \in Trackers, x \in Titles :
        /\ pushed[t][x] <= Reached(watched[x])
        /\ Timely(outbox[t], t, x)
        /\ \A k \in Tasks : Timely(task[t][k].batch, t, x)

(* A claimed progress row is still queued, by its id, however far it was moved forward. *)
Backed ==
    \A t \in Trackers, k \in Tasks, x \in Titles :
        \A r \in ProgressRows(task[t][k].batch, x) :
            \E q \in ProgressRows(outbox[t], x) : q.id = r.id

(* A title whose request has gone out, and that the service matches, is on the list with
   all the batch holds of it. *)
Reflected ==
    \A t \in Trackers, k \in Tasks, a \in Accounts : \A x \in catalogue[t] \ task[t][k].unsent :
        Pending(task[t][k].batch, x) > 0
            => Pending(task[t][k].batch, x) <= remote[t][a][x].progress

(* What is remembered as sent is on the list, signed in or not. *)
Shown ==
    \A t \in Trackers, a \in Accounts : \A x \in catalogue[t] :
        pushed[t][x] > 0 => pushed[t][x] <= remote[t][a][x].progress

ShownInv == Abreast /\ Backed /\ Reflected /\ Shown

(* The progress rows of the next queue: the ones there were, as high or moved forward to
   a value that is due, or one just queued. *)
LEMMA ProgressDescends ==
    ASSUME TypeOK, NEW t \in Trackers, NEW x \in Titles, QueueStep(t),
           NEW r \in ProgressRows(outbox'[t], x)
    PROVE  \/ \E q \in ProgressRows(outbox[t], x) : q.id = r.id /\ q.value = r.value
           \/ Newly(t, x, r.value)
<1>0. outbox[t] \in SUBSET Row
  BY DEF TypeOK
<1>1. CASE r \in outbox[t]
  BY <1>1 DEF ProgressRows
<1>2. CASE Kept(t)
  BY <1>1, <1>2 DEF Kept, ProgressRows
<1>3. CASE Advanced(t)
  <2>1. PICK i \in RowIds, y \in Titles, v \in Nat :
           Newly(t, y, v) /\ outbox'[t] = EnqueueProgress(outbox[t], i, y, v)
    BY <1>3 DEF Advanced
  <2>2. CASE ProgressRows(outbox[t], y) = {}
    BY <1>1, <2>1, <2>2 DEF EnqueueProgress, ProgressRows, NewRow
  <2>3. CASE ProgressRows(outbox[t], y) # {}
    <3>1. PICK q \in outbox[t] :
             r = IF q \in ProgressRows(outbox[t], y) /\ q.value < v
                 THEN [q EXCEPT !.value = v] ELSE q
      BY <2>1, <2>3 DEF EnqueueProgress, ProgressRows
    <3>2. q \in Row
      BY <1>0
    <3>3. CASE r = q
      BY <1>1, <3>3
    <3>4. CASE q \in ProgressRows(outbox[t], y) /\ r = [q EXCEPT !.value = v]
      <4>1. r.value = v /\ r.title = y /\ r.title = x
        BY <3>2, <3>4 DEF ProgressRows, Row
      <4> QED BY <2>1, <4>1
    <3> QED BY <3>1, <3>3, <3>4
  <2> QED BY <2>2, <2>3
<1>4. CASE Edited(t)
  BY <1>1, <1>4 DEF Edited, EnqueueStatus, ProgressRows, NewRow
<1>5. CASE HeldBack(t)
  <2>1. PICK held \in SUBSET outbox[t] : outbox'[t] = Deferred(outbox[t], held)
    BY <1>5 DEF HeldBack
  <2>2. PICK q \in outbox[t] : r = q \/ r = Held(q)
    BY <2>1 DEF Deferred, ProgressRows
  <2>3. q \in Row
    BY <1>0
  <2> QED BY <1>1, <2>2, <2>3 DEF Held, ProgressRows, Row
<1>6. CASE Stirred(t)
  <2>1. PICK q \in ProgressRows(outbox[t], x) :
           r = IF q.wait = "deferred" THEN [q EXCEPT !.wait = "due"] ELSE q
    BY <1>0, <1>6, SameOps DEF Stirred
  <2> QED BY <1>0, <2>1 DEF ProgressRows, Row
<1>7. CASE Sent(t)
  BY <1>1, <1>7 DEF Sent, Completed, ProgressRows
<1>8. CASE Failed(t)
  <2>1. PICK k \in Tasks : outbox'[t] = FailedRows(outbox[t], task[t][k].batch)
    BY <1>8 DEF Failed
  <2>2. PICK q \in ProgressRows(outbox[t], x) \ GivenUp(outbox[t], task[t][k].batch) :
           r = IF q.id \in IdsOf(task[t][k].batch) THEN Retried(q) ELSE q
    BY <1>0, <2>1, SameOps
  <2> QED BY <1>0, <2>2 DEF Retried, ProgressRows, Row
<1>9. CASE Ripened(t)
  <2>1. PICK p \in outbox[t] :
           outbox'[t] = (outbox[t] \ {p}) \cup {[p EXCEPT !.wait = "due"]}
    BY <1>9 DEF Ripened
  <2>2. p \in Row
    BY <1>0
  <2>3. CASE r = [p EXCEPT !.wait = "due"]
    BY <2>2, <2>3 DEF ProgressRows, Row
  <2> QED BY <1>1, <2>1, <2>3 DEF ProgressRows
<1> QED BY <1>2, <1>3, <1>4, <1>5, <1>6, <1>7, <1>8, <1>9 DEF QueueStep

(* A progress row leaves the queue only with the answer to a drain. *)
LEMMA ProgressStays ==
    ASSUME TypeOK, NEW t \in Trackers, NEW x \in Titles, QueueStep(t),
           NEW q \in ProgressRows(outbox[t], x)
    PROVE  \/ \E r \in ProgressRows(outbox'[t], x) : r.id = q.id
           \/ \E k \in Tasks : PushOk(t, k) \/ PushFailed(t, k)
<1>0. outbox[t] \in SUBSET Row
  BY DEF TypeOK
<1>1. q \in Row /\ q.op = "progress" /\ q.title = x /\ q \in outbox[t]
  BY <1>0 DEF ProgressRows
<1>2. CASE q \in outbox'[t]
  BY <1>1, <1>2 DEF ProgressRows
<1>3. CASE Kept(t)
  BY <1>1, <1>2, <1>3 DEF Kept
<1>4. CASE Advanced(t)
  <2>1. PICK i \in RowIds, y \in Titles, v \in Nat :
           outbox'[t] = EnqueueProgress(outbox[t], i, y, v)
    BY <1>4 DEF Advanced
  <2> DEFINE p == IF q \in ProgressRows(outbox[t], y) /\ q.value < v
                  THEN [q EXCEPT !.value = v] ELSE q
  <2>2. CASE ProgressRows(outbox[t], y) = {}
    BY <1>1, <1>2, <2>1, <2>2 DEF EnqueueProgress
  <2>3. CASE ProgressRows(outbox[t], y) # {}
    <3>1. p \in outbox'[t]
      BY <1>1, <2>1, <2>3 DEF EnqueueProgress
    <3>2. p.op = "progress" /\ p.title = x /\ p.id = q.id
      BY <1>1 DEF Row
    <3> QED BY <3>1, <3>2 DEF ProgressRows
  <2> QED BY <2>2, <2>3
<1>5. CASE Edited(t)
  BY <1>1, <1>2, <1>5 DEF Edited, EnqueueStatus
<1>6. CASE HeldBack(t)
  <2>1. PICK p \in outbox'[t] : p = q \/ p = Held(q)
    BY <1>1, <1>6 DEF HeldBack, Deferred
  <2> QED BY <1>1, <2>1 DEF ProgressRows, Row, Held
<1>7. CASE Stirred(t)
  <2>1. PICK p \in outbox'[t] : p = q \/ p = [q EXCEPT !.wait = "due"]
    BY <1>1, <1>7 DEF Stirred, Woken
  <2> QED BY <1>1, <2>1 DEF ProgressRows, Row
<1>8. CASE Sent(t) \/ Failed(t)
  BY <1>8 DEF Sent, Failed
<1>9. CASE Ripened(t)
  <2>1. PICK p \in outbox'[t] : p = q \/ p = [q EXCEPT !.wait = "due"]
    BY <1>1, <1>9 DEF Ripened
  <2> QED BY <1>1, <2>1 DEF ProgressRows, Row
<1> QED BY <1>3, <1>4, <1>5, <1>6, <1>7, <1>8, <1>9 DEF QueueStep

(* Nothing changes what a service matches.  A request taken rewrites one entry from the
   batch it carried; apart from that an entry only goes up. *)
RemoteStep(t, a, x) ==
    \/ remote[t][a][x].progress <= remote'[t][a][x].progress
    \/ \E k \in Tasks :
          /\ Send(t, k, x)
          /\ remote'[t][a][x] = Saved(remote[t][a][x], task[t][k].batch, x)

LEMMA NextRemoteStep ==
    ASSUME TypeOK, [Next]_vars, NEW t \in Trackers, NEW a \in Accounts, NEW x \in Titles
    PROVE  catalogue' = catalogue /\ RemoteStep(t, a, x)
<1> DEFINE Step == catalogue' = catalogue /\ RemoteStep(t, a, x)
<1> USE DEF RemoteStep
<1>0. remote[t][a][x].progress <= remote[t][a][x].progress
  <2>1. remote[t][a][x] \in Entry
    BY DEF TypeOK
  <2>2. remote[t][a][x].progress \in Int
    BY <2>1, ConstantsAssumption DEF Entry, Figures, Unlisted
  <2> QED BY <2>2
<1>1. CASE UNCHANGED world
  BY <1>0, <1>1 DEF world
<1>2. ASSUME NEW u \in Trackers, NEW b \in Accounts, NEW y \in Titles, NEW e \in Elsewhere,
             WatchElsewhere(u, b, y, e)
      PROVE  Step
  <2>1. /\ catalogue' = catalogue /\ e > remote[u][b][y].progress
        /\ remote' = [remote EXCEPT ![u][b][y].progress = e]
    BY <1>2 DEF WatchElsewhere
  <2>2. CASE u = t /\ b = a /\ y = x
    <3>1. remote'[t][a][x] = [remote[t][a][x] EXCEPT !.progress = e]
      <4>1. remote \in [Trackers -> [Accounts -> [Titles -> Entry]]]
        BY DEF TypeOK
      <4>2. remote' = [remote EXCEPT ![t][a][x].progress = e]
        BY <2>1, <2>2
      <4>3. remote'[t] = [remote[t] EXCEPT ![a][x].progress = e]
        BY <4>1, <4>2
      <4>4. remote'[t][a] = [remote[t][a] EXCEPT ![x].progress = e]
        BY <4>1, <4>3
      <4> QED BY <4>1, <4>4
    <3>2. remote'[t][a][x].progress = e
      BY <3>1 DEF TypeOK, Entry
    <3>3. e \in Nat /\ remote[t][a][x].progress \in Figures
      BY ConstantsAssumption DEF TypeOK, Entry
    <3>4. remote[t][a][x].progress <= e
      BY <2>1, <2>2, <3>3, ConstantsAssumption DEF Figures, Unlisted
    <3> QED BY <2>1, <3>2, <3>4
  <2>3. CASE ~(u = t /\ b = a /\ y = x)
    <3>1. remote'[t][a][x] = remote[t][a][x]
      BY <2>1, <2>3 DEF TypeOK
    <3> QED BY <1>0, <2>1, <3>1
  <2> QED BY <2>2, <2>3
<1>3. ASSUME NEW u \in Trackers, NEW k \in Tasks, NEW y \in Titles, Send(u, k, y) PROVE Step
  <2>1. {task[u][k].cred, account[u]} \ {NoAccount} \subseteq Accounts
    BY DEF TypeOK, Push
  <2>2. PICK b \in Accounts :
           remote' = IF y \in mapped[u] \cap catalogue[u]
                     THEN [remote EXCEPT ![u][b][y] = Saved(@, task[u][k].batch, y)]
                     ELSE remote
    BY <1>3, <2>1 DEF Send
  <2>3. catalogue' = catalogue
    BY <1>3 DEF Send
  <2>4. CASE u = t /\ b = a /\ y = x /\ remote' # remote
    <3>1. remote'[t][a][x] = Saved(remote[t][a][x], task[t][k].batch, x)
      BY <2>2, <2>4 DEF TypeOK
    <3> QED BY <1>3, <2>3, <2>4, <3>1
  <2>5. CASE ~(u = t /\ b = a /\ y = x /\ remote' # remote)
    <3>1. remote'[t][a][x] = remote[t][a][x]
      BY <2>2, <2>5 DEF TypeOK
    <3> QED BY <1>0, <2>3, <3>1
  <2> QED BY <2>4, <2>5
<1>4. CASE UNCHANGED vars
  BY <1>1, <1>4 DEF vars
<1>5. CASE Next
  <2>1. CASE User
    BY <1>1, <1>2, <2>1
       DEF User, StartPlayback, CommitEpisode, AbandonPlayback, MarkWatched, Unmark, SetStatus,
           SignIn, SignOut, Restart
  <2>2. ASSUME NEW u \in Trackers, NEW k \in Tasks, Drain(u, k) PROVE Step
    BY <1>1, <1>3, <2>2 DEF Drain, StartDrain, PushOk, PushFailed, PushRejected
  <2>3. ASSUME NEW u \in Trackers, Reconcile(u) \/ Passing(u) PROVE Step
    BY <1>1, <2>3
       DEF Reconcile, FetchLibrary, MergeEntry, Passing, RefreshMappings, BackoffElapses,
           HoldLapses
  <2> QED BY <1>5, <2>1, <2>2, <2>3 DEF Next
<1> QED BY <1>4, <1>5

(* With one account, a request for a title the service matches leaves its batch there. *)
LEMMA SendIsSaved ==
    ASSUME TypeOK, OneAccount, NEW t \in Trackers, NEW k \in Tasks, NEW a \in Accounts,
           NEW x \in Titles, Send(t, k, x), x \in mapped[t], x \in catalogue[t]
    PROVE  remote'[t][a][x] = Saved(remote[t][a][x], task[t][k].batch, x)
<1>1. {task[t][k].cred, account[t]} \ {NoAccount} \subseteq Accounts
  BY DEF TypeOK, Push
<1>2. PICK b \in Accounts : remote' = [remote EXCEPT ![t][b][x] = Saved(@, task[t][k].batch, x)]
  BY <1>1 DEF Send
<1>3. b = a
  BY DEF OneAccount
<1> QED BY <1>2, <1>3 DEF TypeOK

(* A batch carries at least what it is between. *)
LEMMA TimelyPending ==
    ASSUME TypeOK, NEW t \in Trackers, NEW x \in Titles, NEW rows \in SUBSET Row,
           Timely(rows, t, x)
    PROVE  /\ Pending(rows, x) <= Reached(watched[x])
           /\ \A r \in ProgressRows(rows, x) : r.value <= Pending(rows, x)
<1>1. Reached(watched[x]) \in 0..MaxEpisode
  BY ReachedType
<1>2. ASSUME NEW r \in ProgressRows(rows, x)
      PROVE  r.value <= Reached(watched[x]) /\ r.value \in 0..MaxEpisode
  <2>1. r.value \in Nat
    BY DEF ProgressRows, Row
  <2>2. r.value <= Reached(watched[x])
    BY DEF Timely
  <2> QED BY <1>1, <2>1, <2>2, ConstantsAssumption
<1>3. Pending(rows, x) <= Reached(watched[x])
  BY <1>1, <1>2, PendingBounds
<1> QED BY <1>2, <1>3, PendingBounds

(* What is remembered, what is queued and what is claimed stay in order. *)
LEMMA AbreastStep ==
    ASSUME TypeOK, TypeOK', OneProgressRow, ~CanUnmark, OneDrain, ShownInv, [Next]_vars,
           NEW t \in Trackers, NEW x \in Titles
    PROVE  /\ pushed'[t][x] <= Reached(watched'[x])
           /\ Timely(outbox[t], t, x)'
           /\ \A k \in Tasks : Timely(task[t][k].batch, t, x)'
<1>0. /\ pushed[t][x] \in Nat /\ pushed'[t][x] \in Nat
      /\ outbox[t] \in SUBSET Row /\ outbox'[t] \in SUBSET Row
      /\ \A k \in Tasks : task[t][k].batch \in SUBSET Row
      /\ \A k \in Tasks : task'[t][k].batch \in SUBSET Row
  BY DEF TypeOK, Push
<1>1. /\ Reached(watched[x]) <= Reached(watched'[x])
      /\ Reached(watched[x]) \in Nat /\ Reached(watched'[x]) \in Nat
  BY HistoryGrows
<1>2. /\ pushed[t][x] <= Reached(watched[x])
      /\ Timely(outbox[t], t, x)
      /\ \A k \in Tasks : Timely(task[t][k].batch, t, x)
  BY DEF ShownInv, Abreast
<1>3. QueueStep(t) /\ \A k \in Tasks : TaskStep(t, k)
  BY NextQueueStep, NextTaskStep
\* A value newly queued is due: it is past what was sent, and local history reaches it.
<1>4. ASSUME NEW v \in Nat, Newly(t, x, v)
      PROVE  pushed[t][x] <= v /\ v <= Reached(watched'[x])
  <2>1. CASE v = Reached(watched'[x])
    BY <1>0, <1>1, <1>2, <2>1
  <2>2. CASE v = Larger(Reached(watched[x]), Pending(outbox[t], x)) /\ pushed[t][x] < v
    <3>1. Pending(outbox[t], x) <= Reached(watched[x]) /\ Pending(outbox[t], x) \in Nat
      BY <1>0, <1>2, TimelyPending, PendingType
    <3>2. v <= Reached(watched[x])
      BY <1>1, <2>2, <3>1 DEF Larger
    <3> QED BY <1>0, <1>1, <2>2, <3>2
  <2> QED BY <1>4, <2>1, <2>2 DEF Newly
<1>5. ASSUME NEW r \in ProgressRows(outbox'[t], x)
      PROVE  pushed[t][x] <= r.value /\ r.value <= Reached(watched'[x])
  <2>1. r.value \in Nat
    BY <1>0 DEF ProgressRows, Row
  <2>2. CASE \E q \in ProgressRows(outbox[t], x) : q.id = r.id /\ q.value = r.value
    BY <1>0, <1>1, <1>2, <2>1, <2>2 DEF Timely
  <2>3. CASE Newly(t, x, r.value)
    BY <1>4, <2>1, <2>3
  <2> QED BY <1>3, <2>2, <2>3, ProgressDescends
<1>6. ASSUME NEW k \in Tasks, NEW r \in ProgressRows(task'[t][k].batch, x)
      PROVE  pushed[t][x] <= r.value /\ r.value <= Reached(watched'[x])
  <2>1. r.value \in Nat
    BY <1>0 DEF ProgressRows, Row
  <2>2. r \in ProgressRows(task[t][k].batch, x) \/ r \in ProgressRows(outbox[t], x)
    BY <1>3, <1>6 DEF TaskStep, Begun, Idle, ProgressRows
  <2>3. pushed[t][x] <= r.value /\ r.value <= Reached(watched[x])
    BY <1>2, <2>2 DEF Timely
  <2> QED BY <1>0, <1>1, <2>1, <2>3
<1>7. CASE pushed'[t] = pushed[t]
  BY <1>0, <1>1, <1>2, <1>5, <1>6, <1>7 DEF Timely
<1>8. CASE pushed'[t] = Forgotten
  <2>1. pushed'[t][x] = 0
    BY <1>8 DEF Forgotten
  <2>2. \A r \in ProgressRows(outbox'[t], x) : r.value \in Nat
    BY <1>0 DEF ProgressRows, Row
  <2>3. \A k \in Tasks : \A r \in ProgressRows(task'[t][k].batch, x) : r.value \in Nat
    BY <1>0 DEF ProgressRows, Row
  <2>4. \A r \in ProgressRows(outbox'[t], x) : 0 <= r.value
    BY <2>2
  <2>5. \A k \in Tasks : \A r \in ProgressRows(task'[t][k].batch, x) : 0 <= r.value
    BY <2>3
  <2> QED BY <1>1, <1>5, <1>6, <2>1, <2>4, <2>5 DEF Timely
\* The answer takes the claimed row with it, the only one there was.
<1>9. ASSUME NEW k \in Tasks, PushOk(t, k),
             pushed'[t] = Remembered(pushed[t], task[t][k].batch)
      PROVE  /\ pushed'[t][x] <= Reached(watched'[x])
             /\ Timely(outbox[t], t, x)'
             /\ \A j \in Tasks : Timely(task[t][j].batch, t, x)'
  <2> DEFINE batch == task[t][k].batch
  <2>1. Pending(batch, x) \in Nat /\ Pending(batch, x) <= Reached(watched[x])
    BY <1>0, <1>2, TimelyPending, PendingType
  <2>2. pushed'[t][x] = Larger(pushed[t][x], Pending(batch, x))
    BY <1>9 DEF Remembered
  <2>3. pushed'[t][x] <= Reached(watched'[x])
    BY <1>0, <1>1, <1>2, <2>1, <2>2 DEF Larger
  <2>4. ASSUME NEW j \in Tasks PROVE task'[t][j].batch = {}
    <3>1. j = k
      BY DEF OneDrain
    <3>2. task'[t][k] = Idle
      BY <1>9 DEF PushOk, TypeOK
    <3> QED BY <3>1, <3>2 DEF Idle
  <2>5. \A j \in Tasks : Timely(task[t][j].batch, t, x)'
    BY <2>4 DEF Timely, ProgressRows
  <2>6. ASSUME NEW r \in ProgressRows(outbox'[t], x) PROVE pushed'[t][x] <= r.value
    <3>1. r \in ProgressRows(outbox[t], x) /\ r.id \notin IdsOf(batch)
      BY <1>9 DEF PushOk, Completed, ProgressRows, TypeOK
    <3>2. ProgressRows(batch, x) = {}
      <4>1. ASSUME NEW p \in ProgressRows(batch, x) PROVE FALSE
        <5>1. PICK q \in ProgressRows(outbox[t], x) : q.id = p.id
          BY DEF ShownInv, Backed
        <5>2. q = r
          BY <3>1 DEF OneProgressRow
        <5> QED BY <3>1, <5>1, <5>2 DEF IdsOf, ProgressRows
      <4> QED BY <4>1
    <3>3. Pending(batch, x) = 0
      BY <3>2, PendingNone
    <3>4. pushed'[t][x] = pushed[t][x]
      BY <1>0, <2>2, <3>3 DEF Larger
    <3> QED BY <1>5, <3>4
  <2> QED BY <1>5, <2>3, <2>5, <2>6 DEF Timely
<1>10. Recalled(t)
  BY NextRecalled
<1> QED BY <1>7, <1>8, <1>9, <1>10 DEF Recalled

(* A claimed row stays queued until its drain, the only one, is answered. *)
LEMMA BackedStep ==
    ASSUME TypeOK, OneDrain, Backed, [Next]_vars,
           NEW t \in Trackers, NEW k \in Tasks, NEW x \in Titles,
           NEW r \in ProgressRows(task'[t][k].batch, x)
    PROVE  \E q \in ProgressRows(outbox'[t], x) : q.id = r.id
<1>1. QueueStep(t) /\ TaskStep(t, k)
  BY NextQueueStep, NextTaskStep
<1>2. PICK p \in ProgressRows(outbox[t], x) : p.id = r.id
  <2>1. r \in ProgressRows(task[t][k].batch, x) \/ r \in ProgressRows(outbox[t], x)
    BY <1>1 DEF TaskStep, Begun, Idle, ProgressRows
  <2> QED BY <2>1 DEF Backed
<1>3. ASSUME NEW j \in Tasks, PushOk(t, j) \/ PushFailed(t, j) PROVE FALSE
  <2>1. j = k
    BY DEF OneDrain
  <2>2. task'[t][j] = Idle
    BY <1>3 DEF PushOk, PushFailed, TypeOK
  <2> QED BY <2>1, <2>2 DEF Idle, ProgressRows
<1> QED BY <1>1, <1>2, <1>3, ProgressStays

(* A batch sent stays on the list while its drain waits for the answer. *)
LEMMA ReflectedStep ==
    ASSUME TypeOK, TypeOK', OneAccount, OneDrain, BatchIsMapped, Reflected, [Next]_vars,
           NEW t \in Trackers, NEW k \in Tasks, NEW a \in Accounts,
           NEW x \in catalogue'[t] \ task'[t][k].unsent, Pending(task'[t][k].batch, x) > 0
    PROVE  Pending(task'[t][k].batch, x) <= remote'[t][a][x].progress
<1> DEFINE batch == task[t][k].batch
<1>1. TaskStep(t, k) /\ x \in Titles
  BY NextTaskStep DEF TypeOK
<1>2. x \in catalogue[t] /\ RemoteStep(t, a, x)
  BY <1>1, NextRemoteStep
<1>3. ProgressRows(task'[t][k].batch, x) # {} /\ Pending(batch, x) \in Nat
  BY PendingNone, PendingType
<1>4. remote[t][a][x].progress \in Int /\ remote'[t][a][x].progress \in Int
  <2>1. remote[t][a][x] \in Entry /\ remote'[t][a][x] \in Entry
    BY <1>1 DEF TypeOK
  <2> QED BY <2>1, ConstantsAssumption DEF Entry, Figures, Unlisted
\* A request for a title goes out once: one already sent is not written again.
<1>5. CASE x \notin task[t][k].unsent /\ task'[t][k].batch = batch
  <2>1. Pending(batch, x) <= remote[t][a][x].progress
    BY <1>2, <1>5 DEF Reflected
  <2>2. ASSUME NEW j \in Tasks, Send(t, j, x) PROVE FALSE
    BY <1>5, <2>2 DEF Send, OneDrain
  <2>3. remote[t][a][x].progress <= remote'[t][a][x].progress
    BY <1>2, <2>2 DEF RemoteStep
  <2> QED BY <1>3, <1>4, <1>5, <2>1, <2>3
<1>6. CASE task'[t][k] = task[t][k]
  BY <1>5, <1>6
<1>7. CASE task'[t][k] = Idle
  BY <1>3, <1>7 DEF Idle, ProgressRows
<1>8. CASE Begun(t, k)
  BY <1>3, <1>8 DEF Begun, TitlesOf, ProgressRows
<1>9. ASSUME NEW y \in Titles, Send(t, k, y), task'[t][k].batch = batch,
             task'[t][k].unsent = task[t][k].unsent \ {y}
      PROVE  Pending(task'[t][k].batch, x) <= remote'[t][a][x].progress
  <2>1. CASE x # y
    BY <1>5, <1>9, <2>1
  <2>2. CASE x = y
    <3>1. ProgressRows(batch, x) # {} /\ x \in mapped[t]
      BY <1>3, <1>9 DEF BatchIsMapped, ProgressRows
    <3>2. remote'[t][a][x] = Saved(remote[t][a][x], batch, x)
      BY <1>1, <1>2, <1>9, <2>2, <3>1, SendIsSaved
    <3>3. remote'[t][a][x].progress = Pending(batch, x)
      BY <3>1, <3>2 DEF Saved
    <3> QED BY <1>3, <1>9, <3>3
  <2> QED BY <2>1, <2>2
<1> QED BY <1>1, <1>6, <1>7, <1>8, <1>9 DEF TaskStep

(* What is remembered stays on the list: an answer remembers what the list shows, and a
   request never writes less than is remembered. *)
LEMMA ShownStep ==
    ASSUME TypeOK, TypeOK', ShownInv, [Next]_vars,
           NEW t \in Trackers, NEW a \in Accounts, NEW x \in catalogue'[t], pushed'[t][x] > 0
    PROVE  pushed'[t][x] <= remote'[t][a][x].progress
<1>1. x \in Titles
  BY DEF TypeOK
<1>2. x \in catalogue[t] /\ RemoteStep(t, a, x)
  BY <1>1, NextRemoteStep
<1>3. /\ pushed[t][x] \in Nat /\ pushed'[t][x] \in Nat
      /\ remote[t][a][x].progress \in Int /\ remote'[t][a][x].progress \in Int
  <2>1. remote[t][a][x] \in Entry /\ remote'[t][a][x] \in Entry
    BY <1>1 DEF TypeOK
  <2> QED BY <1>1, <2>1, ConstantsAssumption DEF TypeOK, Entry, Figures, Unlisted
<1>4. pushed[t][x] > 0 => pushed[t][x] <= remote[t][a][x].progress
  BY <1>2 DEF ShownInv, Shown
<1>5. CASE pushed'[t] = pushed[t]
  <2>1. CASE remote[t][a][x].progress <= remote'[t][a][x].progress
    BY <1>3, <1>4, <1>5, <2>1
  <2>2. ASSUME NEW k \in Tasks,
               remote'[t][a][x] = Saved(remote[t][a][x], task[t][k].batch, x)
        PROVE  pushed'[t][x] <= remote'[t][a][x].progress
    <3> DEFINE batch == task[t][k].batch
    <3>1. CASE ProgressRows(batch, x) = {}
      <4>1. remote'[t][a][x].progress = Larger(remote[t][a][x].progress, 0)
        BY <2>2, <3>1 DEF Saved
      <4> QED BY <1>3, <1>4, <1>5, <4>1 DEF Larger
    <3>2. ASSUME NEW r \in ProgressRows(batch, x)
          PROVE  pushed'[t][x] <= remote'[t][a][x].progress
      <4>1. remote'[t][a][x].progress = Pending(batch, x)
        BY <2>2, <3>2 DEF Saved
      <4>2. batch \in SUBSET Row /\ Timely(batch, t, x)
        BY <1>1 DEF TypeOK, Push, ShownInv, Abreast
      <4>3. r.value \in Nat /\ pushed[t][x] <= r.value
        BY <4>2 DEF ProgressRows, Row, Timely
      <4>4. r.value <= Pending(batch, x) /\ Pending(batch, x) \in Nat
        BY <1>1, <4>2, TimelyPending, PendingType
      <4> QED BY <1>3, <1>5, <4>1, <4>3, <4>4
    <3> QED BY <3>1, <3>2
  <2> QED BY <1>2, <2>1, <2>2 DEF RemoteStep
<1>6. CASE pushed'[t] = Forgotten
  BY <1>1, <1>6 DEF Forgotten
<1>7. ASSUME NEW k \in Tasks, PushOk(t, k),
             pushed'[t] = Remembered(pushed[t], task[t][k].batch)
      PROVE  pushed'[t][x] <= remote'[t][a][x].progress
  <2> DEFINE batch == task[t][k].batch
  <2>1. remote' = remote /\ task[t][k].unsent = {}
    BY <1>7 DEF PushOk, world
  <2>2. Pending(batch, x) > 0 => Pending(batch, x) <= remote[t][a][x].progress
    BY <1>2, <2>1 DEF ShownInv, Reflected
  <2>3. pushed'[t][x] = Larger(pushed[t][x], Pending(batch, x)) /\ Pending(batch, x) \in Nat
    BY <1>1, <1>7, PendingType DEF Remembered
  <2> QED BY <1>3, <1>4, <2>1, <2>2, <2>3 DEF Larger
<1>8. Recalled(t)
  BY NextRecalled
<1> QED BY <1>5, <1>6, <1>7, <1>8 DEF Recalled

LEMMA ShownInvariant ==
    ASSUME OneAccount, OneDrain, ~CanUnmark
    PROVE  Spec => []ShownInv
<1>1. Init => ShownInv
  <2> SUFFICES ASSUME Init PROVE ShownInv
    OBVIOUS
  <2>1. \A t \in Trackers, k \in Tasks, x \in Titles :
           /\ ProgressRows(outbox[t], x) = {} /\ ProgressRows(task[t][k].batch, x) = {}
           /\ Pending(task[t][k].batch, x) = 0
    BY PendingNone DEF Init, Idle, ProgressRows
  <2>2. \A t \in Trackers, x \in Titles :
           ProgressRows(outbox[t], x) = {} /\ pushed[t][x] = 0
    BY DEF Init, Forgotten, ProgressRows
  <2>3. Abreast
    <3>1. \A x \in Titles : 0 <= Reached(watched[x])
      BY ReachedType
    <3> QED BY <2>1, <2>2, <3>1 DEF Abreast, Timely
  <2>4. \A t \in Trackers : catalogue[t] \subseteq Titles
    BY ConstantsAssumption DEF Init
  <2>5. Backed /\ Reflected
    BY <2>1, <2>4 DEF Backed, Reflected
  <2>6. Shown
    BY <2>2, <2>4 DEF Shown
  <2> QED BY <2>3, <2>5, <2>6 DEF ShownInv
<1>2. TypeOK /\ TypeOK' /\ OneProgressRow /\ HeardInv /\ ShownInv /\ [Next]_vars => ShownInv'
  <2> SUFFICES ASSUME TypeOK, TypeOK', OneProgressRow, HeardInv, ShownInv, [Next]_vars
               PROVE  ShownInv'
    OBVIOUS
  <2>1. Abreast'
    BY AbreastStep DEF Abreast
  <2>2. Backed'
    BY BackedStep DEF Backed, ShownInv
  <2>3. Reflected'
    BY ReflectedStep DEF Reflected, ShownInv, HeardInv
  <2>4. Shown'
    BY ShownStep DEF Shown
  <2> QED BY <2>1, <2>2, <2>3, <2>4 DEF ShownInv
<1> QED BY <1>1, <1>2, TypeCorrect, ProgressIsOneRow, HeardInvariant, PTL DEF Spec

(* With one account, one drain at a time and no mark taken back, the merge is silent only
   about what the account's own list shows: no request of a drain, however late and
   whatever was queued, moved forward, refused or sent again meanwhile, writes less than
   is remembered as sent. *)
THEOREM MemoryIsShown ==
    ASSUME OneAccount, OneDrain, ~CanUnmark
    PROVE  Spec => []MemoryIsOfTheAccount
<1>1. TypeOK /\ ShownInv => MemoryIsOfTheAccount
  <2> SUFFICES ASSUME TypeOK, ShownInv, NEW t \in SignedIn, NEW x \in catalogue[t],
                      pushed[t][x] > 0
               PROVE  pushed[t][x] <= remote[t][account[t]][x].progress
    BY DEF MemoryIsOfTheAccount
  <2>1. t \in Trackers /\ account[t] \in Accounts
    BY DEF SignedIn, TypeOK
  <2> QED BY <2>1 DEF ShownInv, Shown
<1> QED BY <1>1, TypeCorrect, ShownInvariant, PTL
=============================================================================
