--------------------------- MODULE DownloadsProofs ---------------------------
(***************************************************************************)
(* What holds of the download queue for any number of episodes, however    *)
(* they are packed in releases, any number of places and any bounds.       *)
(*                                                                         *)
(* The inductive invariant is IInv.  What it adds to the properties is     *)
(* what the manager's own position guarantees: which entries a walk may    *)
(* still touch, that what it has retired stays retired, and what is true   *)
(* of a queue that was read before an await.                               *)
(***************************************************************************)
EXTENDS Downloads, FiniteSetTheorems, TLAPS

UniqueIds(S) == \A a, b \in S : a.id = b.id => a = b

(* The ids that have a place. *)
PlaceIds == IdsOf(running) \cup IdsOf(starting)
FewPlaces == Cardinality(PlaceIds) <= Concurrency

(* A queue read before an await names no row twice. *)
WaitingOnce == UniqueIds(manager.waiting)

(* What the walk has still to visit runs, and is not what it has retired; outside the walk
   there is neither. *)
WalkInv ==
    /\ manager.todo \subseteq IdsOf(running)
    /\ manager.todo \cap manager.gone = {}
    /\ manager.at \in {"resume", "finish"} => manager.cur \subseteq manager.todo
    /\ manager.at \notin {"poll", "resume", "finish"} => manager.todo = {} /\ manager.gone = {}
    /\ manager.at \notin {"resume", "finish", "yield"} => manager.cur = {}

(* No row the walk has retired is active, and neither is the one that yields if it was
   paused when the lists were read. *)
RetiredInv == \A r \in rows : r.state = "active" => r.id \notin manager.gone
YieldInv ==
    manager.at = "yield" =>
        /\ \A i, j \in manager.cur : i = j
        /\ \A r \in rows : r.id \in manager.cur \cap manager.paused => r.state # "active"

ManagedInv == WalkInv /\ RetiredInv /\ YieldInv /\ ActiveIsManaged

(* The inductive invariant. *)
IInv == /\ TypeOK
        /\ OnePlaceEach /\ WaitingOnce /\ FewPlaces
        /\ ManagedInv

-----------------------------------------------------------------------------
(* Counting by ids. *)

(* Among things with ids of their own there are as many ids as things. *)
LEMMA IdsCount ==
    ASSUME NEW S, UniqueIds(S), IdsOf(S) \subseteq RowIds
    PROVE  /\ IsFiniteSet(S) /\ IsFiniteSet(IdsOf(S))
           /\ Cardinality(S) = Cardinality(IdsOf(S))
           /\ Cardinality(S) \in Nat
<1>1. IsFiniteSet(RowIds)
  <2>1. MaxId \in Int /\ 1 \in Int
    BY ConstantsAssumption
  <2> QED BY <2>1, FS_Interval DEF RowIds
<1>2. IsFiniteSet(IdsOf(S))
  BY <1>1, FS_Subset
<1> DEFINE g == [i \in IdsOf(S) |-> CHOOSE r \in S : r.id = i]
<1>3. \A i \in IdsOf(S) : g[i] \in S /\ g[i].id = i
  BY DEF IdsOf
<1>4. \A r \in S : r.id \in IdsOf(S) /\ g[r.id] = r
  BY <1>3 DEF UniqueIds, IdsOf
<1>5. g \in Bijection(IdsOf(S), S)
  <2>1. g \in [IdsOf(S) -> S]
    BY <1>3
  <2> HIDE DEF g
  <2>2. \A i, j \in IdsOf(S) : g[i] = g[j] => i = j
    BY <1>3
  <2>3. \A r \in S : \E i \in IdsOf(S) : g[i] = r
    BY <1>4
  <2> QED BY <2>1, <2>2, <2>3 DEF Bijection, Injection, Surjection, IsInjective
<1>6. ExistsBijection(IdsOf(S), S)
  BY <1>5 DEF ExistsBijection
<1> QED BY <1>2, <1>6, FS_Bijection, FS_CardinalityType

(* The first n of a queue, in the queue's order, are at most n. *)
First(Q, n) == {r \in Q : Cardinality({q \in Q : Before(q, r)}) < n}

LEMMA FirstAreFew ==
    ASSUME NEW Q \in SUBSET Row, UniqueIds(Q), NEW n \in Nat
    PROVE  IsFiniteSet(First(Q, n)) /\ Cardinality(First(Q, n)) <= n
<1> DEFINE Ahead(r) == {q \in Q : Before(q, r)}
           rank == [r \in First(Q, n) |-> Cardinality(Ahead(r))]
<1>1. IsFiniteSet(Q)
  <2>1. IdsOf(Q) \subseteq RowIds
    BY DEF IdsOf, Row
  <2> QED BY <2>1, IdsCount
<1>2. \A r \in Q : IsFiniteSet(Ahead(r)) /\ Cardinality(Ahead(r)) \in Nat
  BY <1>1, FS_Subset, FS_CardinalityType
<1>3. \A q \in Q : q.id \in Int /\ q.front \in Int
  BY ConstantsAssumption DEF Row, RowIds
<1>4. ASSUME NEW q \in Q, NEW r \in Q, Before(q, r)
      PROVE  Cardinality(Ahead(q)) < Cardinality(Ahead(r))
  <2>1. Ahead(q) \cup {q} \subseteq Ahead(r)
    BY <1>3, <1>4 DEF Before
  <2>2. q \notin Ahead(q)
    BY <1>3 DEF Before
  <2>3. Cardinality(Ahead(q) \cup {q}) = Cardinality(Ahead(q)) + 1
    BY <1>2, <2>2, FS_AddElement
  <2>4. Cardinality(Ahead(q) \cup {q}) <= Cardinality(Ahead(r))
    BY <1>2, <2>1, FS_Subset
  <2> QED BY <1>2, <2>3, <2>4
<1>5. ASSUME NEW q \in Q, NEW r \in Q, q # r
      PROVE  Before(q, r) \/ Before(r, q)
  BY <1>3, <1>5 DEF Before, UniqueIds
<1>6. IsFiniteSet(0..(n-1)) /\ Cardinality(0..(n-1)) = n
  <2>1. 0 \in Int /\ n - 1 \in Int
    OBVIOUS
  <2> QED BY <2>1, FS_Interval
<1>7. \A r \in First(Q, n) : r \in Q /\ Cardinality(Ahead(r)) \in 0..(n-1)
  <2> SUFFICES ASSUME NEW r \in First(Q, n)
               PROVE  r \in Q /\ Cardinality(Ahead(r)) \in 0..(n-1)
    OBVIOUS
  <2>1. r \in Q /\ Cardinality(Ahead(r)) < n
    BY DEF First
  <2> QED BY <1>2, <2>1
<1>8. rank \in Injection(First(Q, n), 0..(n-1))
  <2>1. rank \in [First(Q, n) -> 0..(n-1)]
    BY <1>7
  <2>2. ASSUME NEW q \in First(Q, n), NEW r \in First(Q, n), q # r
        PROVE  rank[q] # rank[r]
    <3>1. Before(q, r) \/ Before(r, q)
      BY <1>5, <1>7, <2>2
    <3>2. Cardinality(Ahead(q)) # Cardinality(Ahead(r))
      BY <1>2, <1>4, <1>7, <3>1
    <3> QED BY <3>2
  <2> QED BY <2>1, <2>2 DEF Injection, IsInjective
<1> QED BY <1>6, <1>8, FS_Injection

-----------------------------------------------------------------------------
(* What the operators on rows and entries keep. *)

RowState == {"queued", "active", "paused", "done", "failed"}
RowsOK(R) == /\ R \in SUBSET Row
             /\ \A q, r \in R : q.id = r.id \/ q.episode = r.episode => q = r

(* Setting a state touches no other row, and no other field. *)
LEMMA WithStateKeeps ==
    ASSUME NEW R, RowsOK(R), NEW i, NEW s \in RowState
    PROVE  /\ RowsOK(WithState(R, i, s))
           /\ \A t \in WithState(R, i, s) :
                 \E r \in R : /\ t.id = r.id
                              /\ t.state = IF r.id = i THEN s ELSE r.state
<1> DEFINE f(r) == IF r.id = i THEN [r EXCEPT !.state = s] ELSE r
<1>1. \A r \in R : /\ f(r) \in Row /\ f(r).id = r.id /\ f(r).episode = r.episode
                   /\ f(r).state = IF r.id = i THEN s ELSE r.state
  BY DEF RowsOK, Row, RowState
<1>2. WithState(R, i, s) = {f(r) : r \in R}
  BY DEF WithState
<1> HIDE DEF f
<1> QED BY <1>1, <1>2 DEF RowsOK

(* Nor does writing progress: it makes a queued row active, and no other. *)
LEMMA WithProgressKeeps ==
    ASSUME NEW R, RowsOK(R), NEW i
    PROVE  /\ RowsOK(WithProgress(R, i))
           /\ \A t \in WithProgress(R, i) :
                 \E r \in R : t.id = r.id /\ (t.state = r.state \/ r.id = i)
<1> DEFINE f(r) == IF r.id = i THEN Progressed(r) ELSE r
<1>1. \A r \in R : /\ f(r) \in Row /\ f(r).id = r.id /\ f(r).episode = r.episode
                   /\ f(r).state = r.state \/ r.id = i
  BY DEF RowsOK, Row, Progressed
<1>2. WithProgress(R, i) = {f(r) : r \in R}
  BY DEF WithProgress
<1> HIDE DEF f
<1> QED BY <1>1, <1>2 DEF RowsOK

(* Queueing again leaves nothing active that was let go of. *)
LEMMA RequeuedKeeps ==
    ASSUME NEW R, RowsOK(R), NEW i
    PROVE  /\ RowsOK(Requeued(R, i))
           /\ \A t \in Requeued(R, i) :
                 t.state = "active" => /\ t.id # i
                                       /\ \E r \in R : t.id = r.id /\ r.state = "active"
<1> DEFINE f(r) == IF r.id = i /\ r.state = "active" THEN [r EXCEPT !.state = "queued"] ELSE r
<1>1. \A r \in R : /\ f(r) \in Row /\ f(r).id = r.id /\ f(r).episode = r.episode
                   /\ f(r).state = "active" => r.id # i /\ r.state = "active"
  BY DEF RowsOK, Row
<1>2. Requeued(R, i) = {f(r) : r \in R}
  BY DEF Requeued
<1> HIDE DEF f
<1> QED BY <1>1, <1>2 DEF RowsOK

LEMMA RestoredKeeps ==
    ASSUME NEW R, RowsOK(R)
    PROVE  RowsOK(Restored(R)) /\ \A t \in Restored(R) : t.state # "active"
<1> DEFINE f(r) == IF r.state = "active" THEN [r EXCEPT !.state = "queued"] ELSE r
<1>1. \A r \in R : /\ f(r) \in Row /\ f(r).id = r.id /\ f(r).episode = r.episode
                   /\ f(r).state # "active"
  BY DEF RowsOK, Row
<1>2. Restored(R) = {f(r) : r \in R}
  BY DEF Restored
<1> HIDE DEF f
<1> QED BY <1>1, <1>2 DEF RowsOK

(* Forgetting a torrent drops no entry and gives none another id. *)
LEMMA UnknownKeeps ==
    ASSUME NEW S, S \in SUBSET Entry \/ S \in SUBSET Start, NEW p
    PROVE  /\ S \in SUBSET Entry => Unknown(S, p) \in SUBSET Entry
           /\ S \in SUBSET Start => Unknown(S, p) \in SUBSET Start
           /\ IdsOf(Unknown(S, p)) = IdsOf(S)
           /\ UniqueIds(S) => UniqueIds(Unknown(S, p))
<1> DEFINE f(r) == IF PackOf(r.episode) = p THEN [r EXCEPT !.known = FALSE] ELSE r
<1>1. \A r \in S : /\ f(r).id = r.id
                   /\ r \in Entry => f(r) \in Entry
                   /\ r \in Start => f(r) \in Start
  BY DEF Entry, Start
<1>2. Unknown(S, p) = {f(r) : r \in S}
  BY DEF Unknown
<1> HIDE DEF f
<1>3. IdsOf(Unknown(S, p)) = IdsOf(S)
  BY <1>1, <1>2 DEF IdsOf
<1> QED BY <1>1, <1>2, <1>3 DEF UniqueIds

LEMMA PackOfType == \A e \in Episodes : PackOf(e) \in Packs /\ e \in PackOf(e)
BY DEF Episodes, PackOf

LEMMA ForgetKeeps ==
    ASSUME NEW S, S \in SUBSET Entry, NEW p \in Packs, NEW d \in BOOLEAN,
           TypeOK, ForgetFrom(S, p, d)
    PROVE  /\ session' \in [Packs -> {"absent", "live", "paused"}]
           /\ got' \in [Episodes -> Part] /\ file' \in [Episodes -> Part]
           /\ running' \in SUBSET Entry /\ IdsOf(running') = IdsOf(S)
           /\ UniqueIds(S) => UniqueIds(running')
           /\ starting' \in SUBSET Start /\ IdsOf(starting') = IdsOf(starting)
           /\ UniqueIds(starting) => UniqueIds(starting')
<1>1. /\ session' \in [Packs -> {"absent", "live", "paused"}]
      /\ got' \in [Episodes -> Part] /\ file' \in [Episodes -> Part]
  BY DEF TypeOK, ForgetFrom, FilesOf, Part
<1>2. running' = Unknown(S, p) /\ starting' = Unknown(starting, p)
  BY DEF ForgetFrom
<1> QED BY <1>1, <1>2, UnknownKeeps DEF TypeOK

(* The stage of a task changes nothing else. *)
LEMMA StagedKeeps ==
    ASSUME NEW s \in starting, starting \in SUBSET Start,
           NEW stage \in {"asked", "adding", "ok", "failed"}, Staged(s, stage)
    PROVE  /\ starting' \in SUBSET Start /\ IdsOf(starting') = IdsOf(starting)
           /\ UniqueIds(starting) => UniqueIds(starting')
<1> DEFINE t == [s EXCEPT !.stage = stage, !.known = stage = "ok"]
<1>1. t \in Start /\ t.id = s.id
  <2>1. (stage = "ok") \in BOOLEAN
    OBVIOUS
  <2> QED BY <2>1 DEF Start
<1>2. starting' = (starting \ {s}) \cup {t}
  BY DEF Staged
<1> HIDE DEF t
<1>3. IdsOf(starting') = IdsOf(starting)
  BY <1>1, <1>2 DEF IdsOf
<1> QED BY <1>1, <1>2, <1>3 DEF UniqueIds

(* What starts has ids of its own, of rows of the queue that had no place. *)
LEMMA StartFromKeeps ==
    ASSUME NEW Q \in SUBSET Row, starting \in SUBSET Start, StartFrom(Q)
    PROVE  /\ starting' \in SUBSET Start
           /\ IdsOf(starting') = IdsOf(starting) \cup IdsOf(First(Startable(Q), Room))
           /\ UniqueIds(starting) /\ UniqueIds(Q) => UniqueIds(starting')
<1> DEFINE F == First(Startable(Q), Room)
           B == {Begun(r) : r \in F}
<1>1. starting' = starting \cup B
  BY DEF StartFrom, First
<1>2. \A r \in F : r \in Q /\ r.id \notin IdsOf(starting)
  BY DEF First, Startable
<1> HIDE DEF F
<1>3. \A r \in F : Begun(r) \in Start /\ Begun(r).id = r.id
  BY <1>2 DEF Begun, Start, Row
<1>4. IdsOf(B) = IdsOf(F)
  BY <1>3 DEF IdsOf
<1>5. starting' \in SUBSET Start
  BY <1>1, <1>3
<1>6. IdsOf(starting') = IdsOf(starting) \cup IdsOf(F)
  BY <1>1, <1>4 DEF IdsOf
<1>7. ASSUME UniqueIds(starting), UniqueIds(Q) PROVE UniqueIds(starting')
  <2>1. ASSUME NEW a \in B, NEW b \in B, a.id = b.id PROVE a = b
    BY <1>2, <1>3, <1>7, <2>1 DEF UniqueIds
  <2>2. ASSUME NEW a \in starting, NEW b \in B PROVE a.id # b.id
    <3>1. b.id \notin IdsOf(starting)
      BY <1>2, <1>3
    <3> QED BY <3>1 DEF IdsOf
  <2> QED BY <1>1, <1>7, <2>1, <2>2 DEF UniqueIds
<1> QED BY <1>5, <1>6, <1>7 DEF F

-----------------------------------------------------------------------------
(* Every step keeps the types. *)

Places == {"down", "sleep", "poll", "resume", "finish", "take", "yield"}

LEMMA AtType == \A place \in Places : At(place) \in Manager
BY DEF At, Manager, Places

(* A new row has an id and an episode of its own. *)
LEMMA ScreenTyped ==
    ASSUME TypeOK, Screen
    PROVE  TypeOK'
<1>1. RowsOK(rows)
  BY DEF TypeOK, RowsOK, past
<1>2. SUFFICES RowsOK(rows') /\ file' \in [Episodes -> Part]
               /\ UNCHANGED <<swarm, watch, work, restarts>>
               /\ crossed' \in SUBSET Episodes
  BY DEF TypeOK, RowsOK, swarm, watch, work, past
<1>3. ASSUME NEW e \in Episodes, Enqueue(e)
      PROVE  /\ RowsOK(rows') /\ crossed' \in SUBSET Episodes
             /\ UNCHANGED <<file, swarm, watch, work, restarts>>
  <2>0. crossed' \in SUBSET Episodes
    BY <1>3 DEF TypeOK, Enqueue
  <2>1. CASE /\ \A r \in rows : r.episode # e
             /\ \E i \in RowIds : IsNewId(i) /\ rows' = rows \cup {NewRow(i, e)}
    <3>1. PICK i \in RowIds : IsNewId(i) /\ rows' = rows \cup {NewRow(i, e)}
      BY <2>1
    <3>2. NewRow(i, e) \in Row /\ NewRow(i, e).id = i /\ NewRow(i, e).episode = e
      BY ConstantsAssumption DEF NewRow, Row
    <3>3. \A r \in rows : r.id # i
      <4>1. \A r \in rows : r.id \in LiveIds /\ r.id \in Int
        BY <1>1 DEF LiveIds, IdsOf, RowsOK, Row, RowIds
      <4> QED BY <3>1, <4>1 DEF IsNewId
    <3>4. RowsOK(rows')
      BY <1>1, <2>1, <3>1, <3>2, <3>3 DEF RowsOK
    <3> QED BY <1>3, <2>0, <3>4 DEF Enqueue
  <2>2. ASSUME NEW r \in rows, r.episode = e,
               rows' = (rows \ {r}) \cup {[r EXCEPT !.state = "queued", !.front = 0]}
        PROVE  RowsOK(rows')
    <3> DEFINE t == [r EXCEPT !.state = "queued", !.front = 0]
    <3>1. t \in Row /\ t.id = r.id /\ t.episode = r.episode
      <4>1. r \in Row /\ 0 \in 0..MaxFront
        BY <1>1, ConstantsAssumption DEF RowsOK
      <4> QED BY <4>1 DEF Row
    <3>2. rows' = (rows \ {r}) \cup {t}
      BY <2>2
    <3> HIDE DEF t
    <3> QED BY <1>1, <3>1, <3>2 DEF RowsOK
  <2> QED BY <1>3, <2>0, <2>1, <2>2 DEF Enqueue
<1>4. ASSUME NEW r \in rows, Pause(r)
      PROVE  RowsOK(rows') /\ UNCHANGED <<file, swarm, watch, work, past>>
  <2>1. (IF r.state = "paused" THEN "queued" ELSE "paused") \in RowState
    BY DEF RowState
  <2> QED BY <1>1, <1>4, <2>1, WithStateKeeps DEF Pause
<1>5. ASSUME NEW r \in rows, StartNow(r)
      PROVE  RowsOK(rows') /\ UNCHANGED <<file, swarm, watch, work, past>>
  <2>1. PICK at \in 1..MaxFront :
           rows' = (rows \ {r}) \cup {[r EXCEPT !.state = "queued", !.front = at]}
    BY <1>5 DEF StartNow
  <2> DEFINE t == [r EXCEPT !.state = "queued", !.front = at]
  <2>2. t \in Row /\ t.id = r.id /\ t.episode = r.episode
    <3>1. r \in Row /\ at \in 0..MaxFront
      BY <1>1, ConstantsAssumption DEF RowsOK
    <3> QED BY <3>1 DEF Row
  <2>3. rows' = (rows \ {r}) \cup {t}
    BY <2>1
  <2> HIDE DEF t
  <2>4. RowsOK(rows')
    BY <1>1, <2>2, <2>3 DEF RowsOK
  <2> QED BY <1>5, <2>4 DEF StartNow
<1>6. ASSUME NEW r \in rows, Cancel(r) \/ Delete(r)
      PROVE  /\ RowsOK(rows') /\ file' \in [Episodes -> Part]
             /\ UNCHANGED <<swarm, watch, work, past>>
  <2>1. RowsOK(rows')
    BY <1>1, <1>6 DEF RowsOK, Cancel, Delete
  <2>2. file' \in [Episodes -> Part]
    BY <1>6 DEF Cancel, Delete, TypeOK, Part, past
  <2> QED BY <1>6, <2>1, <2>2 DEF Cancel, Delete
<1>7. ASSUME ClearCompleted
      PROVE  RowsOK(rows') /\ UNCHANGED <<file, swarm, watch, work, past>>
  BY <1>1, <1>7 DEF RowsOK, ClearCompleted
<1>8. file \in [Episodes -> Part]
  BY DEF TypeOK
<1>9. crossed \in SUBSET Episodes
  BY DEF TypeOK
<1> QED BY <1>3, <1>4, <1>5, <1>6, <1>7, <1>8, <1>9 DEF Screen, past

LEMMA OutsideTyped ==
    ASSUME TypeOK, Outside
    PROVE  TypeOK'
<1>1. CASE Screen
  BY <1>1, ScreenTyped
<1>2. CASE Restart
  <2>1. At("down") \in Manager
    BY AtType DEF Places
  <2>2. restarts' \in 0..Restarts
    BY <1>2, ConstantsAssumption DEF TypeOK, Restart, past
  <2> QED BY <1>2, <2>1, <2>2 DEF TypeOK, Restart, disk, Part, past
<1>3. CASE Leak
  BY <1>3 DEF TypeOK, Leak, disk, swarm, work, past
<1> QED BY <1>1, <1>2, <1>3 DEF Outside

(* The tasks, the swarm and the watch. *)
LEMMA TasksTyped ==
    ASSUME TypeOK, \/ \E i \in RowIds : Task(i)
                   \/ \E e \in Episodes : Fetch(e)
                   \/ Watch
    PROVE  TypeOK'
<1>1. ASSUME NEW s \in starting, Permit(s) \/ NoPeers(s) PROVE TypeOK'
  <2>1. starting' \in SUBSET Start
    <3>1. (IF guard THEN "adding" ELSE "failed") \in {"asked", "adding", "ok", "failed"}
      OBVIOUS
    <3> QED BY <1>1, <3>1, StagedKeeps DEF TypeOK, Permit, NoPeers, past
  <2> QED BY <1>1, <2>1 DEF TypeOK, Permit, NoPeers, disk, swarm, watch, past
<1>2. ASSUME NEW s \in starting, Add(s) PROVE TypeOK'
  <2>1. starting' \in SUBSET Start
    <3>1. (IF s.episode \in Missing THEN "failed" ELSE "ok")
             \in {"asked", "adding", "ok", "failed"}
      OBVIOUS
    <3> QED BY <1>2, <3>1, StagedKeeps DEF TypeOK, Add, past
  <2> DEFINE p == PackOf(s.episode)
             made == [e \in Episodes |-> IF e \in p /\ file[e] = "none"
                                         THEN "part" ELSE file[e]]
  <2>2. made \in [Episodes -> Part] /\ file \in [Episodes -> Part] /\ got \in [Episodes -> Part]
    BY DEF TypeOK, Part, past
  <2>3. /\ session' = [session EXCEPT ![p] = "live"] \/ session' = session
        /\ file' = made \/ file' = file
        /\ \/ got' = [e \in Episodes |-> IF e \in p THEN made[e] ELSE got[e]]
           \/ got' = got
    BY <1>2 DEF Add
  <2> HIDE DEF made, p
  <2>4. /\ session' \in [Packs -> {"absent", "live", "paused"}]
        /\ file' \in [Episodes -> Part] /\ got' \in [Episodes -> Part]
    BY <2>2, <2>3 DEF TypeOK
  <2> QED BY <1>2, <2>1, <2>4 DEF TypeOK, Add, watch, past
<1>3. ASSUME NEW e \in Episodes, Fetch(e) PROVE TypeOK'
  BY <1>3 DEF TypeOK, Fetch, Part, watch, work, past
<1>4. CASE Halt
  BY <1>4 DEF TypeOK, Halt, disk, work, past
<1>5. CASE Recover
  BY <1>5 DEF TypeOK, Recover, disk, work, past
<1> QED BY <1>1, <1>2, <1>3, <1>4, <1>5 DEF Task, Watch

LEMMA PollTyped ==
    ASSUME TypeOK, Poll
    PROVE  TypeOK'
<1>1. RowsOK(rows)
  BY DEF TypeOK, RowsOK, past
<1>2. \A e \in running : /\ e.id \in RowIds /\ e.episode \in Episodes
                         /\ PackOf(e.episode) \in Packs
  BY PackOfType DEF TypeOK, Entry, past
<1>3. \A i \in RowIds : Walked(i) \in Manager /\ Retired(i) \in Manager
  <2> SUFFICES ASSUME NEW i \in RowIds
               PROVE  Walked(i) \in Manager /\ Retired(i) \in Manager
    OBVIOUS
  <2>1. Walked(i) \in Manager
    BY DEF TypeOK, Manager, Walked, past
  <2>2. Walked(i).gone \cup {i} \in SUBSET RowIds
    BY <2>1 DEF Manager
  <2> QED BY <2>1, <2>2 DEF Manager, Retired
<1>4. CASE BeginPoll
  <2>1. IdsOf(running) \subseteq RowIds
    BY <1>2 DEF IdsOf
  <2>2. manager' \in Manager
    BY <1>4, <2>1 DEF BeginPoll, At, Manager
  <2> QED BY <1>4, <2>2 DEF TypeOK, BeginPoll, disk, swarm, watch, past
<1>5. ASSUME NEW e \in running, PollCancelled(e) PROVE TypeOK'
  <2>1. ASSUME ForgetFrom(running, PackOf(e.episode), TRUE) PROVE TypeOK'
    <3>1. running \in SUBSET Entry
      BY DEF TypeOK
    <3>2. /\ session' \in [Packs -> {"absent", "live", "paused"}]
          /\ got' \in [Episodes -> Part] /\ file' \in [Episodes -> Part]
          /\ running' \in SUBSET Entry /\ starting' \in SUBSET Start
      BY <1>2, <2>1, <3>1, ForgetKeeps
    <3> QED BY <1>2, <1>3, <1>5, <3>2 DEF TypeOK, PollCancelled, watch, past
  <2>2. ASSUME UNCHANGED <<file, swarm, running, starting>> PROVE TypeOK'
    BY <1>2, <1>3, <1>5, <2>2 DEF TypeOK, PollCancelled, swarm, watch, past
  <2> QED BY <1>5, <2>1, <2>2 DEF PollCancelled
<1>6. ASSUME NEW e \in running, PollLetGo(e) PROVE TypeOK'
  <2>1. RowsOK(rows')
    BY <1>1, <1>6, RequeuedKeeps DEF PollLetGo
  <2> QED BY <1>2, <1>3, <1>6, <2>1 DEF TypeOK, RowsOK, PollLetGo, swarm, watch, past
<1>7. ASSUME NEW e \in running, PollPaused(e) PROVE TypeOK'
  BY <1>2, <1>3, <1>7 DEF TypeOK, PollPaused, disk, watch, past
<1>8. ASSUME NEW e \in running, PollRefused(e) PROVE TypeOK'
  <2>1. RowsOK(rows')
    BY <1>1, <1>8, WithStateKeeps DEF PollRefused, RowState
  <2> QED BY <1>2, <1>3, <1>8, <2>1 DEF TypeOK, RowsOK, PollRefused, swarm, watch, past
<1>9. ASSUME NEW e \in running, PollResume(e) PROVE TypeOK'
  <2>1. manager' \in Manager
    BY <1>2, <1>9 DEF PollResume, TypeOK, Manager, past
  <2> QED BY <1>2, <1>9, <2>1 DEF TypeOK, PollResume, disk, watch, past
<1>10. ASSUME NEW e \in running, PollProgress(e) PROVE TypeOK'
  <2>1. RowsOK(rows')
    BY <1>1, <1>10, WithProgressKeeps DEF PollProgress
  <2>2. manager' \in Manager
    <3>1. [manager EXCEPT !.at = "finish", !.cur = {e.id}] \in Manager
      BY <1>2 DEF TypeOK, Manager, past
    <3> QED BY <1>2, <1>3, <1>10, <3>1 DEF PollProgress
  <2>3. /\ session' \in [Packs -> {"absent", "live", "paused"}]
        /\ got' \in [Episodes -> Part] /\ file' \in [Episodes -> Part]
        /\ running' \in SUBSET Entry /\ starting' \in SUBSET Start
    <3>1. \/ ForgetFrom(running, PackOf(e.episode), FALSE)
          \/ UNCHANGED <<file, swarm, running, starting>>
      BY <1>10 DEF PollProgress
    <3>2. running \in SUBSET Entry
      BY DEF TypeOK
    <3> QED BY <1>2, <3>1, <3>2, ForgetKeeps DEF TypeOK, swarm, past
  <2>4. UNCHANGED <<watch, past>>
    BY <1>10 DEF PollProgress
  <2> QED BY <2>1, <2>2, <2>3, <2>4 DEF TypeOK, RowsOK, watch, past
<1>11. ASSUME NEW i \in RowIds, FinishDownload(i) PROVE TypeOK'
  <2>1. RowsOK(rows')
    BY <1>1, <1>11, WithStateKeeps DEF FinishDownload, RowState
  <2> QED BY <1>3, <1>11, <2>1 DEF TypeOK, RowsOK, FinishDownload, swarm, watch, past
<1>12. CASE EndPoll
  <2>1. At("take") \in Manager
    BY AtType DEF Places
  <2> QED BY <1>12, <2>1 DEF TypeOK, EndPoll, disk, swarm, watch, past
<1> QED BY <1>4, <1>5, <1>6, <1>7, <1>8, <1>9, <1>10, <1>11, <1>12 DEF Poll

LEMMA RefillTyped ==
    ASSUME TypeOK, Refill
    PROVE  TypeOK'
<1>1. RowsOK(rows) /\ Pending \in SUBSET Row /\ manager.waiting \in SUBSET Row
  BY DEF TypeOK, RowsOK, Pending, Manager, past
<1>2. At("sleep") \in Manager
  BY AtType DEF Places
<1>3. ASSUME NEW s \in starting, TakeStarted(s) PROVE TypeOK'
  <2>1. RowsOK(rows')
    BY <1>1, <1>3, WithProgressKeeps DEF TakeStarted
  <2>2. [id |-> s.id, episode |-> s.episode, known |-> s.known] \in Entry
    BY DEF TypeOK, Entry, Start, past
  <2> QED BY <1>3, <2>1, <2>2 DEF TypeOK, RowsOK, TakeStarted, swarm, watch, past
<1>4. ASSUME NEW s \in starting, TakeFailed(s) PROVE TypeOK'
  <2>1. RowsOK(rows')
    BY <1>1, <1>4, WithStateKeeps DEF TakeFailed, RowState
  <2> QED BY <1>4, <2>1 DEF TypeOK, RowsOK, TakeFailed, swarm, watch, past
<1>5. CASE StartQueued
  <2>1. starting' \in SUBSET Start
    BY <1>1, <1>5, StartFromKeeps DEF StartQueued, TypeOK, past
  <2> QED BY <1>2, <1>5, <2>1 DEF TypeOK, StartQueued, disk, swarm, watch, past
<1>6. CASE StayFull
  BY <1>2, <1>6 DEF TypeOK, StayFull, disk, swarm, watch, past
<1>7. CASE Yielded
  <2>1. starting' \in SUBSET Start
    BY <1>1, <1>7, StartFromKeeps DEF Yielded, TypeOK, past
  <2>2. RowsOK(rows')
    <3>1. \A i : RowsOK(WithState(rows, i, "queued"))
      BY <1>1, WithStateKeeps DEF RowState
    <3> QED BY <1>1, <1>7, <3>1 DEF Yielded
  <2> QED BY <1>2, <1>7, <2>1, <2>2 DEF TypeOK, RowsOK, Yielded, swarm, watch, past
<1>8. ASSUME NEW e \in running, Yield(e) PROVE TypeOK'
  <2> DEFINE left == running \ {e}
  <2>1. left \in SUBSET Entry /\ PackOf(e.episode) \in Packs /\ e.id \in RowIds
    BY PackOfType DEF TypeOK, Entry, past
  <2>2. PausedIds \subseteq RowIds
    BY <1>1 DEF PausedIds, RowsOK, Row
  <2>3. manager' \in Manager
    BY <1>1, <1>8, <2>1, <2>2 DEF Yield, At, Manager
  <2>4. \/ ForgetFrom(left, PackOf(e.episode), FALSE)
        \/ running' = left /\ UNCHANGED <<file, swarm, starting>>
    BY <1>8 DEF Yield
  <2>5. /\ session' \in [Packs -> {"absent", "live", "paused"}]
        /\ got' \in [Episodes -> Part] /\ file' \in [Episodes -> Part]
        /\ running' \in SUBSET Entry /\ starting' \in SUBSET Start
    <3> HIDE DEF left
    <3> QED BY <2>1, <2>4, ForgetKeeps DEF TypeOK, swarm, past
  <2> QED BY <1>8, <2>3, <2>5 DEF TypeOK, Yield, watch, past
<1> QED BY <1>3, <1>4, <1>5, <1>6, <1>7, <1>8 DEF Refill

LEMMA NextTyped ==
    ASSUME TypeOK, [Next]_vars
    PROVE  TypeOK'
<1>1. CASE Spawn
  <2>1. RowsOK(rows')
    <3>1. RowsOK(rows)
      BY DEF TypeOK, RowsOK, past
    <3> QED BY <1>1, <3>1, RestoredKeeps DEF Spawn
  <2>2. At("sleep") \in Manager
    BY AtType DEF Places
  <2> QED BY <1>1, <2>1, <2>2 DEF TypeOK, RowsOK, Spawn, swarm, watch, past
<1>2. CASE UNCHANGED vars
  BY <1>2 DEF TypeOK, vars, disk, swarm, watch, work, past
<1> QED BY <1>1, <1>2, OutsideTyped, TasksTyped, PollTyped, RefillTyped DEF Next, Manage

LEMMA InitTyped == Init => TypeOK
<1>1. At("down") \in Manager
  BY AtType DEF Places
<1>2. 0 \in 0..Restarts
  BY ConstantsAssumption
<1> SUFFICES ASSUME Init PROVE TypeOK
  OBVIOUS
<1>3. /\ file \in [Episodes -> Part] /\ got \in [Episodes -> Part]
      /\ session \in [Packs -> {"absent", "live", "paused"}]
  BY DEF Init, Part
<1> QED BY <1>1, <1>2, <1>3 DEF Init, TypeOK

-----------------------------------------------------------------------------
(* One place each, and no more than there are. *)

(* A step that gives no row a place: places are kept or given up. *)
PlacesNarrow ==
    /\ UniqueIds(running') /\ UniqueIds(starting')
    /\ IdsOf(running') \subseteq IdsOf(running)
    /\ IdsOf(starting') \subseteq IdsOf(starting)

(* Only what was added moves its place, and only a start takes new ones. *)
LEMMA PlacesClassified ==
    ASSUME TypeOK, OnePlaceEach, [Next]_vars
    PROVE  \/ PlacesNarrow
           \/ \E s \in starting : TakeStarted(s)
           \/ StartQueued \/ Yielded
<1>1. UniqueIds(running) /\ UniqueIds(starting)
  BY DEF OnePlaceEach, UniqueIds
<1>2. ASSUME UNCHANGED <<running, starting>> PROVE PlacesNarrow
  BY <1>1, <1>2 DEF PlacesNarrow
<1>3. running \in SUBSET Entry /\ starting \in SUBSET Start
  BY DEF TypeOK
<1>4. ASSUME NEW S, S \in SUBSET running, NEW p \in Packs, NEW d \in BOOLEAN, ForgetFrom(S, p, d)
      PROVE  PlacesNarrow
  <2>1. UniqueIds(S) /\ IdsOf(S) \subseteq IdsOf(running) /\ S \in SUBSET Entry
    BY <1>1, <1>3, <1>4 DEF UniqueIds, IdsOf
  <2>2. /\ IdsOf(running') = IdsOf(S) /\ UniqueIds(running')
        /\ IdsOf(starting') = IdsOf(starting) /\ UniqueIds(starting')
    BY <1>1, <1>4, <2>1, ForgetKeeps
  <2> QED BY <2>1, <2>2 DEF PlacesNarrow
<1>5. \A e \in running : PackOf(e.episode) \in Packs
  BY <1>3, PackOfType DEF Entry
<1>6. CASE Outside
  <2>1. CASE Restart
    BY <2>1 DEF Restart, PlacesNarrow, UniqueIds, IdsOf
  <2>2. CASE Leak
    BY <1>2, <2>2 DEF Leak, work
  <2>3. CASE Screen
    BY <1>2, <2>3 DEF Screen, Enqueue, Pause, StartNow, Cancel, Delete, ClearCompleted, work
  <2> QED BY <1>6, <2>1, <2>2, <2>3 DEF Outside
<1>7. ASSUME NEW s \in starting, Permit(s) \/ NoPeers(s) \/ Add(s) PROVE PlacesNarrow
  <2>1. PICK stage \in {"asked", "adding", "ok", "failed"} : Staged(s, stage)
    BY <1>7 DEF Permit, NoPeers, Add
  <2>2. running' = running
    BY <1>7 DEF Permit, NoPeers, Add
  <2> QED BY <1>1, <1>3, <2>1, <2>2, StagedKeeps DEF PlacesNarrow
<1>8. ASSUME (\E e \in Episodes : Fetch(e)) \/ Watch PROVE PlacesNarrow
  BY <1>2, <1>8 DEF Fetch, Watch, Halt, Recover, work
<1>9. CASE Spawn
  BY <1>2, <1>9 DEF Spawn
<1>10. CASE Poll
  <2>1. ASSUME NEW e \in running, PollCancelled(e) PROVE PlacesNarrow
    <3>1. \/ ForgetFrom(running, PackOf(e.episode), TRUE)
          \/ UNCHANGED <<file, swarm, running, starting>>
      BY <2>1 DEF PollCancelled
    <3> QED BY <1>2, <1>4, <1>5, <3>1
  <2>2. ASSUME NEW e \in running, PollProgress(e) PROVE PlacesNarrow
    <3>1. \/ ForgetFrom(running, PackOf(e.episode), FALSE)
          \/ UNCHANGED <<file, swarm, running, starting>>
      BY <2>2 DEF PollProgress
    <3> QED BY <1>2, <1>4, <1>5, <3>1
  <2>3. ASSUME NEW e \in running,
               PollLetGo(e) \/ PollPaused(e) \/ PollRefused(e) \/ PollResume(e)
        PROVE  PlacesNarrow
    BY <1>2, <2>3 DEF PollLetGo, PollPaused, PollRefused, PollResume
  <2>4. ASSUME BeginPoll \/ \E i \in RowIds : FinishDownload(i) PROVE PlacesNarrow
    BY <1>2, <2>4 DEF BeginPoll, FinishDownload
  <2>5. CASE EndPoll
    BY <1>1, <2>5 DEF EndPoll, PlacesNarrow, UniqueIds, IdsOf
  <2> QED BY <1>10, <2>1, <2>2, <2>3, <2>4, <2>5 DEF Poll
<1>11. CASE Refill
  <2>1. ASSUME NEW s \in starting, TakeFailed(s) PROVE PlacesNarrow
    BY <1>1, <2>1 DEF TakeFailed, PlacesNarrow, UniqueIds, IdsOf
  <2>2. CASE StayFull
    BY <1>2, <2>2 DEF StayFull
  <2>3. ASSUME NEW e \in running, Yield(e) PROVE PlacesNarrow
    <3> DEFINE left == running \ {e}
    <3>1. \/ ForgetFrom(left, PackOf(e.episode), FALSE)
          \/ running' = left /\ UNCHANGED <<file, swarm, starting>>
      BY <2>3 DEF Yield
    <3>2. ASSUME running' = left, starting' = starting PROVE PlacesNarrow
      BY <1>1, <3>2 DEF PlacesNarrow, UniqueIds, IdsOf
    <3> QED BY <1>4, <1>5, <3>1, <3>2
  <2> QED BY <1>11, <2>1, <2>2, <2>3 DEF Refill
<1>12. CASE UNCHANGED vars
  BY <1>2, <1>12 DEF vars, work
<1> QED BY <1>6, <1>7, <1>8, <1>9, <1>10, <1>11, <1>12 DEF Next, Task, Manage

(* A queue as it was read names no row twice. *)
LEMMA WaitingStep ==
    ASSUME TypeOK, WaitingOnce, [Next]_vars
    PROVE  WaitingOnce'
<1>1. UniqueIds(manager.waiting)
  BY DEF WaitingOnce
<1>2. UniqueIds(Pending)
  BY DEF TypeOK, UniqueIds, Pending
<1>3. ASSUME manager'.waiting \in {manager.waiting, Pending, {}} PROVE WaitingOnce'
  <2>1. UniqueIds({})
    BY DEF UniqueIds
  <2>2. UniqueIds(manager'.waiting)
    BY <1>1, <1>2, <1>3, <2>1
  <2> QED BY <2>2 DEF WaitingOnce, UniqueIds
<1>4. manager.waiting = manager.waiting /\ manager \in Manager
  BY DEF TypeOK
<1>5. ASSUME manager' = manager PROVE WaitingOnce'
  BY <1>3, <1>5
<1>6. \A i : Walked(i).waiting = manager.waiting /\ Retired(i).waiting = manager.waiting
  BY <1>4 DEF Walked, Retired, Manager
<1>7. \A place : At(place).waiting = {}
  BY DEF At
<1>8. CASE Outside
  BY <1>3, <1>5, <1>7, <1>8 DEF Outside, Screen, Enqueue, Pause, StartNow, Cancel, Delete,
     ClearCompleted, Restart, Leak, work
<1>9. ASSUME \/ \E i \in RowIds : Task(i)
             \/ \E e \in Episodes : Fetch(e)
             \/ Watch
      PROVE  WaitingOnce'
  BY <1>5, <1>9 DEF Task, Permit, NoPeers, Add, Fetch, Watch, Halt, Recover, work
<1>10. CASE Poll
  <2>1. ASSUME NEW e \in running,
               PollCancelled(e) \/ PollLetGo(e) \/ PollPaused(e) \/ PollRefused(e)
        PROVE  WaitingOnce'
    BY <1>3, <1>6, <2>1 DEF PollCancelled, PollLetGo, PollPaused, PollRefused
  <2>2. ASSUME NEW e \in running, PollResume(e) \/ PollProgress(e) PROVE WaitingOnce'
    <3>1. manager'.waiting = manager.waiting
      BY <1>4, <1>6, <2>2 DEF PollResume, PollProgress, Manager
    <3> QED BY <1>3, <3>1
  <2>3. ASSUME BeginPoll PROVE WaitingOnce'
    <3>1. manager'.waiting = {}
      BY <2>3 DEF BeginPoll, At
    <3> QED BY <1>3, <3>1
  <2>4. ASSUME EndPoll \/ \E i \in RowIds : FinishDownload(i) PROVE WaitingOnce'
    BY <1>3, <1>6, <1>7, <2>4 DEF EndPoll, FinishDownload
  <2> QED BY <1>10, <2>1, <2>2, <2>3, <2>4 DEF Poll
<1>11. CASE Refill
  <2>1. ASSUME NEW e \in running, Yield(e) PROVE WaitingOnce'
    <3>1. manager'.waiting = Pending
      BY <2>1 DEF Yield, At
    <3> QED BY <1>3, <3>1
  <2> QED BY <1>3, <1>5, <1>7, <1>11, <2>1 DEF Refill, TakeStarted, TakeFailed, StartQueued,
          StayFull, Yielded
<1>12. CASE Spawn
  BY <1>3, <1>7, <1>12 DEF Spawn
<1>13. CASE UNCHANGED vars
  BY <1>5, <1>13 DEF vars, work
<1> QED BY <1>8, <1>9, <1>10, <1>11, <1>12, <1>13 DEF Next, Manage

(* The ids that have a place are as many as the places taken. *)
LEMMA PlacesCounted ==
    ASSUME TypeOK, OnePlaceEach
    PROVE  /\ IsFiniteSet(PlaceIds)
           /\ Cardinality(running) \in Nat /\ Cardinality(starting) \in Nat
           /\ Cardinality(PlaceIds) = Cardinality(running) + Cardinality(starting)
<1>1. UniqueIds(running) /\ UniqueIds(starting)
  BY DEF OnePlaceEach, UniqueIds
<1>2. IdsOf(running) \subseteq RowIds /\ IdsOf(starting) \subseteq RowIds
  BY DEF TypeOK, IdsOf, Entry, Start
<1>3. /\ IsFiniteSet(IdsOf(running)) /\ Cardinality(running) = Cardinality(IdsOf(running))
      /\ IsFiniteSet(IdsOf(starting)) /\ Cardinality(starting) = Cardinality(IdsOf(starting))
      /\ Cardinality(running) \in Nat /\ Cardinality(starting) \in Nat
  BY <1>1, <1>2, IdsCount
<1>4. IdsOf(running) \cap IdsOf(starting) = {}
  BY DEF OnePlaceEach
<1>5. Cardinality({}) = 0
  BY FS_EmptySet
<1>6. /\ IsFiniteSet(PlaceIds)
      /\ Cardinality(PlaceIds) = Cardinality(IdsOf(running)) + Cardinality(IdsOf(starting))
                                 - Cardinality(IdsOf(running) \cap IdsOf(starting))
  BY <1>3, FS_Union DEF PlaceIds
<1>7. Cardinality(IdsOf(running) \cap IdsOf(starting)) = 0
  BY <1>4, <1>5
<1> QED BY <1>3, <1>6, <1>7

(* A start takes no more places than are free. *)
LEMMA StartFits ==
    ASSUME TypeOK, OnePlaceEach, FewPlaces,
           NEW Q \in SUBSET Row, UniqueIds(Q), StartFrom(Q), running' = running
    PROVE  OnePlaceEach' /\ FewPlaces'
<1> DEFINE F == First(Startable(Q), Room)
<1>1. /\ starting' \in SUBSET Start
      /\ IdsOf(starting') = IdsOf(starting) \cup IdsOf(F)
      /\ UniqueIds(starting')
  BY StartFromKeeps DEF TypeOK, OnePlaceEach, UniqueIds
<1>2. /\ Startable(Q) \in SUBSET Row /\ UniqueIds(Startable(Q))
      /\ IdsOf(Startable(Q)) \cap PlaceIds = {}
  BY DEF Startable, UniqueIds, PlaceIds, IdsOf
<1>3. F \subseteq Startable(Q)
  BY DEF First
<1>4. /\ IsFiniteSet(PlaceIds) /\ Cardinality(PlaceIds) \in Nat
      /\ Room = Concurrency - Cardinality(PlaceIds) /\ Room \in Nat
  <2>1. Cardinality(PlaceIds) <= Concurrency /\ Concurrency \in Nat
    BY ConstantsAssumption DEF FewPlaces
  <2> QED BY <2>1, PlacesCounted DEF Room
<1>5. IsFiniteSet(F) /\ Cardinality(F) <= Room
  BY <1>2, <1>4, FirstAreFew
<1>6. UniqueIds(F) /\ IdsOf(F) \subseteq RowIds
  BY <1>2, <1>3 DEF UniqueIds, IdsOf, Row
<1> HIDE DEF F
<1>7. /\ IsFiniteSet(IdsOf(F)) /\ Cardinality(IdsOf(F)) \in Nat
      /\ Cardinality(IdsOf(F)) <= Room
  BY <1>5, <1>6, IdsCount
<1>8. IdsOf(F) \cap PlaceIds = {}
  BY <1>2, <1>3 DEF IdsOf
<1>9. OnePlaceEach'
  BY <1>1, <1>8 DEF OnePlaceEach, UniqueIds, PlaceIds
<1>10. PlaceIds' = PlaceIds \cup IdsOf(F)
  BY <1>1 DEF PlaceIds
<1>11. Cardinality(PlaceIds \cup IdsOf(F)) <= Concurrency
  <2>1. Cardinality(PlaceIds \cap IdsOf(F)) = 0
    BY <1>8, FS_EmptySet
  <2>2. Cardinality(PlaceIds \cup IdsOf(F))
           = Cardinality(PlaceIds) + Cardinality(IdsOf(F)) - Cardinality(PlaceIds \cap IdsOf(F))
    BY <1>4, <1>7, FS_Union
  <2> QED BY <1>4, <1>7, <2>1, <2>2, ConstantsAssumption
<1> QED BY <1>9, <1>10, <1>11 DEF FewPlaces

LEMMA PlacesStep ==
    ASSUME TypeOK, OnePlaceEach, WaitingOnce, FewPlaces, [Next]_vars
    PROVE  OnePlaceEach' /\ WaitingOnce' /\ FewPlaces'
<1>1. WaitingOnce'
  BY WaitingStep
<1>2. ASSUME PlaceIds' \subseteq PlaceIds PROVE FewPlaces'
  <2>1. /\ IsFiniteSet(PlaceIds) /\ Cardinality(PlaceIds) \in Nat
        /\ Cardinality(PlaceIds) <= Concurrency /\ Concurrency \in Nat
    BY PlacesCounted, ConstantsAssumption DEF FewPlaces
  <2>2. /\ IsFiniteSet(PlaceIds') /\ Cardinality(PlaceIds') <= Cardinality(PlaceIds)
    BY <1>2, <2>1, FS_Subset
  <2>3. Cardinality(PlaceIds') \in Nat
    BY <2>2, FS_CardinalityType
  <2> QED BY <2>1, <2>2, <2>3 DEF FewPlaces
<1>3. CASE PlacesNarrow
  <2>1. PlaceIds' \subseteq PlaceIds
    BY <1>3 DEF PlacesNarrow, PlaceIds
  <2>2. OnePlaceEach'
    BY <1>3 DEF PlacesNarrow, OnePlaceEach, UniqueIds
  <2> QED BY <1>1, <1>2, <2>1, <2>2
<1>4. ASSUME NEW s \in starting, TakeStarted(s) PROVE OnePlaceEach' /\ FewPlaces'
  <2> DEFINE t == [id |-> s.id, episode |-> s.episode, known |-> s.known]
  <2>1. running' = running \cup {t} /\ starting' = starting \ {s} /\ t.id = s.id
    BY <1>4 DEF TakeStarted
  <2> HIDE DEF t
  <2>2. IdsOf(running') = IdsOf(running) \cup {s.id}
    BY <2>1 DEF IdsOf
  <2>3. IdsOf(starting') = IdsOf(starting) \ {s.id} /\ s.id \in IdsOf(starting)
    BY <2>1 DEF IdsOf, OnePlaceEach
  <2>4. PlaceIds' \subseteq PlaceIds
    BY <2>2, <2>3 DEF PlaceIds
  <2>5. s.id \notin IdsOf(running)
    BY <2>3 DEF OnePlaceEach
  <2>6. /\ \A a, b \in running' : a.id = b.id => a = b
        /\ \A a, b \in starting' : a.id = b.id => a = b
    BY <2>1, <2>5 DEF OnePlaceEach, IdsOf
  <2>7. IdsOf(running') \cap IdsOf(starting') = {}
    BY <2>2, <2>3 DEF OnePlaceEach
  <2> QED BY <1>2, <2>4, <2>6, <2>7 DEF OnePlaceEach
<1>5. CASE StartQueued
  <2>1. Pending \in SUBSET Row /\ UniqueIds(Pending)
    BY DEF TypeOK, UniqueIds, Pending
  <2> QED BY <1>1, <1>5, <2>1, StartFits DEF StartQueued
<1>6. CASE Yielded
  <2>1. manager.waiting \in SUBSET Row /\ UniqueIds(manager.waiting)
    BY DEF TypeOK, Manager, WaitingOnce
  <2> QED BY <1>1, <1>6, <2>1, StartFits DEF Yielded
<1> QED BY <1>1, <1>3, <1>4, <1>5, <1>6, PlacesClassified

LEMMA InitPlaces == Init => OnePlaceEach /\ WaitingOnce /\ FewPlaces
<1> SUFFICES ASSUME Init PROVE OnePlaceEach /\ WaitingOnce /\ FewPlaces
  OBVIOUS
<1>1. PlaceIds = {} /\ IdsOf(running) = {}
  BY DEF Init, PlaceIds, IdsOf
<1>2. FewPlaces
  BY <1>1, FS_EmptySet, ConstantsAssumption DEF FewPlaces
<1> QED BY <1>1, <1>2 DEF Init, OnePlaceEach, WaitingOnce, UniqueIds, At

-----------------------------------------------------------------------------
(* An active row has an entry behind it. *)

(* No row becomes active. *)
NoneActivated ==
    \A t \in rows' : t.state = "active" => \E r \in rows : r.id = t.id /\ r.state = "active"

(* What leaves the manager and its entries alone, and makes no row active. *)
LEMMA QuietStep ==
    ASSUME ManagedInv, manager' = manager, running' = running, NoneActivated
    PROVE  ManagedInv'
<1>1. WalkInv'
  BY DEF ManagedInv, WalkInv
<1>2. RetiredInv'
  BY DEF ManagedInv, RetiredInv, NoneActivated
<1>3. YieldInv'
  BY DEF ManagedInv, YieldInv, NoneActivated
<1>4. ActiveIsManaged'
  BY DEF ManagedInv, ActiveIsManaged, NoneActivated
<1> QED BY <1>1, <1>2, <1>3, <1>4 DEF ManagedInv

(* The manager comes to rest: whatever is active must have its entry. *)
LEMMA RestStep ==
    ASSUME NEW place \in {"down", "sleep", "take"}, manager' = At(place),
           place # "down" => \A r \in rows' : r.state = "active" => r.id \in IdsOf(running')
    PROVE  ManagedInv'
<1>1. /\ manager'.at = place /\ manager'.todo = {} /\ manager'.gone = {}
      /\ manager'.cur = {}
  BY DEF At
<1> QED BY <1>1 DEF ManagedInv, WalkInv, RetiredInv, YieldInv, ActiveIsManaged

(* One entry of the walk is done with. *)
LEMMA WalkedStep ==
    ASSUME TypeOK, ManagedInv, NEW i,
           manager.at \in {"poll", "resume", "finish"},
           manager' = Walked(i) \/ manager' = Retired(i),
           IdsOf(running') = IdsOf(running),
           \A t \in rows' : t.state = "active" =>
                /\ t.id \in IdsOf(running) /\ t.id \notin manager.gone
                /\ manager' = Retired(i) => t.id # i
    PROVE  ManagedInv'
<1>1. manager \in Manager
  BY DEF TypeOK
<1>2. /\ manager'.at = "poll" /\ manager'.cur = {}
      /\ manager'.todo = manager.todo \ {i}
  BY <1>1 DEF Manager, Walked, Retired
<1>3. \/ manager'.gone = manager.gone
      \/ manager' = Retired(i) /\ manager'.gone = manager.gone \cup {i}
  BY <1>1 DEF Manager, Walked, Retired
<1>4. WalkInv'
  BY <1>2, <1>3 DEF ManagedInv, WalkInv
<1>5. RetiredInv'
  BY <1>3 DEF RetiredInv
<1>6. YieldInv' /\ ActiveIsManaged'
  BY <1>2 DEF YieldInv, ActiveIsManaged
<1> QED BY <1>4, <1>5, <1>6 DEF ManagedInv

(* During a walk an active row has its entry, and was not retired. *)
LEMMA WalkKnowsActive ==
    ASSUME ManagedInv, manager.at \in {"poll", "resume", "finish"}
    PROVE  /\ manager.todo \subseteq IdsOf(running) /\ manager.todo \cap manager.gone = {}
           /\ manager.at \in {"resume", "finish"} => manager.cur \subseteq manager.todo
           /\ \A r \in rows : r.state = "active" =>
                 r.id \in IdsOf(running) /\ r.id \notin manager.gone
BY DEF ManagedInv, WalkInv, RetiredInv, ActiveIsManaged

LEMMA ScreenActivatesNone ==
    ASSUME TypeOK, Screen
    PROVE  NoneActivated
<1>1. RowsOK(rows)
  BY DEF TypeOK, RowsOK
<1>2. ASSUME NEW e \in Episodes, Enqueue(e) PROVE NoneActivated
  <2>1. \A i : NewRow(i, e).state # "active"
    BY DEF NewRow
  <2>2. \A r \in rows : [r EXCEPT !.state = "queued", !.front = 0].state # "active"
    BY <1>1 DEF RowsOK, Row
  <2> QED BY <1>2, <2>1, <2>2 DEF Enqueue, NoneActivated
<1>3. ASSUME NEW r \in rows, Pause(r) PROVE NoneActivated
  <2> DEFINE s == IF r.state = "paused" THEN "queued" ELSE "paused"
  <2>1. s \in RowState /\ s # "active" /\ rows' = WithState(rows, r.id, s)
    BY <1>3 DEF RowState, Pause
  <2> HIDE DEF s
  <2> QED BY <1>1, <2>1, WithStateKeeps DEF NoneActivated
<1>4. ASSUME NEW r \in rows, StartNow(r) PROVE NoneActivated
  <2>1. \A at : [r EXCEPT !.state = "queued", !.front = at].state # "active"
    BY <1>1 DEF RowsOK, Row
  <2> QED BY <1>4, <2>1 DEF StartNow, NoneActivated
<1>5. ASSUME ClearCompleted \/ \E r \in rows : Cancel(r) \/ Delete(r)
      PROVE  NoneActivated
  BY <1>5 DEF Cancel, Delete, ClearCompleted, NoneActivated
<1> QED BY <1>2, <1>3, <1>4, <1>5 DEF Screen

LEMMA PollManaged ==
    ASSUME TypeOK, ManagedInv, Poll
    PROVE  ManagedInv'
<1>1. RowsOK(rows) /\ running \in SUBSET Entry /\ starting \in SUBSET Start /\ manager \in Manager
  BY DEF TypeOK, RowsOK
<1>2. \A e \in running : e.id \in IdsOf(running) /\ PackOf(e.episode) \in Packs
  BY <1>1, PackOfType DEF IdsOf, Entry
<1>3. CASE BeginPoll
  <2>1. /\ manager'.at = "poll" /\ manager'.todo = IdsOf(running)
        /\ manager'.gone = {} /\ manager'.cur = {} /\ running' = running /\ rows' = rows
    BY <1>3 DEF BeginPoll, At, disk
  <2>2. manager.cur = {}
    BY <1>3 DEF BeginPoll, ManagedInv, WalkInv
  <2>3. manager.at = "sleep"
    BY <1>3 DEF BeginPoll
  <2>4. WalkInv' /\ RetiredInv' /\ YieldInv'
    BY <2>1 DEF WalkInv, RetiredInv, YieldInv
  <2>5. ActiveIsManaged'
    BY <2>1, <2>2, <2>3 DEF ManagedInv, ActiveIsManaged
  <2> QED BY <2>4, <2>5 DEF ManagedInv
<1>4. ASSUME NEW e \in running, PollCancelled(e) PROVE ManagedInv'
  <2>1. IdsOf(running') = IdsOf(running)
    <3>1. \/ ForgetFrom(running, PackOf(e.episode), TRUE)
          \/ UNCHANGED <<file, swarm, running, starting>>
      BY <1>4 DEF PollCancelled
    <3> QED BY <1>1, <1>2, <3>1, ForgetKeeps
  <2>2. /\ manager.at = "poll" /\ manager' = Retired(e.id) /\ rows' = rows
        /\ \A r \in rows : r.id # e.id
    BY <1>4 DEF PollCancelled, Polling, IdsOf
  <2> QED BY <2>1, <2>2, WalkKnowsActive, WalkedStep
<1>5. ASSUME NEW e \in running, PollLetGo(e) PROVE ManagedInv'
  <2>1. /\ manager.at = "poll" /\ manager' = Retired(e.id) /\ running' = running
        /\ rows' = Requeued(rows, e.id)
    BY <1>5 DEF PollLetGo, Polling
  <2>2. \A t \in rows' : t.state = "active" =>
           t.id # e.id /\ \E r \in rows : t.id = r.id /\ r.state = "active"
    BY <1>1, <2>1, RequeuedKeeps
  <2> QED BY <2>1, <2>2, WalkKnowsActive, WalkedStep
<1>6. ASSUME NEW e \in running, PollPaused(e) PROVE ManagedInv'
  <2>1. /\ manager.at = "poll" /\ manager' = Walked(e.id) /\ running' = running
        /\ rows' = rows
    BY <1>6 DEF PollPaused, Polling, disk
  <2>2. ASSUME NEW r \in rows, r.state = "active", manager' = Retired(e.id) PROVE r.id # e.id
    <3>1. PICK q \in rows : q.id = e.id /\ q.state = "paused"
      BY <1>6 DEF PollPaused, RowsAt
    <3> QED BY <1>1, <2>2, <3>1 DEF RowsOK
  <2> QED BY <2>1, <2>2, WalkKnowsActive, WalkedStep
<1>7. ASSUME NEW e \in running, PollRefused(e) PROVE ManagedInv'
  <2>1. /\ manager.at = "poll" /\ manager' = Walked(e.id) /\ running' = running
        /\ rows' = WithState(rows, e.id, "paused")
    BY <1>7 DEF PollRefused, ToResume, Polling
  <2>2. \A t \in rows' : t.state = "active" =>
           t.id # e.id /\ \E r \in rows : t.id = r.id /\ r.state = "active"
    <3>1. \A t \in rows' :
             \E r \in rows : t.id = r.id /\ t.state = IF r.id = e.id THEN "paused" ELSE r.state
      BY <1>1, <2>1, WithStateKeeps DEF RowState
    <3> QED BY <3>1
  <2> QED BY <2>1, <2>2, WalkKnowsActive, WalkedStep
<1>8. ASSUME NEW e \in running, NEW at \in {"resume", "finish"},
             manager.at \in {"poll", "resume"}, e.id \in manager.todo,
             manager' = [manager EXCEPT !.at = at, !.cur = {e.id}],
             IdsOf(running') = IdsOf(running),
             \A t \in rows' : t.state = "active" =>
                t.id \in IdsOf(running) /\ t.id \notin manager.gone
      PROVE  ManagedInv'
  <2>1. /\ manager'.at = at /\ manager'.cur = {e.id} /\ manager'.todo = manager.todo
        /\ manager'.gone = manager.gone
    BY <1>1, <1>8 DEF Manager
  <2>2. WalkInv'
    BY <1>8, <2>1 DEF ManagedInv, WalkInv
  <2>3. RetiredInv'
    BY <1>8, <2>1 DEF RetiredInv
  <2>4. YieldInv' /\ ActiveIsManaged'
    BY <1>8, <2>1 DEF YieldInv, ActiveIsManaged
  <2> QED BY <2>2, <2>3, <2>4 DEF ManagedInv
<1>9. ASSUME NEW e \in running, PollResume(e) PROVE ManagedInv'
  <2>1. /\ manager.at = "poll" /\ e.id \in manager.todo /\ running' = running /\ rows' = rows
        /\ manager' = [manager EXCEPT !.at = "resume", !.cur = {e.id}]
    BY <1>9 DEF PollResume, ToResume, Polling, disk
  <2> QED BY <1>8, <2>1, WalkKnowsActive
<1>10. ASSUME NEW e \in running, PollProgress(e) PROVE ManagedInv'
  <2>1. IdsOf(running') = IdsOf(running)
    <3>1. \/ ForgetFrom(running, PackOf(e.episode), FALSE)
          \/ UNCHANGED <<file, swarm, running, starting>>
      BY <1>10 DEF PollProgress
    <3> QED BY <1>1, <1>2, <3>1, ForgetKeeps
  <2>2. manager.at \in {"poll", "resume"}
    BY <1>10 DEF PollProgress, ToMeasure, Polling
  <2>3. e.id \in manager.todo
    <3>1. \/ e.id \in manager.todo
          \/ manager.at = "resume" /\ e.id \in manager.cur
      BY <1>10 DEF PollProgress, ToMeasure, Polling
    <3> QED BY <3>1, WalkKnowsActive
  <2>4. \A t \in rows' : t.state = "active" =>
           t.id \in IdsOf(running) /\ t.id \notin manager.gone
    <3>1. \A t \in rows' : \E r \in rows : t.id = r.id /\ (t.state = r.state \/ r.id = e.id)
      <4>1. rows' = WithProgress(rows, e.id)
        BY <1>10 DEF PollProgress
      <4>2. \A t \in WithProgress(rows, e.id) :
               \E r \in rows : t.id = r.id /\ (t.state = r.state \/ r.id = e.id)
        BY <1>1, WithProgressKeeps
      <4> QED BY <4>1, <4>2
    <3> QED BY <2>2, <2>3, <3>1, WalkKnowsActive
  <2>5. \/ manager' = Walked(e.id)
        \/ manager' = [manager EXCEPT !.at = "finish", !.cur = {e.id}]
    BY <1>10 DEF PollProgress
  <2>6. CASE manager' = Walked(e.id)
    <3>1. Walked(e.id) # Retired(e.id)
      <4>1. e.id \notin manager.gone
        BY <2>2, <2>3, WalkKnowsActive
      <4>2. Walked(e.id).gone = manager.gone /\ Retired(e.id).gone = manager.gone \cup {e.id}
        BY <1>1 DEF Manager, Walked, Retired
      <4> QED BY <4>1, <4>2
    <3> QED BY <2>1, <2>2, <2>4, <2>6, <3>1, WalkedStep
  <2>7. CASE manager' = [manager EXCEPT !.at = "finish", !.cur = {e.id}]
    BY <1>8, <2>1, <2>2, <2>3, <2>4, <2>7
  <2> QED BY <2>5, <2>6, <2>7
<1>11. ASSUME NEW i \in RowIds, FinishDownload(i) PROVE ManagedInv'
  <2>1. /\ manager.at = "finish" /\ manager' = Retired(i) /\ running' = running
        /\ rows' = WithState(rows, i, "done")
    BY <1>11 DEF FinishDownload
  <2>2. \A t \in rows' : t.state = "active" =>
           t.id # i /\ \E r \in rows : t.id = r.id /\ r.state = "active"
    <3>1. \A t \in rows' :
             \E r \in rows : t.id = r.id /\ t.state = IF r.id = i THEN "done" ELSE r.state
      BY <1>1, <2>1, WithStateKeeps DEF RowState
    <3> QED BY <3>1
  <2> QED BY <2>1, <2>2, WalkKnowsActive, WalkedStep
<1>12. CASE EndPoll
  <2>1. /\ manager.at = "poll" /\ manager' = At("take") /\ rows' = rows
        /\ running' = {r \in running : r.id \notin manager.gone}
    BY <1>12 DEF EndPoll, disk
  <2>2. \A r \in rows : r.state = "active" => r.id \in IdsOf(running')
    BY <2>1, WalkKnowsActive DEF IdsOf
  <2> QED BY <2>1, <2>2, RestStep
<1> QED BY <1>3, <1>4, <1>5, <1>6, <1>7, <1>9, <1>10, <1>11, <1>12 DEF Poll

LEMMA RefillManaged ==
    ASSUME TypeOK, ManagedInv, Refill
    PROVE  ManagedInv'
<1>1. RowsOK(rows) /\ running \in SUBSET Entry /\ starting \in SUBSET Start /\ manager \in Manager
  BY DEF TypeOK, RowsOK
<1>2. ASSUME manager.at = "take"
      PROVE  /\ manager.cur = {} /\ manager.todo = {} /\ manager.gone = {}
             /\ \A r \in rows : r.state = "active" => r.id \in IdsOf(running)
  BY <1>2 DEF ManagedInv, WalkInv, ActiveIsManaged
<1>3. ASSUME NEW s \in starting, TakeStarted(s) PROVE ManagedInv'
  <2> DEFINE t == [id |-> s.id, episode |-> s.episode, known |-> s.known]
  <2>1. /\ manager.at = "take" /\ manager' = manager /\ running' = running \cup {t}
        /\ rows' = WithProgress(rows, s.id) /\ t.id = s.id
    BY <1>3 DEF TakeStarted
  <2> HIDE DEF t
  <2>2. IdsOf(running') = IdsOf(running) \cup {s.id}
    BY <2>1 DEF IdsOf
  <2>3. \A r \in rows' : r.state = "active" => r.id \in IdsOf(running')
    <3>1. \A r \in rows' : \E q \in rows : r.id = q.id /\ (r.state = q.state \/ q.id = s.id)
      <4>1. \A r \in WithProgress(rows, s.id) :
               \E q \in rows : r.id = q.id /\ (r.state = q.state \/ q.id = s.id)
        BY <1>1, WithProgressKeeps
      <4> QED BY <2>1, <4>1
    <3> QED BY <1>2, <2>1, <2>2, <3>1
  <2> QED BY <1>2, <2>1, <2>3 DEF ManagedInv, WalkInv, RetiredInv, YieldInv, ActiveIsManaged
<1>4. ASSUME NEW s \in starting, TakeFailed(s) PROVE ManagedInv'
  <2>1. \A r \in rows' :
           \E q \in rows : r.id = q.id /\ r.state = IF q.id = s.id THEN "failed" ELSE q.state
    BY <1>1, <1>4, WithStateKeeps DEF TakeFailed, RowState
  <2>2. NoneActivated
    BY <2>1 DEF NoneActivated
  <2> QED BY <1>4, <2>2, QuietStep DEF TakeFailed
<1>5. CASE StartQueued \/ StayFull
  <2>1. /\ manager.at = "take" /\ manager' = At("sleep") /\ rows' = rows /\ running' = running
    BY <1>5 DEF StartQueued, StayFull, Taken, disk
  <2> QED BY <1>2, <2>1, RestStep
<1>6. ASSUME NEW e \in running, Yield(e) PROVE ManagedInv'
  <2> DEFINE left == running \ {e}
  <2>1. manager.at = "take" /\ rows' = rows
    BY <1>6 DEF Yield, Taken
  <2>2. /\ manager'.at = "yield" /\ manager'.cur = {e.id} /\ manager'.paused = PausedIds
        /\ manager'.todo = {} /\ manager'.gone = {}
    BY <1>6 DEF Yield, At
  <2>3. IdsOf(running') = IdsOf(left)
    <3>1. \/ ForgetFrom(left, PackOf(e.episode), FALSE)
          \/ running' = left /\ UNCHANGED <<file, swarm, starting>>
      BY <1>6 DEF Yield
    <3>2. left \in SUBSET Entry /\ PackOf(e.episode) \in Packs
      BY <1>1, PackOfType DEF Entry
    <3> HIDE DEF left
    <3> QED BY <3>1, <3>2, ForgetKeeps
  <2>4. IdsOf(running) \subseteq IdsOf(left) \cup {e.id}
    BY DEF IdsOf
  <2>5. ActiveIsManaged'
    BY <1>2, <2>1, <2>2, <2>3, <2>4 DEF ActiveIsManaged
  <2>6. YieldInv'
    <3>1. ASSUME NEW r \in rows, r.id \in PausedIds PROVE r.state # "active"
      BY <1>1, <3>1 DEF PausedIds, RowsOK
    <3> QED BY <2>1, <2>2, <3>1 DEF YieldInv
  <2>7. WalkInv' /\ RetiredInv'
    BY <2>2 DEF WalkInv, RetiredInv
  <2> QED BY <2>5, <2>6, <2>7 DEF ManagedInv
<1>7. CASE Yielded
  <2>1. PICK i \in manager.cur :
           rows' = IF i \in manager.paused THEN rows ELSE WithState(rows, i, "queued")
    BY <1>7 DEF Yielded
  <2>2. manager.at = "yield" /\ manager' = At("sleep") /\ running' = running
    BY <1>7 DEF Yielded
  <2>3. /\ \A j \in manager.cur : j = i
        /\ \A r \in rows : r.id \in manager.cur \cap manager.paused => r.state # "active"
    BY <2>1, <2>2 DEF ManagedInv, YieldInv
  <2>4. \A r \in rows : r.state = "active" => r.id \in IdsOf(running) \/ r.id = i
    BY <2>2, <2>3 DEF ManagedInv, ActiveIsManaged
  <2>5. \A r \in rows' : r.state = "active" => r.id \in IdsOf(running)
    <3>1. CASE i \in manager.paused
      BY <2>1, <2>3, <2>4, <3>1
    <3>2. CASE i \notin manager.paused
      <4>1. \A r \in rows' :
               \E q \in rows : r.id = q.id /\ r.state = IF q.id = i THEN "queued" ELSE q.state
        BY <1>1, <2>1, <3>2, WithStateKeeps DEF RowState
      <4> QED BY <2>4, <4>1
    <3> QED BY <3>1, <3>2
  <2> QED BY <2>2, <2>5, RestStep
<1> QED BY <1>3, <1>4, <1>5, <1>6, <1>7 DEF Refill

LEMMA ManagedStep ==
    ASSUME TypeOK, ManagedInv, [Next]_vars
    PROVE  ManagedInv'
<1>1. CASE Screen
  <2>1. manager' = manager /\ running' = running
    BY <1>1 DEF Screen, Enqueue, Pause, StartNow, Cancel, Delete, ClearCompleted, work
  <2> QED BY <1>1, <2>1, ScreenActivatesNone, QuietStep
<1>2. CASE Restart
  <2>1. manager' = At("down")
    BY <1>2 DEF Restart
  <2> QED BY <2>1, RestStep
<1>3. ASSUME \/ Leak \/ Watch \/ UNCHANGED vars
             \/ \E i \in RowIds : Task(i)
             \/ \E e \in Episodes : Fetch(e)
      PROVE  ManagedInv'
  <2>1. manager' = manager /\ running' = running /\ rows' = rows
    BY <1>3 DEF Leak, Watch, Halt, Recover, Task, Permit, NoPeers, Add, Fetch, vars, work, disk
  <2>2. NoneActivated
    BY <2>1 DEF NoneActivated
  <2> QED BY <2>1, <2>2, QuietStep
<1>4. CASE Spawn
  <2>1. manager' = At("sleep") /\ \A r \in rows' : r.state # "active"
    <3>1. RowsOK(rows)
      BY DEF TypeOK, RowsOK
    <3> QED BY <1>4, <3>1, RestoredKeeps DEF Spawn
  <2> QED BY <2>1, RestStep
<1> QED BY <1>1, <1>2, <1>3, <1>4, PollManaged, RefillManaged DEF Next, Outside, Manage

LEMMA InitManaged == Init => ManagedInv
BY DEF Init, ManagedInv, WalkInv, RetiredInv, YieldInv, ActiveIsManaged, At

-----------------------------------------------------------------------------
(* The theorems. *)

(* The invariant the four properties follow from: every step keeps it. *)
THEOREM Inductive == Spec => []IInv
<1>1. Init => IInv
  BY InitTyped, InitPlaces, InitManaged DEF IInv
<1>2. IInv /\ [Next]_vars => IInv'
  BY NextTyped, PlacesStep, ManagedStep DEF IInv
<1> QED BY <1>1, <1>2, PTL DEF Spec

(* Every variable keeps its type; in particular no two rows ever share an episode or an
   id. *)
THEOREM DownloadsTyped == Spec => []TypeOK
<1>1. IInv => TypeOK
  BY DEF IInv
<1> QED BY <1>1, Inductive, PTL

(* No row ever has two places, however often it is paused, cancelled, asked for again or
   started now while its torrent is being added. *)
THEOREM RowsHaveOnePlace == Spec => []OnePlaceEach
<1>1. IInv => OnePlaceEach
  BY DEF IInv
<1> QED BY <1>1, Inductive, PTL

(* What runs and what is being added never take more places than there are, for any
   number of them. *)
THEOREM ConcurrencyIsCapped == Spec => []PlacesKept
<1>1. IInv => PlacesKept
  BY PlacesCounted DEF IInv, FewPlaces, PlacesKept
<1> QED BY <1>1, Inductive, PTL

(* A row never sits at "downloading" with nothing behind it: through pauses, cancellations,
   yields and restarts, what is active is in the manager's hands. *)
THEOREM ActiveRowsAreManaged == Spec => []ActiveIsManaged
<1>1. IInv => ActiveIsManaged
  BY DEF IInv, ManagedInv
<1> QED BY <1>1, Inductive, PTL

-----------------------------------------------------------------------------
(***************************************************************************)
(* What the download queue leaves on disk and in the session, for any      *)
(* releases, any number of places and all bounds: a row that is done has   *)
(* its file, and no torrent is fetched for nobody.  Of the episodes that   *)
(* are all their release holds, and that were asked for when nothing was   *)
(* left of an earlier row of them: the plain ones, here.                   *)
(*                                                                         *)
(* The argument is about who may touch a plain episode.  Everything that   *)
(* names it names one id (NamedInv), so it has one entry at most, its      *)
(* torrent is never shared, and whoever forgets the torrent is the entry   *)
(* of its own row.                                                         *)
(***************************************************************************)

Plain(e) == Single(e) /\ e \notin crossed

(* Everything that names a row and its episode; two things of one id are of one episode, and
   of a plain episode they are of one id. *)
Named == rows \cup running \cup starting \cup manager.waiting
NamedInv ==
    /\ \A a, b \in Named : a.id = b.id => a.episode = b.episode
    /\ \A a, b \in Named : a.episode = b.episode /\ Plain(a.episode) => a.id = b.id

(* No torrent of a plain episode is shared, one that is has entries, only what was
   added is known, and a queue is held only while somebody yields. *)
KnownInv ==
    /\ manager.at # "yield" => manager.waiting = {}
    /\ \A e \in Episodes : Plain(e) => {e} \notin manager.shared
    /\ \A p \in manager.shared : \E h \in running : PackOf(h.episode) = p
    /\ \A s \in starting : s.known => s.stage = "ok"

(* A torrent that is known is in the session. *)
ThereInv == \A h \in running \cup starting : h.known => session[PackOf(h.episode)] # "absent"

(* A settled row is not being added, and what runs of one that is done has no torrent left,
   unless it seeds. *)
SettledInv ==
    /\ \A r \in rows : r.state \in {"done", "failed"} =>
          r.id \notin IdsOf(starting) \cup IdsOf(manager.waiting)
    /\ \A r \in rows, h \in running : r.id = h.id =>
          /\ r.state # "failed"
          /\ r.state = "done" /\ Seeding = {FALSE} => ~h.known
    /\ manager.at = "finish" /\ Seeding = {FALSE} =>
          \A h \in running : h.id \in manager.cur => ~h.known

(* The torrent of a plain episode has an entry that knows it, which the walk has not retired. *)
Wanted(e) ==
    \/ \E h \in running : h.episode = e /\ h.known /\ h.id \notin manager.gone
    \/ \E s \in starting : s.episode = e /\ s.known
WantedInv ==
    Seeding = {FALSE} =>
        \A e \in Episodes : Plain(e) /\ session[{e}] # "absent" => Wanted(e)

(* librqbit has nothing of a torrent it does not have; what it has of the file of a plain
   row is what is on disk; and one that is done, or about to be, has it all. *)
FilesInv ==
    /\ \A e \in Episodes : session[PackOf(e)] = "absent" => got[e] = "none"
    /\ \A r \in rows : Plain(r.episode) /\ got[r.episode] # "none"
                          => file[r.episode] = got[r.episode]
    /\ \A r \in rows : Plain(r.episode) /\ r.state = "done" => file[r.episode] = "whole"
    /\ manager.at = "finish" =>
          \A r \in rows : r.id \in manager.cur /\ Plain(r.episode)
                             => file[r.episode] = "whole"

DiskInv == NamedInv /\ KnownInv /\ ThereInv /\ SettledInv /\ WantedInv /\ FilesInv

-----------------------------------------------------------------------------
(* Where the rows and the entries of a step come from. *)

(* Nothing is named in T but what S names. *)
From(S, T) == \A t \in T : \E s \in S : s.id = t.id /\ s.episode = t.episode

(* No row of T is new or newly settled. *)
Calmer(R, T) == \A t \in T : \E r \in R :
                   /\ r.id = t.id /\ r.episode = t.episode
                   /\ t.state \in {"done", "failed"} => r.state = t.state

LEMMA WithStateRows ==
    ASSUME NEW R, RowsOK(R), NEW i, NEW s \in RowState
    PROVE  /\ \A t \in WithState(R, i, s) : \E r \in R :
                 /\ r.id = t.id /\ r.episode = t.episode
                 /\ t.state = IF r.id = i THEN s ELSE r.state
           /\ From(R, WithState(R, i, s))
           /\ s \notin {"done", "failed"} => Calmer(R, WithState(R, i, s))
<1> DEFINE f(r) == IF r.id = i THEN [r EXCEPT !.state = s] ELSE r
<1>1. \A r \in R : /\ f(r).id = r.id /\ f(r).episode = r.episode
                   /\ f(r).state = IF r.id = i THEN s ELSE r.state
  BY DEF RowsOK, Row, RowState
<1>2. WithState(R, i, s) = {f(r) : r \in R}
  BY DEF WithState
<1> HIDE DEF f
<1> QED BY <1>1, <1>2 DEF From, Calmer

LEMMA WithProgressCalm == ASSUME NEW R, RowsOK(R), NEW i PROVE Calmer(R, WithProgress(R, i))
<1> DEFINE f(r) == IF r.id = i THEN Progressed(r) ELSE r
<1>1. \A r \in R : /\ f(r).id = r.id /\ f(r).episode = r.episode
                   /\ f(r).state \in {r.state, "active"}
  BY DEF RowsOK, Row, Progressed
<1>2. WithProgress(R, i) = {f(r) : r \in R}
  BY DEF WithProgress
<1> HIDE DEF f
<1> QED BY <1>1, <1>2 DEF Calmer

LEMMA RequeuedCalm == ASSUME NEW R, RowsOK(R), NEW i PROVE Calmer(R, Requeued(R, i))
<1> DEFINE f(r) == IF r.id = i /\ r.state = "active" THEN [r EXCEPT !.state = "queued"] ELSE r
<1>1. \A r \in R : /\ f(r).id = r.id /\ f(r).episode = r.episode
                   /\ f(r).state \in {r.state, "queued"}
  BY DEF RowsOK, Row
<1>2. Requeued(R, i) = {f(r) : r \in R}
  BY DEF Requeued
<1> HIDE DEF f
<1> QED BY <1>1, <1>2 DEF Calmer

LEMMA RestoredCalm == ASSUME NEW R, RowsOK(R) PROVE Calmer(R, Restored(R))
<1> DEFINE f(r) == IF r.state = "active" THEN [r EXCEPT !.state = "queued"] ELSE r
<1>1. \A r \in R : /\ f(r).id = r.id /\ f(r).episode = r.episode
                   /\ f(r).state \in {r.state, "queued"}
  BY DEF RowsOK, Row
<1>2. Restored(R) = {f(r) : r \in R}
  BY DEF Restored
<1> HIDE DEF f
<1> QED BY <1>1, <1>2 DEF Calmer

(* A row queued anew, by enqueue or by "Start now", is the row it was. *)
LEMMA QueuedCalm ==
    ASSUME NEW R, RowsOK(R), NEW r \in R, NEW at
    PROVE  Calmer(R, (R \ {r}) \cup {[r EXCEPT !.state = "queued", !.front = at]})
<1> DEFINE t == [r EXCEPT !.state = "queued", !.front = at]
<1>1. t.id = r.id /\ t.episode = r.episode /\ t.state = "queued"
  BY DEF RowsOK, Row
<1> HIDE DEF t
<1>2. Calmer(R, (R \ {r}) \cup {t})
  BY <1>1 DEF Calmer
<1> QED BY <1>2 DEF t

LEMMA UnknownFrom ==
    ASSUME NEW S, S \in SUBSET Entry \/ S \in SUBSET Start, NEW p
    PROVE  /\ From(S, Unknown(S, p))
           /\ \A t \in Unknown(S, p) : \E h \in S :
                 /\ h.id = t.id /\ h.episode = t.episode
                 /\ t.known => h.known /\ PackOf(h.episode) # p
                 /\ S \in SUBSET Start => t.stage = h.stage
           /\ \A h \in S : PackOf(h.episode) # p => h \in Unknown(S, p)
           /\ \A h \in S : \E t \in Unknown(S, p) : t.id = h.id /\ t.episode = h.episode
<1> DEFINE f(r) == IF PackOf(r.episode) = p THEN [r EXCEPT !.known = FALSE] ELSE r
<1>1. \A r \in S : /\ f(r).id = r.id /\ f(r).episode = r.episode
                   /\ f(r).known => r.known /\ PackOf(r.episode) # p
                   /\ r \in Start => f(r).stage = r.stage
                   /\ PackOf(r.episode) # p => f(r) = r
  BY DEF Entry, Start
<1>2. Unknown(S, p) = {f(r) : r \in S}
  BY DEF Unknown
<1> HIDE DEF f
<1> QED BY <1>1, <1>2 DEF From

LEMMA StagedFrom ==
    ASSUME NEW s \in starting, starting \in SUBSET Start, NEW stage, Staged(s, stage)
    PROVE  /\ From(starting, starting')
           /\ \A t \in starting' :
                 \/ t \in starting
                 \/ /\ t.id = s.id /\ t.episode = s.episode
                    /\ t.stage = stage /\ t.known = (stage = "ok")
           /\ \A t \in starting : t # s => t \in starting'
           /\ stage = "ok" => \E t \in starting' : t.episode = s.episode /\ t.known
<1> DEFINE t == [s EXCEPT !.stage = stage, !.known = stage = "ok"]
<1>1. /\ t.id = s.id /\ t.episode = s.episode
      /\ t.stage = stage /\ t.known = (stage = "ok")
  BY DEF Start
<1>2. starting' = (starting \ {s}) \cup {t}
  BY DEF Staged
<1> HIDE DEF t
<1> QED BY <1>1, <1>2 DEF From

LEMMA StartFromFrom ==
    ASSUME NEW Q \in SUBSET Row, StartFrom(Q)
    PROVE  /\ From(starting \cup Q, starting')
           /\ starting \subseteq starting'
           /\ \A t \in starting' \ starting :
                 /\ ~t.known
                 /\ \E r \in Q : r.id = t.id /\ r.state = "queued"
<1> DEFINE F == {r \in Startable(Q) : Cardinality({q \in Startable(Q) : Before(q, r)}) < Room}
<1>1. starting' = starting \cup {Begun(r) : r \in F}
  BY DEF StartFrom
<1>2. \A r \in F : r \in Q /\ r.state = "queued"
  BY DEF Startable
<1> HIDE DEF F
<1>3. \A r \in F : /\ Begun(r).id = r.id /\ Begun(r).episode = r.episode
                   /\ Begun(r).known = FALSE
  BY DEF Begun
<1> QED BY <1>1, <1>2, <1>3 DEF From

-----------------------------------------------------------------------------
(* Every step, by what it does to the rows and to what names them. *)

New(e) ==
    /\ \A r \in rows : r.episode # e
    /\ \E i \in RowIds : IsNewId(i) /\ rows' = rows \cup {NewRow(i, e)}
    /\ crossed' = IF Single(e) /\ Left(e) THEN crossed \cup {e} ELSE crossed \ {e}
    /\ UNCHANGED <<file, swarm, watch, work, restarts>>

(* Four steps make a row, or settle one; no other does. *)
LEMMA RowsStep ==
    ASSUME TypeOK, [Next]_vars
    PROVE  \/ Calmer(rows, rows') /\ crossed' = crossed
           \/ \E e \in Episodes : New(e)
           \/ \E i \in RowIds : FinishDownload(i)
           \/ \E s \in starting : TakeFailed(s)
<1>1. RowsOK(rows)
  BY DEF TypeOK, RowsOK
<1>2. ASSUME NEW T, T \subseteq rows PROVE Calmer(rows, T)
  BY <1>2 DEF Calmer
<1>3. \A i : \A st \in {"queued", "paused"} : Calmer(rows, WithState(rows, i, st))
  BY <1>1, WithStateRows DEF RowState
<1>4. \A i : Calmer(rows, WithProgress(rows, i)) /\ Calmer(rows, Requeued(rows, i))
  BY <1>1, WithProgressCalm, RequeuedCalm
<1>5. ASSUME NEW e \in Episodes, Enqueue(e)
      PROVE  (Calmer(rows, rows') /\ crossed' = crossed) \/ New(e)
  <2>1. ASSUME NEW r \in rows,
               rows' = (rows \ {r}) \cup {[r EXCEPT !.state = "queued", !.front = 0]}
        PROVE  Calmer(rows, rows')
    BY <1>1, <2>1, QueuedCalm
  <2> QED BY <1>5, <2>1 DEF Enqueue, New
<1>6. ASSUME NEW r \in rows, Pause(r) PROVE Calmer(rows, rows') /\ crossed' = crossed
  BY <1>3, <1>6 DEF Pause, past
<1>7. ASSUME NEW r \in rows, StartNow(r) PROVE Calmer(rows, rows') /\ crossed' = crossed
  <2>1. PICK at \in 1..MaxFront :
           rows' = (rows \ {r}) \cup {[r EXCEPT !.state = "queued", !.front = at]}
    BY <1>7 DEF StartNow
  <2>2. Calmer(rows, rows')
    BY <1>1, <2>1, QueuedCalm
  <2> QED BY <1>7, <2>2 DEF StartNow, past
<1>8. ASSUME NEW r \in rows, Cancel(r) \/ Delete(r)
      PROVE  Calmer(rows, rows') /\ crossed' = crossed
  BY <1>2, <1>8 DEF Cancel, Delete, past
<1>9. ASSUME ClearCompleted \/ Restart \/ Leak PROVE Calmer(rows, rows') /\ crossed' = crossed
  BY <1>2, <1>9 DEF ClearCompleted, Restart, Leak, disk, past
<1>10. ASSUME NEW s \in starting, Permit(s) \/ NoPeers(s) \/ Add(s)
       PROVE  Calmer(rows, rows') /\ crossed' = crossed
  BY <1>2, <1>10 DEF Permit, NoPeers, Add, disk, past
<1>11. ASSUME (\E e \in Episodes : Fetch(e)) \/ Watch
       PROVE  Calmer(rows, rows') /\ crossed' = crossed
  BY <1>2, <1>11 DEF Fetch, Watch, Halt, Recover, disk, past
<1>12. CASE Spawn
  BY <1>1, <1>12, RestoredCalm DEF Spawn, past
<1>13. ASSUME NEW e \in running,
              \/ PollCancelled(e) \/ PollLetGo(e) \/ PollPaused(e) \/ PollRefused(e)
              \/ PollResume(e) \/ PollProgress(e) \/ Yield(e)
       PROVE  Calmer(rows, rows') /\ crossed' = crossed
  BY <1>2, <1>3, <1>4, <1>13
     DEF PollCancelled, PollLetGo, PollPaused, PollRefused, PollResume, PollProgress, Yield,
         disk, past
<1>14. ASSUME NEW s \in starting, TakeStarted(s)
       PROVE  Calmer(rows, rows') /\ crossed' = crossed
  BY <1>4, <1>14 DEF TakeStarted, past
<1>15. ASSUME BeginPoll \/ EndPoll \/ StartQueued \/ StayFull
       PROVE  Calmer(rows, rows') /\ crossed' = crossed
  BY <1>2, <1>15 DEF BeginPoll, EndPoll, StartQueued, StayFull, disk, past
<1>16. CASE Yielded
  BY <1>2, <1>3, <1>16 DEF Yielded, past
<1>17. CASE UNCHANGED vars
  BY <1>2, <1>17 DEF vars, disk, past
<1> QED BY <1>5, <1>6, <1>7, <1>8, <1>9, <1>10, <1>11, <1>12, <1>13, <1>14, <1>15, <1>16, <1>17
        DEF Next, Outside, Screen, Task, Manage, Poll, Refill

(* The entries are still there, though their torrent may not be. *)
Kept == \A h \in running : \E g \in running' : g.id = h.id /\ g.episode = h.episode

(* A queue is read when somebody yields, shared torrents are counted when a walk begins, and
   the next round of the manager has neither. *)
LEMMA ManagerStep ==
    ASSUME TypeOK, [Next]_vars
    PROVE  \/ /\ manager'.waiting = manager.waiting /\ manager'.shared = manager.shared
              /\ (manager.at = "yield") = (manager'.at = "yield")
              /\ Kept
           \/ manager'.waiting = {} /\ manager'.shared = {}
           \/ BeginPoll /\ manager'.waiting = {}
           \/ /\ \E e \in running : Yield(e)
              /\ manager'.waiting = Pending /\ manager'.shared = {} /\ manager'.at = "yield"
<1> DEFINE Goes == /\ manager'.waiting = manager.waiting /\ manager'.shared = manager.shared
                   /\ (manager.at = "yield") = (manager'.at = "yield")
<1>1. \A place \in Places : At(place).waiting = {} /\ At(place).shared = {}
  BY DEF At, Places
<1>2. manager \in Manager /\ running \in SUBSET Entry
  BY DEF TypeOK
<1>3. ASSUME NEW i \in RowIds, manager' = Walked(i) \/ manager' = Retired(i),
             manager.at # "yield"
      PROVE  Goes
  BY <1>2, <1>3 DEF Walked, Retired, Manager
<1>4. \A e \in running : e.id \in RowIds
  BY <1>2 DEF Entry
<1>5. ASSUME NEW p, NEW d, ForgetFrom(running, p, d) PROVE Kept
  BY <1>2, <1>5, UnknownFrom DEF ForgetFrom, Kept
<1>6. ASSUME UNCHANGED running PROVE Kept
  BY <1>6 DEF Kept
<1>7. ASSUME UNCHANGED manager PROVE Goes
  BY <1>7
<1>8. CASE Poll
  <2>1. CASE BeginPoll
    BY <2>1 DEF BeginPoll, At
  <2>2. ASSUME NEW e \in running, PollResume(e) PROVE Goes /\ Kept
    BY <1>2, <1>6, <2>2 DEF PollResume, ToResume, Polling, Manager
  <2>3. ASSUME NEW e \in running, PollProgress(e) PROVE Goes /\ Kept
    <3>1. manager.at # "yield"
      BY <2>3 DEF PollProgress, ToMeasure, Polling
    <3>2. manager' = Walked(e.id) \/ manager' = [manager EXCEPT !.at = "finish", !.cur = {e.id}]
      BY <2>3 DEF PollProgress
    <3>3. Goes
      BY <1>2, <1>3, <1>4, <3>1, <3>2 DEF Manager
    <3>4. Kept
      BY <1>5, <1>6, <2>3 DEF PollProgress
    <3> QED BY <3>3, <3>4
  <2>4. ASSUME NEW e \in running,
               PollCancelled(e) \/ PollLetGo(e) \/ PollPaused(e) \/ PollRefused(e)
        PROVE  Goes /\ Kept
    <3>1. manager' = Walked(e.id) \/ manager' = Retired(e.id)
      BY <2>4 DEF PollCancelled, PollLetGo, PollPaused, PollRefused
    <3>2. manager.at # "yield"
      BY <2>4 DEF PollCancelled, PollLetGo, PollPaused, PollRefused, ToResume, Polling
    <3>3. Kept
      BY <1>5, <1>6, <2>4 DEF PollCancelled, PollLetGo, PollPaused, PollRefused
    <3> HIDE DEF Goes
    <3> QED BY <1>3, <1>4, <3>1, <3>2, <3>3
  <2>5. ASSUME NEW i \in RowIds, FinishDownload(i) PROVE Goes /\ Kept
    BY <1>3, <1>6, <2>5 DEF FinishDownload
  <2>6. CASE EndPoll
    BY <1>1, <2>6 DEF EndPoll, Places
  <2> QED BY <1>8, <2>1, <2>2, <2>3, <2>4, <2>5, <2>6 DEF Poll
<1>9. CASE Refill
  <2>1. ASSUME NEW e \in running, Yield(e)
        PROVE  manager'.waiting = Pending /\ manager'.shared = {} /\ manager'.at = "yield"
    BY <2>1 DEF Yield, At
  <2>2. ASSUME NEW s \in starting, TakeStarted(s) \/ TakeFailed(s)
        PROVE  Goes /\ Kept
    BY <2>2 DEF TakeStarted, TakeFailed, Kept
  <2>3. ASSUME StartQueued \/ StayFull \/ Yielded
        PROVE  manager'.waiting = {} /\ manager'.shared = {}
    BY <1>1, <2>3 DEF StartQueued, StayFull, Yielded, Places
  <2> QED BY <1>9, <2>1, <2>2, <2>3 DEF Refill
<1>10. CASE Restart \/ Spawn
  BY <1>1, <1>10 DEF Restart, Spawn, Places
<1>11. CASE Screen \/ Leak
  BY <1>6, <1>7, <1>11
     DEF Screen, Enqueue, Pause, StartNow, Cancel, Delete, ClearCompleted, Leak, work
<1>12. CASE (\E i \in RowIds : Task(i)) \/ (\E e \in Episodes : Fetch(e)) \/ Watch
  BY <1>6, <1>7, <1>12 DEF Task, Permit, NoPeers, Add, Fetch, Watch, Halt, Recover, work
<1>13. CASE UNCHANGED vars
  BY <1>6, <1>7, <1>13 DEF vars, work
<1> QED BY <1>8, <1>9, <1>10, <1>11, <1>12, <1>13 DEF Next, Outside, Manage

(* What is named was named before, or is the row that is new. *)
LEMMA EntriesFrom ==
    ASSUME TypeOK, [Next]_vars
    PROVE  From(Named, running') /\ From(Named, starting') /\ From(Named, manager'.waiting)
<1>1. running \in SUBSET Entry /\ starting \in SUBSET Start
  BY DEF TypeOK
<1>2. ASSUME NEW T, T \subseteq Named PROVE From(Named, T)
  BY <1>2 DEF From
<1>3. From(Named, manager'.waiting)
  <2>1. Pending \subseteq Named /\ manager.waiting \subseteq Named
    BY DEF Pending, Named
  <2>2. {} \subseteq Named
    OBVIOUS
  <2> QED BY <1>2, <2>1, <2>2, ManagerStep
<1> SUFFICES From(Named, running') /\ From(Named, starting')
  BY <1>3
<1>4. ASSUME UNCHANGED <<running, starting>> PROVE From(Named, running') /\ From(Named, starting')
  BY <1>2, <1>4 DEF Named
<1>5. ASSUME NEW S \in SUBSET running, NEW p, NEW d, ForgetFrom(S, p, d)
      PROVE  From(Named, running') /\ From(Named, starting')
  <2>1. From(S, running') /\ From(starting, starting')
    BY <1>1, <1>5, UnknownFrom DEF ForgetFrom
  <2> QED BY <2>1 DEF From, Named
<1>6. ASSUME NEW s \in starting, Permit(s) \/ NoPeers(s) \/ Add(s)
      PROVE  From(Named, running') /\ From(Named, starting')
  <2>1. PICK stage : Staged(s, stage)
    BY <1>6 DEF Permit, NoPeers, Add
  <2>2. From(starting, starting') /\ running' = running
    BY <1>1, <1>6, <2>1, StagedFrom DEF Permit, NoPeers, Add
  <2> QED BY <2>2 DEF From, Named
<1>7. ASSUME NEW Q \in SUBSET Row, Q \subseteq Named, StartFrom(Q), UNCHANGED running
      PROVE  From(Named, running') /\ From(Named, starting')
  <2>1. From(starting \cup Q, starting')
    BY <1>7, StartFromFrom
  <2> QED BY <1>7, <2>1 DEF From, Named
<1>8. CASE Poll
  <2>1. ASSUME NEW e \in running, PollCancelled(e) \/ PollProgress(e)
        PROVE  From(Named, running') /\ From(Named, starting')
    BY <1>4, <1>5, <2>1 DEF PollCancelled, PollProgress
  <2>2. ASSUME NEW e \in running,
               PollLetGo(e) \/ PollPaused(e) \/ PollRefused(e) \/ PollResume(e)
        PROVE  From(Named, running') /\ From(Named, starting')
    BY <1>4, <2>2 DEF PollLetGo, PollPaused, PollRefused, PollResume
  <2>3. ASSUME BeginPoll \/ \E i \in RowIds : FinishDownload(i)
        PROVE  From(Named, running') /\ From(Named, starting')
    BY <1>4, <2>3 DEF BeginPoll, FinishDownload
  <2>4. CASE EndPoll
    BY <1>2, <2>4 DEF EndPoll, Named
  <2> QED BY <1>8, <2>1, <2>2, <2>3, <2>4 DEF Poll
<1>9. CASE Refill
  <2>1. ASSUME NEW s \in starting, TakeStarted(s)
        PROVE  From(Named, running') /\ From(Named, starting')
    BY <2>1 DEF TakeStarted, From, Named
  <2>2. ASSUME NEW s \in starting, TakeFailed(s)
        PROVE  From(Named, running') /\ From(Named, starting')
    BY <1>2, <2>2 DEF TakeFailed, Named
  <2>3. CASE StartQueued
    BY <1>7, <2>3 DEF StartQueued, Pending, Named, TypeOK
  <2>4. CASE StayFull
    BY <1>4, <2>4 DEF StayFull
  <2>5. CASE Yielded
    BY <1>7, <2>5 DEF Yielded, Named, TypeOK, Manager
  <2>6. ASSUME NEW e \in running, Yield(e)
        PROVE  From(Named, running') /\ From(Named, starting')
    <3>1. running \ {e} \in SUBSET running
      OBVIOUS
    <3>2. \/ ForgetFrom(running \ {e}, PackOf(e.episode), FALSE)
          \/ running' = running \ {e} /\ UNCHANGED starting
      BY <2>6 DEF Yield
    <3> QED BY <1>2, <1>5, <3>1, <3>2 DEF Named
  <2> QED BY <1>9, <2>1, <2>2, <2>3, <2>4, <2>5, <2>6 DEF Refill
<1>10. CASE Restart
  BY <1>10 DEF Restart, From
<1>11. CASE Screen \/ Leak
  BY <1>4, <1>11 DEF Screen, Enqueue, Pause, StartNow, Cancel, Delete, ClearCompleted, Leak, work
<1>12. CASE (\E i \in RowIds : Task(i)) \/ (\E e \in Episodes : Fetch(e)) \/ Watch \/ Spawn
  BY <1>4, <1>6, <1>12 DEF Task, Fetch, Watch, Halt, Recover, Spawn, work
<1>13. CASE UNCHANGED vars
  BY <1>4, <1>13 DEF vars, work
<1> QED BY <1>8, <1>9, <1>10, <1>11, <1>12, <1>13 DEF Next, Outside, Manage

(* Finishing a row, and failing one, change its state only. *)
LEMMA SettledFrom ==
    ASSUME TypeOK, (\E i \in RowIds : FinishDownload(i)) \/ (\E s \in starting : TakeFailed(s))
    PROVE  From(rows, rows') /\ crossed' = crossed
<1>1. RowsOK(rows)
  BY DEF TypeOK, RowsOK
<1>2. \A i : \A st \in {"done", "failed"} : From(rows, WithState(rows, i, st))
  BY <1>1, WithStateRows DEF RowState
<1> QED BY <1>2 DEF FinishDownload, TakeFailed, past

(* The id of a new row is nobody's, and its episode is nobody's either, unless that is noted. *)
LEMMA NewNamed ==
    ASSUME TypeOK, NamedInv, NEW e \in Episodes, New(e)
    PROVE  NamedInv'
<1>1. PICK i \in RowIds : IsNewId(i) /\ rows' = rows \cup {NewRow(i, e)}
  BY DEF New
<1>2. NewRow(i, e).id = i /\ NewRow(i, e).episode = e
  BY DEF NewRow
<1>3. Named' = Named \cup {NewRow(i, e)}
  BY <1>1 DEF New, Named, work
<1>4. \A a \in Named : a.id # i
  <2>1. \A a \in Named : a.id \in LiveIds /\ a.id \in Int
    BY DEF Named, LiveIds, IdsOf, TypeOK, Manager, Row, Entry, Start, RowIds
  <2> QED BY <1>1, <2>1 DEF IsNewId
<1>5. \A f : Plain(f)' /\ f # e => Plain(f)
  BY DEF Plain, New
<1>6. Plain(e)' => \A a \in Named : a.episode # e
  BY DEF Plain, New, Left, Named
<1> QED BY <1>2, <1>3, <1>4, <1>5, <1>6 DEF NamedInv

LEMMA NamedStep ==
    ASSUME TypeOK, NamedInv, [Next]_vars
    PROVE  NamedInv'
<1>1. CASE \E e \in Episodes : New(e)
  BY <1>1, NewNamed
<1>2. ASSUME From(rows, rows'), crossed' = crossed PROVE NamedInv'
  <2>1. From(Named, Named')
    BY <1>2, EntriesFrom DEF From, Named
  <2>2. \A f : Plain(f)' = Plain(f)
    BY <1>2 DEF Plain
  <2>3. \A a \in Named' : \E b \in Named : b.id = a.id /\ b.episode = a.episode
    BY <2>1 DEF From
  <2> HIDE DEF Named
  <2> QED BY <2>2, <2>3 DEF NamedInv
<1>3. CASE Calmer(rows, rows') /\ crossed' = crossed
  BY <1>2, <1>3 DEF Calmer, From
<1> QED BY <1>1, <1>2, <1>3, RowsStep, SettledFrom

(* Two entries of a plain episode would be one. *)
LEMMA PlainPack == ASSUME NEW e \in Episodes, Single(e) PROVE PackOf(e) = {e}
BY PackOfType, ConstantsAssumption DEF Single

LEMMA PackPlain == ASSUME NEW f \in Episodes, NEW e, PackOf(f) = {e} PROVE f = e
BY PackOfType

LEMMA PlainNotShared ==
    ASSUME TypeOK, OnePlaceEach, NamedInv, NEW e \in Episodes, Plain(e)
    PROVE  ~ Cardinality({r \in OfPack(running, {e}) : r.known}) > 1
<1> DEFINE S == {r \in OfPack(running, {e}) : r.known}
<1>1. \A r \in S : r \in running /\ r.episode = e
  BY PackPlain DEF OfPack, TypeOK, Entry
<1>2. \A a, b \in S : a = b
  BY <1>1 DEF NamedInv, Named, OnePlaceEach
<1>3. S = {} \/ \E a : S = {a}
  BY <1>2
<1> HIDE DEF S
<1>4. Cardinality(S) = 0 \/ Cardinality(S) = 1
  BY <1>3, FS_EmptySet, FS_Singleton
<1>5. ~ Cardinality(S) > 1
  BY <1>4
<1> QED BY <1>5 DEF S

(* A torrent that is in the manager's count of shared ones has an entry. *)
LEMMA CountedHeld ==
    ASSUME TypeOK, BeginPoll, NEW p \in manager'.shared
    PROVE  p \in Packs /\ Cardinality({r \in OfPack(running, p) : r.known}) > 1
BY DEF BeginPoll, At

LEMMA SharedHeld ==
    ASSUME TypeOK, BeginPoll, NEW p \in manager'.shared
    PROVE  \E h \in running : PackOf(h.episode) = p
<1> DEFINE S == {r \in OfPack(running, p) : r.known}
<1>1. Cardinality(S) > 1
  BY CountedHeld
<1>2. S # {}
  <2> HIDE DEF S
  <2>1. S = {} => Cardinality(S) = 0
    BY FS_EmptySet
  <2> QED BY <1>1, <2>1
<1> QED BY <1>2 DEF OfPack

(* A torrent being added becomes known when it is added. *)
KnownBefore(t) ==
    t.known => \/ \E s \in starting : s.known /\ s.episode = t.episode /\ s.stage = t.stage
               \/ t.stage = "ok" /\ \E s \in starting : Add(s) /\ s.episode = t.episode

LEMMA KnownFrom ==
    ASSUME TypeOK, [Next]_vars
    PROVE  \A t \in starting' : KnownBefore(t)
<1>1. starting \in SUBSET Start /\ manager.waiting \in SUBSET Row /\ Pending \in SUBSET Row
  BY DEF TypeOK, Manager, Pending
<1>2. \A t \in starting : KnownBefore(t)
  BY DEF KnownBefore
<1>3. ASSUME starting' \subseteq starting PROVE \A t \in starting' : KnownBefore(t)
  BY <1>2, <1>3
<1>4. ASSUME NEW S, NEW p, NEW d, ForgetFrom(S, p, d)
      PROVE  \A t \in starting' : KnownBefore(t)
  BY <1>1, <1>4, UnknownFrom DEF ForgetFrom, KnownBefore
<1>5. ASSUME NEW s \in starting, Permit(s) \/ NoPeers(s) \/ Add(s)
      PROVE  \A t \in starting' : KnownBefore(t)
  <2>1. PICK stage : Staged(s, stage) /\ (stage = "ok" => Add(s))
    BY <1>5 DEF Permit, NoPeers, Add
  <2>2. ASSUME NEW t \in starting' PROVE KnownBefore(t)
    <3>1. \/ t \in starting
          \/ t.episode = s.episode /\ t.stage = stage /\ t.known = (stage = "ok")
      BY <1>1, <2>1, <2>2, StagedFrom
    <3>2. t.episode = s.episode /\ t.stage = stage /\ t.known = (stage = "ok") => KnownBefore(t)
      BY <2>1 DEF KnownBefore
    <3> QED BY <1>2, <3>1, <3>2
  <2> QED BY <2>2
<1>6. ASSUME NEW Q \in SUBSET Row, StartFrom(Q)
      PROVE  \A t \in starting' : KnownBefore(t)
  BY <1>2, <1>6, StartFromFrom DEF KnownBefore
<1>7. CASE Poll
  <2>1. ASSUME NEW e \in running, PollCancelled(e) \/ PollProgress(e)
        PROVE  (\E S, p, d : ForgetFrom(S, p, d)) \/ starting' \subseteq starting
    BY <2>1 DEF PollCancelled, PollProgress
  <2>2. ASSUME NEW e \in running,
               PollLetGo(e) \/ PollPaused(e) \/ PollRefused(e) \/ PollResume(e)
        PROVE  starting' \subseteq starting
    BY <2>2 DEF PollLetGo, PollPaused, PollRefused, PollResume
  <2>3. ASSUME BeginPoll \/ EndPoll \/ \E i \in RowIds : FinishDownload(i)
        PROVE  starting' \subseteq starting
    BY <2>3 DEF BeginPoll, EndPoll, FinishDownload
  <2> QED BY <1>3, <1>4, <1>7, <2>1, <2>2, <2>3 DEF Poll
<1>8. CASE Refill
  <2>1. ASSUME (\E s \in starting : TakeStarted(s) \/ TakeFailed(s)) \/ StayFull
        PROVE  starting' \subseteq starting
    BY <2>1 DEF TakeStarted, TakeFailed, StayFull
  <2>2. ASSUME StartQueued \/ Yielded PROVE \E Q \in SUBSET Row : StartFrom(Q)
    BY <1>1, <2>2 DEF StartQueued, Yielded
  <2>3. ASSUME NEW e \in running, Yield(e)
        PROVE  (\E S, p, d : ForgetFrom(S, p, d)) \/ starting' \subseteq starting
    BY <2>3 DEF Yield
  <2> QED BY <1>3, <1>4, <1>6, <1>8, <2>1, <2>2, <2>3 DEF Refill
<1>9. CASE Outside
  BY <1>3, <1>9 DEF Outside, Screen, Enqueue, Pause, StartNow, Cancel, Delete, ClearCompleted,
                    Leak, Restart, work
<1>10. CASE (\E i \in RowIds : Task(i)) \/ (\E e \in Episodes : Fetch(e)) \/ Watch \/ Spawn
  BY <1>3, <1>5, <1>10 DEF Task, Fetch, Watch, Halt, Recover, Spawn, work
<1>11. CASE UNCHANGED vars
  BY <1>3, <1>11 DEF vars, work
<1> QED BY <1>7, <1>8, <1>9, <1>10, <1>11 DEF Next, Manage

LEMMA KnownStep ==
    ASSUME TypeOK, OnePlaceEach, NamedInv, KnownInv, [Next]_vars
    PROVE  KnownInv'
<1>1. manager'.at # "yield" => manager'.waiting = {}
  BY ManagerStep DEF KnownInv, BeginPoll, At
<1>2. \A p \in manager'.shared : \E h \in running' : PackOf(h.episode) = p
  <2>1. ASSUME BeginPoll PROVE running' = running
    BY <2>1 DEF BeginPoll
  <2>2. ASSUME Kept, manager'.shared = manager.shared, NEW p \in manager'.shared
        PROVE  \E h \in running' : PackOf(h.episode) = p
    BY <2>2 DEF KnownInv, Kept
  <2> QED BY <2>1, <2>2, ManagerStep, SharedHeld
<1>3. ASSUME NEW e \in Episodes, Plain(e)', {e} \in manager'.shared PROVE FALSE
  <2>1. CASE Plain(e)
    <3>1. CASE BeginPoll
      BY <1>3, <2>1, <3>1, CountedHeld, PlainNotShared
    <3>2. CASE manager'.shared \subseteq manager.shared
      BY <1>3, <2>1, <3>2 DEF KnownInv
    <3> QED BY <3>1, <3>2, ManagerStep
  <2>2. CASE ~Plain(e)
    <3>1. New(e)
      BY <1>3, <2>2, RowsStep, SettledFrom DEF Plain, New
    <3>2. {e} \in manager.shared /\ ~Left(e)
      BY <1>3, <3>1 DEF New, Plain, work
    <3>3. PICK h \in running : PackOf(h.episode) = {e}
      BY <3>2 DEF KnownInv
    <3>4. h.episode = e
      BY <3>3, PackPlain DEF TypeOK, Entry
    <3> QED BY <3>2, <3>4 DEF Left
  <2> QED BY <2>1, <2>2
<1>4. \A s \in starting' : s.known => s.stage = "ok"
  BY KnownFrom DEF KnownBefore, KnownInv
<1> QED BY <1>1, <1>2, <1>3, <1>4 DEF KnownInv

-----------------------------------------------------------------------------
(* Settled rows. *)

(* What runs ran before, and knows no more than it did, or was just taken in. *)
RanBefore(h) == \E g \in running : g.id = h.id /\ g.episode = h.episode /\ (h.known => g.known)

LEMMA RunningFrom ==
    ASSUME TypeOK, [Next]_vars, NEW h \in running'
    PROVE  \/ RanBefore(h)
           \/ \E s \in starting : /\ TakeStarted(s)
                                  /\ h.id = s.id /\ h.episode = s.episode /\ h.known = s.known
<1>1. running \in SUBSET Entry
  BY DEF TypeOK
<1>2. ASSUME running' \subseteq running PROVE RanBefore(h)
  BY <1>2 DEF RanBefore
<1>3. ASSUME NEW S \in SUBSET running, NEW p, NEW d, ForgetFrom(S, p, d) PROVE RanBefore(h)
  BY <1>1, <1>3, UnknownFrom DEF ForgetFrom, RanBefore
<1>4. ASSUME NEW e \in running,
             \/ PollCancelled(e) \/ PollLetGo(e) \/ PollPaused(e) \/ PollRefused(e)
             \/ PollResume(e) \/ PollProgress(e)
      PROVE  RanBefore(h)
  BY <1>2, <1>3, <1>4
     DEF PollCancelled, PollLetGo, PollPaused, PollRefused, PollResume, PollProgress
<1>5. ASSUME NEW e \in running, Yield(e) PROVE RanBefore(h)
  <2>1. \/ ForgetFrom(running \ {e}, PackOf(e.episode), FALSE)
        \/ running' = running \ {e}
    BY <1>5 DEF Yield
  <2> QED BY <1>2, <1>3, <2>1
<1>6. CASE Poll
  BY <1>2, <1>4, <1>6 DEF Poll, BeginPoll, EndPoll, FinishDownload
<1>7. CASE Refill
  <2>1. ASSUME NEW s \in starting, TakeStarted(s)
        PROVE  \/ h \in running
               \/ h.id = s.id /\ h.episode = s.episode /\ h.known = s.known
    BY <2>1 DEF TakeStarted
  <2>2. ASSUME StartQueued \/ StayFull \/ Yielded \/ \E s \in starting : TakeFailed(s)
        PROVE  running' \subseteq running
    BY <2>2 DEF StartQueued, StayFull, Yielded, TakeFailed
  <2>3. h \in running => RanBefore(h)
    BY DEF RanBefore
  <2> QED BY <1>2, <1>5, <1>7, <2>1, <2>2, <2>3 DEF Refill
<1>8. CASE Outside
  BY <1>2, <1>8 DEF Outside, Screen, Enqueue, Pause, StartNow, Cancel, Delete, ClearCompleted,
                    Leak, Restart, work
<1>9. CASE (\E i \in RowIds : Task(i)) \/ (\E e \in Episodes : Fetch(e)) \/ Watch \/ Spawn
  BY <1>2, <1>9 DEF Task, Permit, NoPeers, Add, Fetch, Watch, Halt, Recover, Spawn, work
<1>10. CASE UNCHANGED vars
  BY <1>2, <1>10 DEF vars, work
<1> QED BY <1>6, <1>7, <1>8, <1>9, <1>10 DEF Next, Manage

(* What is being added was, or is of a row of the queue it was taken from, that was queued. *)
LEMMA StartingFrom ==
    ASSUME TypeOK, [Next]_vars, NEW i \in IdsOf(starting')
    PROVE  \/ i \in IdsOf(starting)
           \/ StartQueued /\ \E r \in rows : r.id = i /\ r.state = "queued"
           \/ Yielded /\ i \in IdsOf(manager.waiting)
<1>1. starting \in SUBSET Start /\ manager.waiting \in SUBSET Row /\ Pending \in SUBSET Row
  BY DEF TypeOK, Manager, Pending
<1>2. ASSUME starting' \subseteq starting PROVE i \in IdsOf(starting)
  BY <1>2 DEF IdsOf
<1>3. ASSUME From(starting, starting') PROVE i \in IdsOf(starting)
  BY <1>3 DEF IdsOf, From
<1>4. ASSUME NEW S, NEW p, NEW d, ForgetFrom(S, p, d) PROVE i \in IdsOf(starting)
  BY <1>1, <1>3, <1>4, UnknownFrom DEF ForgetFrom
<1>5. ASSUME NEW s \in starting, Permit(s) \/ NoPeers(s) \/ Add(s) PROVE i \in IdsOf(starting)
  <2>1. PICK stage : Staged(s, stage)
    BY <1>5 DEF Permit, NoPeers, Add
  <2> QED BY <1>1, <1>3, <2>1, StagedFrom
<1>6. CASE Poll
  <2>1. ASSUME NEW e \in running, PollCancelled(e) \/ PollProgress(e)
        PROVE  (\E S, p, d : ForgetFrom(S, p, d)) \/ starting' \subseteq starting
    BY <2>1 DEF PollCancelled, PollProgress
  <2>2. ASSUME NEW e \in running,
               PollLetGo(e) \/ PollPaused(e) \/ PollRefused(e) \/ PollResume(e)
        PROVE  starting' \subseteq starting
    BY <2>2 DEF PollLetGo, PollPaused, PollRefused, PollResume
  <2>3. ASSUME BeginPoll \/ EndPoll \/ \E j \in RowIds : FinishDownload(j)
        PROVE  starting' \subseteq starting
    BY <2>3 DEF BeginPoll, EndPoll, FinishDownload
  <2> QED BY <1>2, <1>4, <1>6, <2>1, <2>2, <2>3 DEF Poll
<1>7. CASE Refill
  <2>1. ASSUME (\E s \in starting : TakeStarted(s) \/ TakeFailed(s)) \/ StayFull
        PROVE  starting' \subseteq starting
    BY <2>1 DEF TakeStarted, TakeFailed, StayFull
  <2>2. ASSUME NEW Q \in SUBSET Row, StartFrom(Q)
        PROVE  i \in IdsOf(starting) \/ \E r \in Q : r.id = i /\ r.state = "queued"
    BY <2>2, StartFromFrom DEF IdsOf
  <2>3. CASE StartQueued
    BY <1>1, <2>2, <2>3 DEF StartQueued, Pending
  <2>4. CASE Yielded
    BY <1>1, <2>2, <2>4 DEF Yielded, IdsOf
  <2>5. ASSUME NEW e \in running, Yield(e)
        PROVE  (\E S, p, d : ForgetFrom(S, p, d)) \/ starting' \subseteq starting
    BY <2>5 DEF Yield
  <2> QED BY <1>2, <1>4, <1>7, <2>1, <2>3, <2>4, <2>5 DEF Refill
<1>8. CASE Outside
  BY <1>2, <1>8 DEF Outside, Screen, Enqueue, Pause, StartNow, Cancel, Delete, ClearCompleted,
                    Leak, Restart, work
<1>9. CASE (\E j \in RowIds : Task(j)) \/ (\E e \in Episodes : Fetch(e)) \/ Watch \/ Spawn
  BY <1>2, <1>5, <1>9 DEF Task, Fetch, Watch, Halt, Recover, Spawn, work
<1>10. CASE UNCHANGED vars
  BY <1>2, <1>10 DEF vars, work
<1> QED BY <1>6, <1>7, <1>8, <1>9, <1>10 DEF Next, Manage

(* What the manager is finishing, it began to in this step or holds as it was. *)
LEMMA FinishingFrom ==
    ASSUME TypeOK, [Next]_vars, manager'.at = "finish"
    PROVE  \/ /\ manager' = manager
              /\ (\A s \in starting : ~TakeStarted(s)) /\ \A e \in running : ~PollCancelled(e)
           \/ \E e \in running : PollProgress(e) /\ Complete(PackOf(e.episode))
                                   /\ manager'.cur = {e.id}
<1>1. \A place \in Places : At(place).at = place
  BY DEF At, Places
<1>2. manager \in Manager
  BY DEF TypeOK
<1>3. \A i : Walked(i).at = "poll" /\ Retired(i).at = "poll"
  BY <1>2 DEF Walked, Retired, Manager
<1>4. ASSUME manager' = manager
      PROVE  (\A s \in starting : ~TakeStarted(s)) /\ \A e \in running : ~PollCancelled(e)
  BY <1>4 DEF TakeStarted, PollCancelled, Polling
<1>5. CASE Poll
  <2>1. ASSUME NEW e \in running, PollProgress(e)
        PROVE  Complete(PackOf(e.episode)) /\ manager'.cur = {e.id}
    BY <1>2, <1>3, <2>1 DEF PollProgress, Manager
  <2>2. ASSUME NEW e \in running,
               PollCancelled(e) \/ PollLetGo(e) \/ PollPaused(e) \/ PollRefused(e)
        PROVE  FALSE
    BY <1>3, <2>2 DEF PollCancelled, PollLetGo, PollPaused, PollRefused
  <2>3. ASSUME NEW e \in running, PollResume(e) PROVE FALSE
    BY <1>2, <2>3 DEF PollResume, Manager
  <2>4. ASSUME \E i \in RowIds : FinishDownload(i) PROVE FALSE
    BY <1>3, <2>4 DEF FinishDownload
  <2>5. ASSUME BeginPoll \/ EndPoll PROVE FALSE
    BY <1>1, <2>5 DEF BeginPoll, EndPoll, At, Places
  <2> QED BY <1>5, <2>1, <2>2, <2>3, <2>4, <2>5 DEF Poll
<1>6. CASE Refill
  <2>1. ASSUME StartQueued \/ StayFull \/ Yielded \/ \E e \in running : Yield(e) PROVE FALSE
    BY <1>1, <2>1 DEF StartQueued, StayFull, Yielded, Yield, At, Places
  <2>2. ASSUME \E s \in starting : TakeStarted(s) \/ TakeFailed(s) PROVE FALSE
    BY <2>2 DEF TakeStarted, TakeFailed
  <2> QED BY <1>6, <2>1, <2>2 DEF Refill
<1>7. CASE Restart \/ Spawn
  BY <1>1, <1>7 DEF Restart, Spawn, Places
<1>8. CASE Screen \/ Leak
  BY <1>4, <1>8 DEF Screen, Enqueue, Pause, StartNow, Cancel, Delete, ClearCompleted, Leak, work
<1>9. CASE (\E i \in RowIds : Task(i)) \/ (\E e \in Episodes : Fetch(e)) \/ Watch
  BY <1>4, <1>9 DEF Task, Permit, NoPeers, Add, Fetch, Watch, Halt, Recover, work
<1>10. CASE UNCHANGED vars
  BY <1>4, <1>10 DEF vars, work
<1> QED BY <1>5, <1>6, <1>7, <1>8, <1>9, <1>10 DEF Next, Outside, Manage

(* The rows a step settles, and what is left of them. *)
LEMMA SettledStep ==
    ASSUME TypeOK, OnePlaceEach, WalkInv, KnownInv, SettledInv, [Next]_vars
    PROVE  SettledInv'
<1>1. /\ RowsOK(rows) /\ running \in SUBSET Entry /\ starting \in SUBSET Start
      /\ IdsOf(running) \cap IdsOf(starting) = {}
  BY DEF TypeOK, RowsOK, OnePlaceEach
<1>2. ASSUME NEW r \in rows', r.state \in {"done", "failed"}
      PROVE  \/ \E q \in rows : q.id = r.id /\ q.state = r.state
             \/ FinishDownload(r.id) /\ r.id \in manager.cur /\ r.state = "done"
             \/ \E s \in starting : TakeFailed(s) /\ s.id = r.id /\ r.state = "failed"
  <2>1. CASE Calmer(rows, rows')
    BY <1>2, <2>1 DEF Calmer
  <2>2. ASSUME NEW e \in Episodes, New(e) PROVE r \in rows
    BY <1>2, <2>2 DEF New, NewRow
  <2>3. ASSUME NEW i \in RowIds, FinishDownload(i)
        PROVE  \/ \E q \in rows : q.id = r.id /\ q.state = r.state
               \/ i = r.id /\ i \in manager.cur /\ r.state = "done"
    <3>1. rows' = WithState(rows, i, "done") /\ i \in manager.cur
      BY <2>3 DEF FinishDownload
    <3>2. PICK q \in rows : q.id = r.id /\ r.state = IF q.id = i THEN "done" ELSE q.state
      BY <1>1, <3>1, WithStateRows DEF RowState
    <3> QED BY <3>1, <3>2
  <2>4. ASSUME NEW s \in starting, TakeFailed(s)
        PROVE  \/ \E q \in rows : q.id = r.id /\ q.state = r.state
               \/ s.id = r.id /\ r.state = "failed"
    <3>1. rows' = WithState(rows, s.id, "failed")
      BY <2>4 DEF TakeFailed
    <3>2. PICK q \in rows : q.id = r.id /\ r.state = IF q.id = s.id THEN "failed" ELSE q.state
      BY <1>1, <3>1, WithStateRows DEF RowState
    <3> QED BY <3>2
  <2> QED BY <2>1, <2>2, <2>3, <2>4, RowsStep
<1>3. ASSUME NEW i, FinishDownload(i)
      PROVE  /\ manager'.waiting = {} /\ starting' = starting /\ running' = running
             /\ i \in IdsOf(running) /\ i \notin IdsOf(starting)
             /\ manager.at = "finish" /\ i \in manager.cur
  <2>1. /\ manager.at = "finish" /\ i \in manager.cur /\ manager' = Retired(i)
        /\ starting' = starting /\ running' = running
    BY <1>3 DEF FinishDownload
  <2>2. Retired(i).waiting = manager.waiting
    BY DEF Retired, Walked, TypeOK, Manager
  <2> QED BY <1>1, <2>1, <2>2 DEF KnownInv, WalkInv
<1>4. ASSUME NEW s \in starting, TakeFailed(s)
      PROVE  /\ manager'.waiting = {} /\ running' = running
             /\ s.id \notin IdsOf(running) /\ s.id \notin IdsOf(starting')
  <2>1. /\ manager'.waiting = {} /\ running' = running /\ starting' = starting \ {s}
    BY <1>4 DEF TakeFailed, KnownInv
  <2>2. s.id \notin IdsOf(starting \ {s})
    BY DEF OnePlaceEach, IdsOf
  <2>3. s.id \in IdsOf(starting)
    BY DEF IdsOf
  <2> QED BY <1>1, <2>1, <2>2, <2>3
<1>5. ASSUME NEW r \in rows', r.state \in {"done", "failed"}
      PROVE  r.id \notin IdsOf(starting') \cup IdsOf(manager'.waiting)
  <2>1. ASSUME NEW q \in rows, q.id = r.id, q.state = r.state
        PROVE  r.id \notin IdsOf(starting') \cup IdsOf(manager'.waiting)
    <3>1. r.id \notin IdsOf(starting) \cup IdsOf(manager.waiting)
      BY <1>5, <2>1 DEF SettledInv
    <3>2. \A t \in rows : t.id = r.id => t.state \notin {"queued", "active"}
      BY <1>1, <1>5, <2>1 DEF RowsOK
    <3>3. r.id \notin IdsOf(Pending) /\ r.id \notin IdsOf({})
      BY <3>2 DEF IdsOf, Pending
    <3>4. r.id \notin IdsOf(manager'.waiting)
      BY <3>1, <3>3, ManagerStep
    <3>5. r.id \notin IdsOf(starting')
      BY <3>1, <3>2, StartingFrom
    <3> QED BY <3>4, <3>5
  <2>2. CASE FinishDownload(r.id)
    BY <1>3, <2>2 DEF IdsOf
  <2>3. ASSUME NEW s \in starting, TakeFailed(s), s.id = r.id
        PROVE  r.id \notin IdsOf(starting') \cup IdsOf(manager'.waiting)
    BY <1>4, <2>3 DEF IdsOf
  <2> QED BY <1>2, <1>5, <2>1, <2>2, <2>3
<1>6. ASSUME NEW r \in rows', NEW h \in running', r.id = h.id, r.state \in {"done", "failed"}
      PROVE  r.state = "done" /\ (Seeding = {FALSE} => ~h.known)
  <2>1. ASSUME NEW q \in rows, q.id = r.id, q.state = r.state
        PROVE  r.state = "done" /\ (Seeding = {FALSE} => ~h.known)
    <3>1. ASSUME NEW s \in starting, h.id = s.id PROVE FALSE
      BY <1>6, <2>1, <3>1 DEF SettledInv, IdsOf
    <3>2. RanBefore(h)
      BY <3>1, RunningFrom
    <3> QED BY <1>6, <2>1, <3>2 DEF RanBefore, SettledInv
  <2>2. CASE FinishDownload(r.id) /\ r.state = "done"
    BY <1>3, <1>6, <2>2 DEF SettledInv
  <2>3. ASSUME NEW s \in starting, TakeFailed(s), s.id = r.id PROVE FALSE
    BY <1>4, <1>6, <2>3 DEF IdsOf
  <2> QED BY <1>2, <1>6, <2>1, <2>2, <2>3
<1>7. ASSUME manager'.at = "finish", Seeding = {FALSE}, NEW h \in running', h.id \in manager'.cur
      PROVE  ~h.known
  <2>1. ASSUME manager' = manager, \A s \in starting : ~TakeStarted(s) PROVE ~h.known
    <3>1. RanBefore(h)
      BY <2>1, RunningFrom
    <3> QED BY <1>7, <2>1, <3>1 DEF RanBefore, SettledInv
  <2>2. ASSUME NEW e \in running, PollProgress(e), Complete(PackOf(e.episode)),
               manager'.cur = {e.id}
        PROVE  ~h.known
    <3>1. running' = Unknown(running, PackOf(e.episode))
      BY <1>7, <2>2 DEF PollProgress, ForgetFrom
    <3>2. PICK g \in running : /\ g.id = h.id
                               /\ h.known => PackOf(g.episode) # PackOf(e.episode)
      BY <1>1, <3>1, UnknownFrom
    <3>3. g = e
      BY <1>7, <2>2, <3>2 DEF OnePlaceEach
    <3> QED BY <3>2, <3>3
  <2> QED BY <1>7, <2>1, <2>2, FinishingFrom
<1> QED BY <1>5, <1>6, <1>7 DEF SettledInv

-----------------------------------------------------------------------------
(* Torrents. *)

(* The session has the torrents it had, and no other. *)
SameTorrents == \A p \in Packs : (session'[p] = "absent") = (session[p] = "absent")

LEMMA SessionStep ==
    ASSUME TypeOK, ThereInv, [Next]_vars
    PROVE  \/ SameTorrents
           \/ Restart
           \/ \E s \in starting : Add(s)
           \/ \E S \in SUBSET running, p \in Packs, d \in BOOLEAN : ForgetFrom(S, p, d)
<1>1. /\ session \in [Packs -> {"absent", "live", "paused"}]
      /\ \A e \in running : PackOf(e.episode) \in Packs
  BY PackOfType DEF TypeOK, Entry
<1>2. ASSUME UNCHANGED session PROVE SameTorrents
  BY <1>2 DEF SameTorrents
<1>3. CASE Poll
  <2>1. ASSUME NEW e \in running, PollCancelled(e) \/ PollProgress(e)
        PROVE  UNCHANGED session \/ \E d \in BOOLEAN : ForgetFrom(running, PackOf(e.episode), d)
    BY <2>1 DEF PollCancelled, PollProgress, swarm
  <2>2. ASSUME NEW e \in running, PollPaused(e) PROVE SameTorrents
    BY <1>1, <2>2 DEF PollPaused, SameTorrents, ThereInv
  <2>3. ASSUME NEW e \in running, PollResume(e) PROVE SameTorrents
    BY <1>1, <2>3 DEF PollResume, ToResume, SameTorrents
  <2>4. ASSUME \/ BeginPoll \/ EndPoll
               \/ \E e \in running : PollLetGo(e) \/ PollRefused(e)
               \/ \E i \in RowIds : FinishDownload(i)
        PROVE  UNCHANGED session
    BY <2>4 DEF BeginPoll, EndPoll, PollLetGo, PollRefused, FinishDownload, swarm
  <2> QED BY <1>1, <1>2, <1>3, <2>1, <2>2, <2>3, <2>4 DEF Poll
<1>4. CASE Refill
  <2>1. ASSUME NEW e \in running, Yield(e)
        PROVE  UNCHANGED session \/ ForgetFrom(running \ {e}, PackOf(e.episode), FALSE)
    BY <2>1 DEF Yield, swarm
  <2>2. ASSUME \/ StartQueued \/ StayFull \/ Yielded
               \/ \E s \in starting : TakeStarted(s) \/ TakeFailed(s)
        PROVE  UNCHANGED session
    BY <2>2 DEF StartQueued, StayFull, Yielded, TakeStarted, TakeFailed, swarm
  <2> QED BY <1>1, <1>2, <1>4, <2>1, <2>2 DEF Refill
<1>5. CASE Screen \/ Leak
  BY <1>2, <1>5
     DEF Screen, Enqueue, Pause, StartNow, Cancel, Delete, ClearCompleted, Leak, swarm
<1>6. CASE Watch
  BY <1>1, <1>6 DEF Watch, Halt, Recover, SameTorrents
<1>7. CASE (\E i \in RowIds : Task(i)) \/ (\E e \in Episodes : Fetch(e)) \/ Spawn
  BY <1>2, <1>7 DEF Task, Permit, NoPeers, Fetch, Spawn, swarm
<1>8. CASE UNCHANGED vars
  BY <1>2, <1>8 DEF vars, swarm
<1> QED BY <1>3, <1>4, <1>5, <1>6, <1>7, <1>8 DEF Next, Outside, Manage

LEMMA ThereStep ==
    ASSUME TypeOK, ThereInv, [Next]_vars
    PROVE  ThereInv'
<1>1. /\ session \in [Packs -> {"absent", "live", "paused"}]
      /\ \A h \in running \cup starting : PackOf(h.episode) \in Packs
      /\ running \in SUBSET Entry /\ starting \in SUBSET Start
  BY PackOfType DEF TypeOK, Entry, Start
<1>2. ASSUME NEW S \in SUBSET running, NEW p \in Packs, NEW d, ForgetFrom(S, p, d)
      PROVE  ThereInv'
  <2>1. S \in SUBSET Entry
    BY <1>1
  <2>2. \A t \in running' \cup starting' : \E h \in running \cup starting :
           h.episode = t.episode /\ (t.known => h.known /\ PackOf(h.episode) # p)
    BY <1>1, <1>2, <2>1, UnknownFrom DEF ForgetFrom
  <2>3. session' = [session EXCEPT ![p] = "absent"]
    BY <1>2 DEF ForgetFrom
  <2> QED BY <1>1, <2>2, <2>3 DEF ThereInv
<1>3. CASE Restart
  BY <1>3 DEF Restart, ThereInv
<1>4. ASSUME \A p \in Packs : session[p] # "absent" => session'[p] # "absent",
             \A s \in starting : Add(s) => session'[PackOf(s.episode)] # "absent"
      PROVE  ThereInv'
  <2>1. ASSUME NEW h \in running', h.known PROVE session'[PackOf(h.episode)] # "absent"
    <3>1. \E g \in running \cup starting : g.episode = h.episode /\ g.known
      BY <2>1, RunningFrom DEF RanBefore
    <3> QED BY <1>1, <1>4, <3>1 DEF ThereInv
  <2>2. ASSUME NEW t \in starting', t.known PROVE session'[PackOf(t.episode)] # "absent"
    <3>1. \/ \E s \in starting : s.known /\ s.episode = t.episode
          \/ \E s \in starting : Add(s) /\ s.episode = t.episode
      BY <2>2, KnownFrom DEF KnownBefore
    <3> QED BY <1>1, <1>4, <3>1 DEF ThereInv
  <2> QED BY <2>1, <2>2 DEF ThereInv
<1>5. ASSUME NEW s \in starting, Add(s)
      PROVE  /\ session'[PackOf(s.episode)] # "absent"
             /\ \A p \in Packs : session[p] # "absent" => session'[p] # "absent"
  BY <1>1, <1>5 DEF Add
<1>6. CASE SameTorrents
  BY <1>4, <1>5, <1>6 DEF SameTorrents
<1>7. CASE \E s \in starting : Add(s)
  BY <1>4, <1>5, <1>7
<1> QED BY <1>2, <1>3, <1>6, <1>7, SessionStep

(* Whoever knew the torrent of e still does. *)
Knows(e) ==
    /\ \A h \in running : h.episode = e /\ h.known /\ h.id \notin manager.gone
                             => h \in running' /\ h.id \notin manager'.gone
    /\ \A s \in starting : s.episode = e /\ s.known
                             => \E t \in starting' : t.episode = e /\ t.known

(* Forgetting another torrent leaves the entries of e as they were. *)
LEMMA ForgetOther ==
    ASSUME TypeOK, NEW e \in Episodes, Single(e),
           NEW S \in SUBSET running, NEW p \in Packs, NEW d, ForgetFrom(S, p, d),
           session'[{e}] # "absent"
    PROVE  /\ p # {e}
           /\ \A h \in S : h.episode = e => h \in running'
           /\ \A s \in starting : s.episode = e => s \in starting'
<1>1. p # {e}
  BY DEF ForgetFrom, TypeOK
<1>2. PackOf(e) = {e}
  BY PlainPack
<1>3. S \in SUBSET Entry /\ starting \in SUBSET Start
  BY DEF TypeOK
<1> QED BY <1>1, <1>2, <1>3, UnknownFrom DEF ForgetFrom

LEMMA PollKnows ==
    ASSUME TypeOK, OnePlaceEach, WalkInv, NamedInv, KnownInv, SettledInv, Seeding = {FALSE}, Poll,
           NEW e \in Episodes, Plain(e), session'[{e}] # "absent"
    PROVE  Knows(e)
<1>1. Single(e) /\ PackOf(e) = {e}
  BY PlainPack DEF Plain
<1>2. \A h \in running : h.id \in RowIds /\ PackOf(h.episode) \in Packs /\ h.episode \in Episodes
  BY PackOfType DEF TypeOK, Entry
<1>3. \A i \in RowIds : /\ Walked(i).gone = manager.gone
                        /\ Retired(i).gone = manager.gone \cup {i}
  BY DEF Walked, Retired, TypeOK, Manager
<1>4. ASSUME NEW x \in running, UNCHANGED <<running, starting>>,
             \/ manager'.gone = manager.gone
             \/ /\ manager'.gone = manager.gone \cup {x.id}
                /\ x.episode = e => ~x.known
      PROVE  Knows(e)
  BY <1>4 DEF Knows, OnePlaceEach
<1>5. CASE BeginPoll
  BY <1>5 DEF BeginPoll, At, Knows
<1>6. ASSUME NEW x \in running, PollCancelled(x) PROVE Knows(e)
  <2>1. manager'.gone = manager.gone \cup {x.id}
    BY <1>2, <1>3, <1>6 DEF PollCancelled
  <2>2. CASE x.known /\ PackOf(x.episode) \notin manager.shared
    <3>1. ForgetFrom(running, PackOf(x.episode), TRUE)
      BY <1>6, <2>2 DEF PollCancelled
    <3>2. /\ PackOf(x.episode) # {e}
          /\ \A h \in running : h.episode = e => h \in running'
          /\ \A s \in starting : s.episode = e => s \in starting'
      BY <1>1, <1>2, <3>1, ForgetOther
    <3>3. x.episode # e
      BY <1>1, <3>2
    <3> QED BY <2>1, <3>2, <3>3 DEF Knows, OnePlaceEach
  <2>3. CASE ~x.known \/ PackOf(x.episode) \in manager.shared
    <3>1. UNCHANGED <<running, starting>>
      BY <1>6, <2>3 DEF PollCancelled
    <3>2. x.episode = e => ~x.known
      BY <1>1, <2>3 DEF KnownInv
    <3> QED BY <1>4, <2>1, <3>1, <3>2
  <2> QED BY <2>2, <2>3
<1>7. ASSUME NEW x \in running, PollLetGo(x) PROVE Knows(e)
  <2>1. ~x.known
    BY <1>7 DEF PollLetGo, RowsAt, SettledInv
  <2>2. manager'.gone = manager.gone \cup {x.id} /\ UNCHANGED <<running, starting>>
    BY <1>2, <1>3, <1>7 DEF PollLetGo
  <2> QED BY <1>4, <2>1, <2>2
<1>8. ASSUME NEW x \in running, PollPaused(x) \/ PollRefused(x) PROVE Knows(e)
  BY <1>2, <1>3, <1>4, <1>8 DEF PollPaused, PollRefused
<1>9. ASSUME NEW x \in running, PollResume(x) PROVE Knows(e)
  <2>1. manager'.gone = manager.gone /\ UNCHANGED <<running, starting>>
    BY <1>9 DEF PollResume, TypeOK, Manager
  <2> QED BY <1>4, <2>1
<1>10. ASSUME NEW x \in running, PollProgress(x) PROVE Knows(e)
  <2>1. manager'.gone = manager.gone
    BY <1>2, <1>3, <1>10 DEF PollProgress, TypeOK, Manager
  <2>2. CASE UNCHANGED <<running, starting>>
    BY <1>4, <2>1, <2>2
  <2>3. CASE ForgetFrom(running, PackOf(x.episode), FALSE)
    BY <1>1, <1>2, <2>1, <2>3, ForgetOther DEF Knows
  <2> QED BY <1>10, <2>2, <2>3 DEF PollProgress
<1>11. ASSUME NEW i \in RowIds, FinishDownload(i) PROVE Knows(e)
  <2>1. manager.at = "finish" /\ i \in manager.cur
    BY <1>11 DEF FinishDownload
  <2>2. PICK x \in running : x.id = i
    BY <2>1 DEF WalkInv, IdsOf
  <2>3. ~x.known
    BY <2>1, <2>2 DEF SettledInv
  <2>4. manager'.gone = manager.gone \cup {x.id} /\ UNCHANGED <<running, starting>>
    BY <1>3, <1>11, <2>2 DEF FinishDownload
  <2> QED BY <1>4, <2>3, <2>4
<1>12. CASE EndPoll
  BY <1>12 DEF EndPoll, At, Knows
<1> QED BY <1>5, <1>6, <1>7, <1>8, <1>9, <1>10, <1>11, <1>12 DEF Poll

LEMMA RefillWanted ==
    ASSUME TypeOK, OnePlaceEach, WalkInv, NamedInv, KnownInv, Refill,
           NEW e \in Episodes, Plain(e), session'[{e}] # "absent", Wanted(e)
    PROVE  Wanted(e)'
<1>1. Single(e) /\ PackOf(e) = {e}
  BY PlainPack DEF Plain
<1>2. /\ running \in SUBSET Entry /\ starting \in SUBSET Start
      /\ manager.waiting \in SUBSET Row /\ Pending \in SUBSET Row
  BY DEF TypeOK, Manager, Pending
<1>3. ASSUME Knows(e) PROVE Wanted(e)'
  BY <1>3 DEF Knows, Wanted
<1>4. ASSUME NEW s \in starting, TakeStarted(s) PROVE Wanted(e)'
  <2>1. /\ [id |-> s.id, episode |-> s.episode, known |-> s.known] \in running'
        /\ starting' = starting \ {s} /\ running \subseteq running'
        /\ manager' = manager /\ manager.gone = {}
    BY <1>4 DEF TakeStarted, WalkInv
  <2>2. s.episode = e /\ s.known => Wanted(e)'
    BY <2>1 DEF Wanted
  <2>3. ~(s.episode = e /\ s.known) => Wanted(e)'
    BY <2>1 DEF Wanted
  <2> QED BY <2>2, <2>3
<1>5. ASSUME NEW s \in starting, TakeFailed(s) PROVE Wanted(e)'
  BY <1>3, <1>5 DEF TakeFailed, Knows, KnownInv
<1>6. ASSUME StartQueued \/ StayFull \/ Yielded PROVE Wanted(e)'
  <2>1. running' = running /\ manager'.gone = {}
    BY <1>6 DEF StartQueued, StayFull, Yielded, At
  <2>2. starting \subseteq starting'
    BY <1>2, <1>6, StartFromFrom DEF StartQueued, StayFull, Yielded
  <2> QED BY <1>3, <2>1, <2>2 DEF Knows
<1>7. ASSUME NEW x \in running, Yield(x) PROVE Wanted(e)'
  <2> DEFINE left == running \ {x}
  <2>1. manager'.gone = {} /\ left \in SUBSET running
    BY <1>7 DEF Yield, At
  <2>2. CASE ForgetFrom(left, PackOf(x.episode), FALSE)
    <3>1. PackOf(x.episode) \in Packs
      BY <1>2, PackOfType DEF Entry
    <3>2. /\ PackOf(x.episode) # {e}
          /\ \A h \in left : h.episode = e => h \in running'
          /\ \A s \in starting : s.episode = e => s \in starting'
      BY <1>1, <2>1, <2>2, <3>1, ForgetOther
    <3>3. x.episode # e
      BY <1>1, <3>2
    <3> QED BY <1>3, <2>1, <3>2, <3>3 DEF Knows
  <2>3. CASE /\ running' = left /\ UNCHANGED starting
             /\ ~(x.known /\ \A r \in OfPack(left, PackOf(x.episode)) : ~r.known)
    <3>1. ASSUME x.episode = e, x.known PROVE FALSE
      <4>1. PICK r \in left : PackOf(r.episode) = {e} /\ r.known
        BY <1>1, <2>3, <3>1 DEF OfPack
      <4>2. r.episode = e
        BY <1>2, <4>1, PackPlain DEF Entry
      <4>3. r.id = x.id
        BY <3>1, <4>2 DEF NamedInv, Named
      <4> QED BY <4>1, <4>3 DEF OnePlaceEach
    <3> QED BY <1>3, <2>1, <2>3, <3>1 DEF Knows
  <2> QED BY <1>7, <2>2, <2>3 DEF Yield
<1> QED BY <1>4, <1>5, <1>6, <1>7 DEF Refill

(* An episode is as plain as it was, unless a row of it is new. *)
LEMMA PlainFrom ==
    ASSUME TypeOK, [Next]_vars, NEW e \in Episodes, Plain(e)', ~New(e)
    PROVE  Plain(e)
BY RowsStep, SettledFrom DEF Plain, New

LEMMA WantedStep ==
    ASSUME TypeOK, OnePlaceEach, WalkInv, NamedInv, KnownInv, ThereInv, SettledInv, WantedInv,
           [Next]_vars
    PROVE  WantedInv'
<1> SUFFICES ASSUME Seeding = {FALSE}, NEW e \in Episodes, Plain(e)', session'[{e}] # "absent"
             PROVE  Wanted(e)'
  BY DEF WantedInv
<1>1. Single(e) /\ PackOf(e) = {e} /\ {e} \in Packs
  BY PlainPack DEF Plain, Single
<1>2. starting \in SUBSET Start
  BY DEF TypeOK
<1>3. ~New(e)
  BY <1>1 DEF New, Plain, Left, swarm
<1>4. Plain(e)
  BY <1>3, PlainFrom
<1>5. ASSUME NEW s \in starting, Add(s) PROVE Wanted(e)'
  <2>1. Staged(s, IF s.episode \in Missing THEN "failed" ELSE "ok")
    BY <1>5 DEF Add
  <2>2. UNCHANGED <<running, manager>>
    BY <1>5 DEF Add
  <2>3. CASE s.episode = e
    <3>1. Staged(s, "ok")
      BY <1>1, <2>1, <2>3 DEF Single
    <3>2. \E t \in starting' : t.episode = e /\ t.known
      BY <1>2, <2>3, <3>1, StagedFrom
    <3> QED BY <3>2 DEF Wanted
  <2>4. CASE s.episode # e
    <3>1. \A t \in starting : t # s => t \in starting'
      BY <1>2, <2>1, StagedFrom
    <3>2. session[{e}] # "absent"
      <4>1. PackOf(s.episode) # {e}
        BY <1>2, <2>4, PackPlain DEF Start
      <4>2. session' = [session EXCEPT ![PackOf(s.episode)] = "live"] \/ session' = session
        BY <1>5 DEF Add
      <4> QED BY <1>1, <4>1, <4>2 DEF TypeOK
    <3>3. Wanted(e)
      BY <1>4, <3>2 DEF WantedInv
    <3> QED BY <2>2, <2>4, <3>1, <3>3 DEF Wanted
  <2> QED BY <2>3, <2>4
<1>6. CASE ~ \E s \in starting : Add(s)
  <2>1. session[{e}] # "absent"
    <3>1. ASSUME Restart PROVE FALSE
      BY <1>1, <3>1 DEF Restart
    <3>2. ASSUME NEW S, NEW p \in Packs, NEW d, ForgetFrom(S, p, d)
          PROVE  session[{e}] # "absent"
      BY <1>1, <3>2 DEF ForgetFrom, TypeOK
    <3> QED BY <1>1, <1>6, <3>1, <3>2, SessionStep DEF SameTorrents
  <2>2. Wanted(e)
    BY <1>4, <2>1 DEF WantedInv
  <2>3. ASSUME Knows(e) PROVE Wanted(e)'
    BY <2>2, <2>3 DEF Knows, Wanted
  <2>4. ASSUME UNCHANGED <<running, starting, manager>> PROVE Wanted(e)'
    BY <2>2, <2>4 DEF Wanted
  <2>5. CASE Poll
    BY <1>4, <2>3, <2>5, PollKnows
  <2>6. CASE Refill
    BY <1>4, <2>2, <2>6, RefillWanted
  <2>7. ASSUME NEW s \in starting, Permit(s) \/ NoPeers(s) PROVE Wanted(e)'
    <3>1. PICK stage : Staged(s, stage)
      BY <2>7 DEF Permit, NoPeers
    <3>2. \A t \in starting : t # s => t \in starting'
      BY <1>2, <3>1, StagedFrom
    <3>3. ~s.known /\ UNCHANGED <<running, manager>>
      BY <2>7 DEF Permit, NoPeers, KnownInv
    <3> QED BY <2>2, <3>2, <3>3 DEF Wanted
  <2>8. CASE Restart
    BY <1>1, <2>8 DEF Restart
  <2>9. CASE Spawn
    BY <2>3, <2>9 DEF Spawn, At, Knows
  <2>10. CASE Screen \/ Leak \/ (\E f \in Episodes : Fetch(f)) \/ Watch
    BY <2>4, <2>10 DEF Screen, Enqueue, Pause, StartNow, Cancel, Delete, ClearCompleted, Leak,
                       Fetch, Watch, Halt, Recover, work
  <2>11. CASE UNCHANGED vars
    BY <2>4, <2>11 DEF vars, work
  <2> QED BY <1>6, <2>5, <2>6, <2>7, <2>8, <2>9, <2>10, <2>11 DEF Next, Outside, Task, Manage
<1> QED BY <1>5, <1>6

-----------------------------------------------------------------------------
(* Files. *)

(* No row is made or done by a step that leaves the files and the torrents alone. *)
Unhurt ==
    /\ UNCHANGED <<file, got, crossed>> /\ SameTorrents
    /\ \A t \in rows' : \E r \in rows : /\ r.id = t.id /\ r.episode = t.episode
                                        /\ t.state = "done" => r.state = "done"
    /\ manager'.at = "finish" => manager' = manager

LEMMA UnhurtKeeps ==
    ASSUME TypeOK, FilesInv, Unhurt
    PROVE  FilesInv'
<1>1. \A e \in Episodes : PackOf(e) \in Packs
  BY PackOfType
<1>2. \A e : Plain(e)' = Plain(e)
  BY DEF Plain, Unhurt
<1>3. ASSUME NEW e \in Episodes, session'[PackOf(e)] = "absent" PROVE got'[e] = "none"
  BY <1>1, <1>3 DEF Unhurt, SameTorrents, FilesInv
<1>4. ASSUME NEW t \in rows', Plain(t.episode)
      PROVE  /\ got'[t.episode] # "none" => file'[t.episode] = got'[t.episode]
             /\ t.state = "done" => file'[t.episode] = "whole"
             /\ manager'.at = "finish" /\ t.id \in manager'.cur => file'[t.episode] = "whole"
  <2>1. PICK r \in rows : /\ r.id = t.id /\ r.episode = t.episode
                          /\ t.state = "done" => r.state = "done"
    BY DEF Unhurt
  <2>2. got' = got /\ file' = file /\ (manager'.at = "finish" => manager' = manager)
    BY DEF Unhurt
  <2> QED BY <1>4, <2>1, <2>2 DEF FilesInv
<1> QED BY <1>2, <1>3, <1>4 DEF FilesInv

(* What a torrent forgotten leaves, with its files or without. *)
LEMMA ForgetFiles ==
    ASSUME TypeOK, FilesInv, NEW S, NEW p \in Packs, NEW d \in BOOLEAN, ForgetFrom(S, p, d),
           crossed' = crossed, Calmer(rows, rows'), RowsOK(rows'),
           d => \A r \in rows' : PackOf(r.episode) = p => ~Plain(r.episode),
           manager'.at = "finish" =>
               \A r \in rows' : r.id \in manager'.cur /\ Plain(r.episode)
                                   => file[r.episode] = "whole"
    PROVE  FilesInv'
<1>1. \A e \in Episodes : PackOf(e) \in Packs /\ e \in PackOf(e)
  BY PackOfType
<1>2. \A e : Plain(e)' = Plain(e)
  BY DEF Plain
<1>3. /\ session' = [session EXCEPT ![p] = "absent"]
      /\ \A e \in Episodes : got'[e] = IF e \in p THEN "none" ELSE got[e]
      /\ \A e \in Episodes : file'[e] = IF d /\ e \in p THEN "none" ELSE file[e]
  BY DEF ForgetFrom, FilesOf
<1>4. \A r \in rows' : r.episode \in Episodes
  BY DEF RowsOK, Row
<1>5. \A e \in Episodes : e \in p => PackOf(e) = p
  BY <1>1, ConstantsAssumption
<1>6. \A r \in rows' : Plain(r.episode) => file'[r.episode] = file[r.episode]
  BY <1>3, <1>4, <1>5
<1>7. ASSUME NEW e \in Episodes, session'[PackOf(e)] = "absent" PROVE got'[e] = "none"
  BY <1>1, <1>3, <1>7 DEF FilesInv, TypeOK
<1>8. ASSUME NEW r \in rows', Plain(r.episode)
      PROVE  /\ got'[r.episode] # "none" => file'[r.episode] = got'[r.episode]
             /\ r.state = "done" => file'[r.episode] = "whole"
             /\ manager'.at = "finish" /\ r.id \in manager'.cur => file'[r.episode] = "whole"
  <2>1. PICK q \in rows : /\ q.episode = r.episode
                          /\ r.state \in {"done", "failed"} => q.state = r.state
    BY DEF Calmer
  <2> QED BY <1>3, <1>4, <1>6, <1>8, <2>1 DEF FilesInv
<1> QED BY <1>2, <1>7, <1>8 DEF FilesInv

(* A row is removed, and maybe its file: no other row has it. *)
LEMMA RemoveFiles ==
    ASSUME TypeOK, FilesInv, NEW r \in rows, Cancel(r) \/ Delete(r)
    PROVE  FilesInv'
<1>1. /\ rows' = rows \ {r} /\ UNCHANGED <<session, got, manager, crossed>>
      /\ file' = [file EXCEPT ![r.episode] = "none"] \/ file' = file
  BY DEF Cancel, Delete, swarm, work, past
<1>2. \A q \in rows' : q \in rows /\ q.episode # r.episode
  BY <1>1 DEF TypeOK
<1>3. \A q \in rows' : file'[q.episode] = file[q.episode]
  BY <1>1, <1>2 DEF TypeOK, Row
<1>4. \A e : Plain(e)' = Plain(e)
  BY <1>1 DEF Plain
<1> QED BY <1>1, <1>2, <1>3, <1>4 DEF FilesInv

LEMMA NewFiles ==
    ASSUME TypeOK, FilesInv, NEW e \in Episodes, New(e)
    PROVE  FilesInv'
<1>1. PICK i \in RowIds : IsNewId(i) /\ rows' = rows \cup {NewRow(i, e)}
  BY DEF New
<1>2. NewRow(i, e).id = i /\ NewRow(i, e).episode = e /\ NewRow(i, e).state = "queued"
  BY DEF NewRow
<1>3. UNCHANGED <<file, session, got, manager>>
  BY DEF New, swarm, work
<1>4. Plain(e)' => got[e] = "none"
  BY DEF Plain, New, Left, FilesInv
<1>5. i \notin manager.cur
  <2>1. i \in manager.cur => i < i
    BY <1>1 DEF IsNewId, LiveIds
  <2>2. i \in Int
    BY DEF RowIds
  <2> QED BY <2>1, <2>2
<1>6. \A r \in rows : Plain(r.episode)' => Plain(r.episode)
  BY DEF New, Plain
<1> QED BY <1>1, <1>2, <1>3, <1>4, <1>5, <1>6 DEF FilesInv

LEMMA AddFiles ==
    ASSUME TypeOK, FilesInv, NEW s \in starting, Add(s)
    PROVE  FilesInv'
<1> DEFINE p == PackOf(s.episode)
           made == [e \in Episodes |-> IF e \in p /\ file[e] = "none" THEN "part" ELSE file[e]]
<1>1. UNCHANGED <<rows, manager, crossed>>
  BY DEF Add, past
<1>2. \A e : Plain(e)' = Plain(e)
  BY <1>1 DEF Plain
<1>3. p \in Packs
  BY PackOfType DEF TypeOK, Start
<1>4. \A e \in Episodes : PackOf(e) \in Packs /\ (e \in p <=> PackOf(e) = p)
  BY <1>3, PackOfType, ConstantsAssumption
<1>5. CASE session[p] # "absent"
  <2>1. UNCHANGED <<session, file, got>>
    BY <1>5 DEF Add
  <2> QED BY <1>1, <1>2, <2>1 DEF FilesInv
<1>6. CASE session[p] = "absent"
  <2>1. /\ session' = [session EXCEPT ![p] = "live"]
        /\ file' = made
        /\ got' = [e \in Episodes |-> IF e \in p THEN made[e] ELSE got[e]]
    BY <1>6 DEF Add
  <2>2. \A e \in Episodes : /\ file'[e] = IF e \in p /\ file[e] = "none" THEN "part" ELSE file[e]
                            /\ got'[e] = IF e \in p THEN file'[e] ELSE got[e]
    BY <2>1
  <2>3. \A r \in rows : r.episode \in Episodes
    BY DEF TypeOK, Row
  <2> HIDE DEF made, p
  <2>4. ASSUME NEW e \in Episodes, session'[PackOf(e)] = "absent" PROVE got'[e] = "none"
    <3>1. session[PackOf(e)] = "absent" /\ PackOf(e) # p
      BY <1>3, <1>4, <2>1, <2>4 DEF TypeOK
    <3> QED BY <1>4, <2>2, <3>1 DEF FilesInv
  <2> QED BY <1>1, <1>2, <1>4, <2>2, <2>3, <2>4 DEF FilesInv
<1> QED BY <1>5, <1>6

LEMMA FetchFiles ==
    ASSUME TypeOK, FilesInv, NEW e \in Episodes, Fetch(e)
    PROVE  FilesInv'
<1>1. /\ UNCHANGED <<rows, session, manager, crossed>>
      /\ got[e] = "part" /\ session[PackOf(e)] = "live"
      /\ \A f \in Episodes : got'[f] = IF f = e THEN "whole" ELSE got[f]
      /\ \A f \in Episodes : file'[f] = IF f = e /\ file[e] = "part" THEN "whole" ELSE file[f]
  BY DEF Fetch, TypeOK, work, past
<1>2. \A f : Plain(f)' = Plain(f)
  BY <1>1 DEF Plain
<1>3. \A r \in rows : r.episode \in Episodes
  BY DEF TypeOK, Row
<1> QED BY <1>1, <1>2, <1>3 DEF FilesInv

(* A walk takes the files of a cancelled download, which no plain row has, and finishes one
   whose torrent is all here. *)
LEMMA CancelledFiles ==
    ASSUME TypeOK, TypeOK', NamedInv, FilesInv, [Next]_vars, NEW x \in running, PollCancelled(x)
    PROVE  FilesInv'
<1>1. rows' = rows /\ crossed' = crossed /\ manager'.at # "finish"
  BY DEF PollCancelled, past, Retired, Walked, TypeOK, Manager
<1>2. CASE ForgetFrom(running, PackOf(x.episode), TRUE)
  <2>1. x.episode \in Episodes /\ PackOf(x.episode) \in Packs
    BY PackOfType DEF TypeOK, Entry
  <2>2. ASSUME NEW r \in rows, PackOf(r.episode) = PackOf(x.episode), Plain(r.episode) PROVE FALSE
    <3>1. r.episode \in Episodes
      BY DEF TypeOK, Row
    <3>2. PackOf(x.episode) = {r.episode}
      BY <2>2, <3>1, PlainPack DEF Plain
    <3>3. x.episode = r.episode
      BY <2>1, <3>2, PackPlain
    <3>4. x.id = r.id
      BY <2>2, <3>3 DEF NamedInv, Named
    <3> QED BY <3>4 DEF PollCancelled, IdsOf
  <2>3. Calmer(rows, rows') /\ RowsOK(rows')
    BY <1>1 DEF Calmer, RowsOK, TypeOK
  <2> QED BY <1>1, <1>2, <2>1, <2>2, <2>3, ForgetFiles
<1>3. CASE UNCHANGED <<file, swarm>>
  <2>1. Unhurt
    BY <1>1, <1>3 DEF Unhurt, SameTorrents, swarm
  <2> QED BY <2>1, UnhurtKeeps
<1> QED BY <1>2, <1>3 DEF PollCancelled

LEMMA ProgressFiles ==
    ASSUME TypeOK, TypeOK', NamedInv, FilesInv, [Next]_vars, NEW x \in running, PollProgress(x)
    PROVE  FilesInv'
<1>1. RowsOK(rows) /\ RowsOK(rows')
  BY DEF TypeOK, RowsOK
<1>2. Calmer(rows, rows') /\ crossed' = crossed
  BY <1>1, WithProgressCalm DEF PollProgress, past
<1>3. x.episode \in Episodes /\ PackOf(x.episode) \in Packs /\ x.episode \in PackOf(x.episode)
  BY PackOfType DEF TypeOK, Entry
<1>4. manager'.at = "finish" => Complete(PackOf(x.episode)) /\ manager'.cur = {x.id}
  BY DEF PollProgress, Walked, TypeOK, Manager
<1>5. ASSUME manager'.at = "finish", NEW r \in rows', r.id \in manager'.cur, Plain(r.episode)
      PROVE  file[r.episode] = "whole"
  <2>1. PICK q \in rows : q.id = r.id /\ q.episode = r.episode
    BY <1>2 DEF Calmer
  <2>2. q.episode = x.episode
    BY <1>4, <1>5, <2>1 DEF NamedInv, Named
  <2>3. got[q.episode] = "whole"
    BY <1>3, <1>4, <1>5, <2>2 DEF Complete
  <2> QED BY <1>5, <2>1, <2>3 DEF FilesInv
<1>6. CASE ForgetFrom(running, PackOf(x.episode), FALSE)
  BY <1>1, <1>2, <1>3, <1>5, <1>6, ForgetFiles
<1>7. CASE UNCHANGED <<file, swarm>>
  <2>1. \A e : Plain(e)' = Plain(e)
    BY <1>2 DEF Plain
  <2>2. UNCHANGED <<file, session, got>>
    BY <1>7 DEF swarm
  <2>3. ASSUME NEW r \in rows', Plain(r.episode)
        PROVE  /\ got[r.episode] # "none" => file[r.episode] = got[r.episode]
               /\ r.state = "done" => file[r.episode] = "whole"
    <3>1. PICK q \in rows : /\ q.id = r.id /\ q.episode = r.episode
                            /\ r.state = "done" => q.state = "done"
      BY <1>2 DEF Calmer
    <3> QED BY <2>3, <3>1 DEF FilesInv
  <2> QED BY <1>5, <2>1, <2>2, <2>3 DEF FilesInv
<1> QED BY <1>6, <1>7 DEF PollProgress

LEMMA FinishFiles ==
    ASSUME TypeOK, FilesInv, NEW i \in RowIds, FinishDownload(i)
    PROVE  FilesInv'
<1>1. /\ rows' = WithState(rows, i, "done") /\ UNCHANGED <<file, session, got, crossed>>
      /\ manager.at = "finish" /\ i \in manager.cur
  BY DEF FinishDownload, swarm, past
<1>2. manager'.at # "finish"
  BY DEF FinishDownload, Retired, Walked, TypeOK, Manager
<1>3. \A e : Plain(e)' = Plain(e)
  BY <1>1 DEF Plain
<1>4. ASSUME NEW r \in rows', Plain(r.episode)
      PROVE  /\ got[r.episode] # "none" => file[r.episode] = got[r.episode]
             /\ r.state = "done" => file[r.episode] = "whole"
  <2>1. RowsOK(rows)
    BY DEF TypeOK, RowsOK
  <2>2. PICK q \in rows : /\ q.id = r.id /\ q.episode = r.episode
                          /\ r.state = IF q.id = i THEN "done" ELSE q.state
    BY <1>1, <2>1, WithStateRows DEF RowState
  <2> QED BY <1>1, <1>4, <2>2 DEF FilesInv
<1> QED BY <1>1, <1>2, <1>3, <1>4 DEF FilesInv

LEMMA YieldFiles ==
    ASSUME TypeOK, FilesInv, NEW x \in running, Yield(x)
    PROVE  FilesInv'
<1>1. rows' = rows /\ crossed' = crossed /\ manager'.at # "finish"
  BY DEF Yield, past, At
<1>2. CASE ForgetFrom(running \ {x}, PackOf(x.episode), FALSE)
  <2>1. PackOf(x.episode) \in Packs /\ Calmer(rows, rows') /\ RowsOK(rows')
    BY <1>1, PackOfType DEF Calmer, RowsOK, TypeOK, Entry
  <2> QED BY <1>1, <1>2, <2>1, ForgetFiles
<1>3. CASE UNCHANGED <<file, swarm>>
  <2>1. Unhurt
    BY <1>1, <1>3 DEF Unhurt, SameTorrents, swarm
  <2> QED BY <2>1, UnhurtKeeps
<1> QED BY <1>2, <1>3 DEF Yield

LEMMA RestartFiles == ASSUME TypeOK, FilesInv, Restart PROVE FilesInv'
<1>1. \A e : Plain(e)' = Plain(e)
  BY DEF Plain, Restart
<1>2. /\ UNCHANGED <<rows, file>> /\ \A e \in Episodes : got'[e] = "none"
      /\ manager'.at # "finish"
  BY DEF Restart, disk, At
<1>3. \A r \in rows : r.episode \in Episodes
  BY DEF TypeOK, Row
<1> QED BY <1>1, <1>2, <1>3 DEF FilesInv

(* The steps that touch a file, or what the session has. *)
LEMMA DiskStep ==
    ASSUME TypeOK, ThereInv, [Next]_vars
    PROVE  \/ UNCHANGED <<file, got>> /\ SameTorrents
           \/ Restart
           \/ \E r \in rows : Cancel(r) \/ Delete(r)
           \/ \E s \in starting : Add(s)
           \/ \E e \in Episodes : Fetch(e)
           \/ \E x \in running : PollCancelled(x) \/ PollProgress(x) \/ Yield(x)
<1>1. /\ session \in [Packs -> {"absent", "live", "paused"}]
      /\ \A e \in running : PackOf(e.episode) \in Packs
  BY PackOfType DEF TypeOK, Entry
<1>2. ASSUME UNCHANGED <<file, swarm>> PROVE UNCHANGED <<file, got>> /\ SameTorrents
  BY <1>2 DEF swarm, SameTorrents
<1>3. ASSUME NEW x \in running, PollPaused(x) PROVE UNCHANGED <<file, got>> /\ SameTorrents
  BY <1>1, <1>3 DEF PollPaused, SameTorrents, ThereInv, disk
<1>4. ASSUME NEW x \in running, PollResume(x) PROVE UNCHANGED <<file, got>> /\ SameTorrents
  BY <1>1, <1>4 DEF PollResume, ToResume, SameTorrents, disk
<1>5. CASE Watch
  BY <1>1, <1>5 DEF Watch, Halt, Recover, SameTorrents, disk
<1>6. ASSUME NEW x \in running, PollLetGo(x) \/ PollRefused(x) PROVE UNCHANGED <<file, swarm>>
  BY <1>6 DEF PollLetGo, PollRefused
<1>7. ASSUME BeginPoll \/ EndPoll \/ \E i \in RowIds : FinishDownload(i)
      PROVE  UNCHANGED <<file, swarm>>
  BY <1>7 DEF BeginPoll, EndPoll, FinishDownload, disk
<1>8. ASSUME \/ StartQueued \/ StayFull \/ Yielded
             \/ \E s \in starting : TakeStarted(s) \/ TakeFailed(s)
      PROVE  UNCHANGED <<file, swarm>>
  BY <1>8 DEF StartQueued, StayFull, Yielded, TakeStarted, TakeFailed, disk
<1>9. ASSUME \/ \E e \in Episodes : Enqueue(e)
             \/ \E r \in rows : Pause(r) \/ StartNow(r)
             \/ ClearCompleted \/ Leak
      PROVE  UNCHANGED <<file, swarm>>
  BY <1>9 DEF Enqueue, Pause, StartNow, ClearCompleted, Leak, disk
<1>10. ASSUME (\E s \in starting : Permit(s) \/ NoPeers(s)) \/ Spawn
       PROVE  UNCHANGED <<file, swarm>>
  BY <1>10 DEF Permit, NoPeers, Spawn, disk
<1>11. CASE UNCHANGED vars
  BY <1>2, <1>11 DEF vars, disk
<1>12. CASE Poll
  BY <1>2, <1>3, <1>4, <1>6, <1>7, <1>12 DEF Poll
<1>13. CASE Refill
  BY <1>2, <1>8, <1>13 DEF Refill
<1>14. CASE Outside
  BY <1>2, <1>9, <1>14 DEF Outside, Screen
<1>15. CASE \E i \in RowIds : Task(i)
  BY <1>2, <1>10, <1>15 DEF Task
<1> QED BY <1>2, <1>5, <1>10, <1>11, <1>12, <1>13, <1>14, <1>15 DEF Next, Manage

LEMMA FilesStep ==
    ASSUME TypeOK, TypeOK', NamedInv, ThereInv, FilesInv, [Next]_vars
    PROVE  FilesInv'
<1>1. RowsOK(rows)
  BY DEF TypeOK, RowsOK
<1>2. CASE \E e \in Episodes : New(e)
  BY <1>2, NewFiles
<1>3. CASE \E i \in RowIds : FinishDownload(i)
  BY <1>3, FinishFiles
<1>4. CASE \E x \in running : PollCancelled(x) \/ PollProgress(x) \/ Yield(x)
  BY <1>4, CancelledFiles, ProgressFiles, YieldFiles
<1>5. CASE \/ Restart
           \/ \E r \in rows : Cancel(r) \/ Delete(r)
           \/ \E s \in starting : Add(s)
           \/ \E e \in Episodes : Fetch(e)
  BY <1>5, RestartFiles, RemoveFiles, AddFiles, FetchFiles
<1>6. CASE /\ UNCHANGED <<file, got>> /\ SameTorrents
           /\ \A x \in running : ~PollProgress(x)
           /\ \/ Calmer(rows, rows') /\ crossed' = crossed
              \/ \E s \in starting : TakeFailed(s)
  <2>1. ASSUME NEW s \in starting, TakeFailed(s), NEW t \in rows'
        PROVE  \E r \in rows : /\ r.id = t.id /\ r.episode = t.episode
                               /\ t.state = "done" => r.state = "done"
    BY <1>1, <2>1, WithStateRows DEF TakeFailed, RowState
  <2>2. crossed' = crossed
    BY <1>6, SettledFrom
  <2>3. manager'.at = "finish" => manager' = manager
    BY <1>6, FinishingFrom
  <2>4. Unhurt
    BY <1>6, <2>1, <2>2, <2>3 DEF Unhurt, Calmer
  <2> QED BY <2>4, UnhurtKeeps
<1> QED BY <1>2, <1>3, <1>4, <1>5, <1>6, RowsStep, DiskStep

-----------------------------------------------------------------------------
(* The theorems. *)

LEMMA InitDisk == Init => DiskInv
BY DEF Init, DiskInv, NamedInv, Named, KnownInv, ThereInv, SettledInv, WantedInv, FilesInv, At,
       IdsOf, Single, Plain

LEMMA NextDisk ==
    ASSUME IInv, IInv', DiskInv, [Next]_vars
    PROVE  DiskInv'
<1>1. TypeOK /\ TypeOK' /\ OnePlaceEach /\ WalkInv
  BY DEF IInv, ManagedInv
<1>2. NamedInv' /\ KnownInv' /\ ThereInv' /\ SettledInv'
  BY <1>1, NamedStep, KnownStep, ThereStep, SettledStep DEF DiskInv
<1>3. WantedInv' /\ FilesInv'
  BY <1>1, WantedStep, FilesStep DEF DiskInv
<1> QED BY <1>2, <1>3 DEF DiskInv

THEOREM DiskInductive == Spec => []DiskInv
<1>1. IInv /\ IInv' /\ DiskInv /\ [Next]_vars => DiskInv'
  BY NextDisk
<1> QED BY <1>1, InitDisk, Inductive, PTL DEF Spec

(* A row that says done has its file, whatever runs beside it, if its release holds that file
   only and it was asked for when nothing was left of an earlier row. *)
THEOREM DoneRowsAreOnDisk == Spec => []DoneIsOnDisk
<1>1. DiskInv => DoneIsOnDisk
  BY DEF DiskInv, FilesInv, DoneIsOnDisk, Plain
<1> QED BY <1>1, DiskInductive, PTL

(* Between two rounds of the manager, what the session fetches is wanted. *)
THEOREM NothingIsFetchedForNobody == Spec => []TorrentsAreWanted
<1>1. DiskInv => TorrentsAreWanted
  BY DEF DiskInv, WantedInv, Wanted, TorrentsAreWanted, Plain
<1> QED BY <1>1, DiskInductive, PTL

=============================================================================
