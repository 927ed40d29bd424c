--------------------------- MODULE StoreClientProofs ---------------------------
(***************************************************************************)
(* Theorems of StoreClient, for any commands that cross, any number of     *)
(* lists and of things that go wrong.                                      *)
(***************************************************************************)
EXTENDS StoreClient, TLAPS

-----------------------------------------------------------------------------
(* Data. *)

LEMMA EntryFacts ==
    /\ NoEntry \notin Entry /\ Broken \notin Entry
    /\ \A e \in Entry : e.version \in Versions
<1>1. DOMAIN NoEntry = {"id"} /\ DOMAIN Broken = {"id"}
  BY DEF NoEntry, Listed!NoEntry, Broken
<1>2. \A e \in Entry : DOMAIN e = {"id", "version", "file"} /\ e.version \in Versions
  BY DEF Entry, Listed!Entry
<1> QED BY <1>1, <1>2

LEMMA OfferType ==
    ASSUME signed \in Seq(Listed!List), NEW n \in Number \cup {NoList}, n <= Latest
    PROVE  Offer(n) \in Entry \cup {NoEntry}
<1>1. CASE n = NoList
  BY <1>1 DEF Offer
<1>2. CASE n # NoList
  <2>1. n + 1 \in 1..Len(signed) /\ signed[n + 1] \in Listed!List
    BY <1>2, ConstantsAssumption DEF Number, Latest, NoList
  <2>2. signed[n + 1][P] \in Entry \cup {NoEntry}
    BY <2>1, ConstantsAssumption DEF Listed!List, Entry, NoEntry
  <2> QED BY <1>2, <2>2 DEF Offer
<1> QED BY <1>1, <1>2

LEMMA HigherFacts ==
    ASSUME NEW m \in Number, NEW n \in Number
    PROVE  Higher(m, n) \in Number /\ Higher(m, n) >= m /\ Higher(m, n) >= n
BY ConstantsAssumption DEF Higher, Number

-----------------------------------------------------------------------------
(* Type correctness. *)

(* A task holds a number the store has come to, and downloads an entry. *)
Sound(x) == /\ x \in Task /\ x.got <= Latest
            /\ x.at \in {"accept", "decide"} => x.got \in Number
            /\ x.at \in {"download", "open", "write"} => x.entry \in Entry
TasksSound == task \in [Tasks -> Task] /\ \A t \in Tasks : Sound(task[t])

IInv == TypeOK /\ joined.index <= Latest /\ TasksSound

(* Where a task may go without having found anything. *)
Plain == Stage \ {"accept", "decide", "download", "open", "write"}

LEMMA PlainStages ==
    {"idle", "fetch", "refused", "rename", "record", "forget", "redeem", "floor", "first", "undo",
     "token", "upsert", "drop", "revoke", "clear", "remove", "done"} \subseteq Plain
BY DEF Plain, Stage

LEMMA SoundGoes ==
    ASSUME NEW x, Sound(x), NEW s \in Plain
    PROVE  Sound([x EXCEPT !.at = s])
BY DEF Sound, Task, Plain

LEMMA SoundPlain ==
    ASSUME NEW x \in Task, x.at \in Plain, x.got <= Latest
    PROVE  Sound(x)
BY DEF Sound, Plain

LEMMA SoundFinds ==
    ASSUME NEW x, Sound(x), NEW e \in Entry
    PROVE  Sound([x EXCEPT !.at = "download", !.entry = e])
BY DEF Sound, Task, Stage

LEMMA SoundOpens ==
    ASSUME NEW x, Sound(x), x.entry \in Entry
    PROVE  Sound([x EXCEPT !.at = "open"])
BY DEF Sound, Task, Stage

(* One task goes on, to what is sound. *)
Moves(t) == \E x : Sound(x) /\ task' = [task EXCEPT ![t] = x]

LEMMA MovesKeep ==
    ASSUME TasksSound, Latest' = Latest, NEW t \in Tasks, Moves(t)
    PROVE  TasksSound'
<1>1. \A y : Sound(y) => Sound(y)'
  BY DEF Sound
<1> QED BY <1>1 DEF TasksSound, Sound, Moves

LEMMA GoesMoves ==
    ASSUME TasksSound, NEW t \in Tasks, NEW s \in Plain, Goes(t, s)
    PROVE  Moves(t)
<1> DEFINE x == [task[t] EXCEPT !.at = s]
<1>1. Sound(x)
  BY SoundGoes DEF TasksSound
<1>2. task' = [task EXCEPT ![t] = x]
  BY DEF Goes
<1> QED BY <1>1, <1>2 DEF Moves

(* The parts of the invariant a step may disturb. *)
Recorded == /\ joined \in Joined \cup {NotJoined} /\ remembered \in Number
            /\ joined.index <= joined.seen /\ joined.index <= Latest
Filed    == /\ target \in Tasks \cup {NoFile} /\ partial \in Tasks \cup {NoFile}
            /\ content \in [Tasks -> Content] /\ installed \in Entry \cup {NoEntry}
Tokens   == live \in SUBSET Token /\ kept \in Token \cup {NoToken}
Lists    == signed \in Seq(Listed!List) /\ Len(signed) \in 1..(MaxList + 1)
Asked    == does \in Plans /\ agreed \in SUBSET Versions
Bounded  == mishaps \in 0..MaxMishaps

LEMMA Parts ==
    IInv <=> Lists /\ Recorded /\ Filed /\ Tokens /\ Asked /\ Bounded /\ TasksSound
BY DEF IInv, TypeOK, Lists, Recorded, Filed, Tokens, Asked, Bounded, TasksSound

LEMMA PartsNext ==
    IInv' <=> Lists' /\ Recorded' /\ Filed' /\ Tokens' /\ Asked' /\ Bounded' /\ TasksSound'
BY DEF IInv, TypeOK, Lists, Recorded, Filed, Tokens, Asked, Bounded, TasksSound

(* What a step leaves alone keeps its part. *)
LEMMA Kept ==
    ASSUME IInv
    PROVE  /\ Latest \in Number /\ Latest \in Int
           /\ UNCHANGED signed => Lists' /\ Latest' = Latest
           /\ UNCHANGED <<joined, remembered, signed>> => Recorded'
           /\ UNCHANGED <<plugins, installed>> => Filed'
           /\ UNCHANGED <<live, kept>> => Tokens'
           /\ UNCHANGED asked => Asked'
           /\ UNCHANGED mishaps => Bounded'
           /\ UNCHANGED <<signed, task>> => TasksSound'
<1> USE Parts
<1>1. /\ Latest \in Number /\ Latest \in Int
      /\ UNCHANGED signed => Lists' /\ Latest' = Latest
  BY ConstantsAssumption DEF Lists, Latest, Number
<1>2. UNCHANGED <<joined, remembered, signed>> => Recorded'
  BY DEF Recorded, Latest
<1>3. UNCHANGED <<plugins, installed>> => Filed'
  BY DEF Filed, plugins
<1>4. UNCHANGED <<live, kept>> => Tokens'
  BY DEF Tokens
<1>5. UNCHANGED asked => Asked'
  BY DEF Asked, asked
<1>6. UNCHANGED mishaps => Bounded'
  BY DEF Bounded
<1>7. UNCHANGED <<signed, task>> => TasksSound'
  BY DEF TasksSound, Sound, Latest
<1> QED BY <1>1, <1>2, <1>3, <1>4, <1>5, <1>6, <1>7

Spends == UNCHANGED mishaps \/ \E k : GoesWrong(k)

LEMMA StepKeeps ==
    ASSUME IInv, NEW t \in Tasks, UNCHANGED signed, Moves(t), Spends,
           Recorded' \/ UNCHANGED <<joined, remembered>>,
           Filed' \/ UNCHANGED <<plugins, installed>>,
           Tokens' \/ UNCHANGED <<live, kept>>,
           Asked' \/ UNCHANGED asked
    PROVE  IInv'
<1>1. Bounded'
  BY Parts, ConstantsAssumption DEF GoesWrong, Bounded, Spends
<1>2. Lists' /\ Latest' = Latest
  BY Kept
<1>3. TasksSound'
  BY <1>2, Parts, MovesKeep
<1>4. Recorded' /\ Filed' /\ Tokens' /\ Asked'
  BY Kept
<1> QED BY <1>1, <1>2, <1>3, <1>4, PartsNext

(* The list accepted is one the store has signed. *)
LEMMA AcceptType ==
    ASSUME NEW r \in Joined \cup {NotJoined}, NEW n \in Number,
           r.index <= r.seen, r.index <= Latest, n <= Latest
    PROVE  /\ AcceptIndex(r, n) \in Joined \cup {NotJoined}
           /\ AcceptIndex(r, n).index <= AcceptIndex(r, n).seen
           /\ AcceptIndex(r, n).index <= Latest
           /\ AcceptIndex(r, n).seen >= r.seen
<1>1. CASE r = NotJoined
  BY <1>1 DEF AcceptIndex, NotJoined
<1>2. CASE r \in Joined
  <2> DEFINE a == [r EXCEPT !.seen = Higher(@, n), !.index = n, !.revoked = FALSE]
  <2>1. r.joined /\ r.seen \in Number
    BY <1>2 DEF Joined
  <2>2. /\ Higher(r.seen, n) \in Number /\ Higher(r.seen, n) >= n /\ Higher(r.seen, n) >= r.seen
    BY <2>1, HigherFacts
  <2>3. a \in Joined /\ a.index = n /\ a.seen = Higher(r.seen, n)
    BY <1>2, <2>2 DEF Joined
  <2>4. AcceptIndex(r, n) = a
    BY <2>1 DEF AcceptIndex
  <2> HIDE DEF a
  <2> QED BY <2>2, <2>3, <2>4
<1> QED BY <1>1, <1>2

LEMMA InitInv == Init => IInv
<1> SUFFICES ASSUME Init PROVE IInv
  OBVIOUS
<1>1. signed \in Seq(Listed!List) /\ Len(signed) = 1 /\ Latest = 0
  BY DEF Init, Listed!List, NoEntry, Latest
<1>2. Fresh \in Task /\ Fresh.got = -1 /\ Fresh.at = "idle"
  BY ConstantsAssumption DEF Fresh, Task, Stage, Number, NoList
<1>3. TasksSound
  BY <1>1, <1>2 DEF Init, TasksSound, Sound
<1>4. Lists
  BY <1>1, ConstantsAssumption DEF Lists
<1>5. Recorded
  BY <1>1, ConstantsAssumption DEF Init, Recorded, Joined, Number
<1>6. Filed /\ Tokens /\ Asked /\ Bounded
  BY ConstantsAssumption DEF Init, Filed, Tokens, Asked, Bounded, Content, Token
<1> QED BY <1>3, <1>4, <1>5, <1>6, Parts

LEMMA RecordFields ==
    ASSUME NEW r \in Joined \cup {NotJoined}
    PROVE  r.seen \in Number /\ r.index \in Number \cup {NoList} /\ r.joined \in BOOLEAN
<1>1. CASE r \in Joined
  BY <1>1 DEF Joined
<1>2. CASE r = NotJoined
  BY <1>2, ConstantsAssumption DEF NotJoined, Number
<1> QED BY <1>1, <1>2

(* What was read of the record and the token has its type. *)
LEMMA Reads ==
    ASSUME IInv, NEW t \in Tasks
    PROVE  /\ joined.seen \in Number /\ joined.index \in Number \cup {NoList}
           /\ joined.joined \in BOOLEAN /\ kept \in Token \cup {NoToken}
           /\ 0 \in Number /\ task[t] \in Task /\ Sound(task[t])
<1>1. 0 \in Number
  BY ConstantsAssumption DEF Number
<1>2. joined \in Joined \cup {NotJoined} /\ kept \in Token \cup {NoToken}
  BY Parts DEF Recorded, Tokens
<1>3. joined.seen \in Number /\ joined.index \in Number \cup {NoList} /\ joined.joined \in BOOLEAN
  BY <1>2, RecordFields
<1>4. task[t] \in Task /\ Sound(task[t])
  BY Parts DEF TasksSound, Sound
<1> QED BY <1>1, <1>2, <1>3, <1>4

(* The list held: what is read, found, recorded. *)
LEMMA ListingKeeps ==
    ASSUME IInv, NEW t \in Tasks, Listing(t)
    PROVE  IInv'
<1>1. TasksSound /\ task[t] \in Task /\ Sound(task[t])
  BY Parts, Reads
<1>2. joined.seen \in Number /\ kept \in Token \cup {NoToken} /\ 0 \in Number
  BY Reads
<1>3. Latest \in Number
  BY Kept
<1>4. CASE Refresh(t)
  <2> DEFINE x == [Fresh EXCEPT !.at = IF kept = NoToken THEN "done" ELSE "fetch",
                                !.floor = joined.seen, !.token = kept]
  <2>1. x \in Task
    BY <1>2 DEF Task, Stage, Fresh
  <2>2. x.got = -1 /\ x.at \in {"done", "fetch"}
    BY DEF Fresh, NoList
  <2>3. Sound(x)
    BY <1>3, <2>1, <2>2, ConstantsAssumption DEF Sound, Number
  <2>4. Moves(t)
    BY <1>4, <2>3 DEF Refresh, Moves
  <2> QED BY <1>4, <2>4, StepKeeps DEF Refresh, store, record, Spends
<1>5. CASE Fetch(t)
  <2>1. Spends
    BY <1>5 DEF Fetch, Offline, Answers, Spends
  <2>2. ASSUME NEW s \in Plain, Goes(t, s) PROVE Moves(t)
    BY <1>1, <2>2, GoesMoves
  <2>3. ASSUME NEW n \in 0..Latest, task' = [task EXCEPT ![t].at = "accept", ![t].got = n]
        PROVE  Moves(t)
    <3> DEFINE x == [task[t] EXCEPT !.at = "accept", !.got = n]
    <3>1. n \in Number /\ n <= Latest
      BY <1>3, ConstantsAssumption DEF Number
    <3>2. x \in Task /\ x.at = "accept" /\ x.got = n
      BY <1>1, <3>1 DEF Task, Stage
    <3>3. Sound(x)
      BY <3>1, <3>2 DEF Sound
    <3> QED BY <2>3, <3>3 DEF Moves
  <2>4. \/ Goes(t, "done") \/ Goes(t, "refused")
        \/ \E n \in 0..Latest : task' = [task EXCEPT ![t].at = "accept", ![t].got = n]
    BY <1>5 DEF Fetch
  <2>5. Moves(t)
    BY <2>2, <2>3, <2>4, PlainStages
  <2> QED BY <1>5, <2>1, <2>5, StepKeeps DEF Fetch, store, record
<1>6. CASE Accept(t)
  <2>1. task[t].got \in Number /\ task[t].got <= Latest
    BY <1>1, <1>6 DEF Accept, At, Sound
  <2>2. Moves(t)
    <3>1. CASE Goes(t, "done")
      BY <1>1, <3>1, GoesMoves, PlainStages
    <3>2. CASE Goes(t, "decide")
      <4> DEFINE x == [task[t] EXCEPT !.at = "decide"]
      <4>1. x \in Task /\ x.at = "decide" /\ x.got = task[t].got
        BY <1>1 DEF Task, Stage
      <4>2. Sound(x)
        BY <2>1, <4>1 DEF Sound
      <4> QED BY <3>2, <4>2 DEF Moves, Goes
    <3> QED BY <1>6, <3>1, <3>2 DEF Accept
  <2>3. Recorded' \/ UNCHANGED <<joined, remembered>>
    <3>1. CASE joined' = AcceptIndex(joined, task[t].got) /\ remembered' = Higher(remembered, task[t].got)
      <4>1. /\ joined' \in Joined \cup {NotJoined} /\ joined'.index <= joined'.seen
            /\ joined'.index <= Latest
        BY <2>1, <3>1, AcceptType, Parts DEF Recorded
      <4>2. remembered' \in Number
        BY <2>1, <3>1, HigherFacts, Parts DEF Recorded
      <4>3. Latest' = Latest
        BY <1>6, Kept DEF Accept, store
      <4> QED BY <4>1, <4>2, <4>3 DEF Recorded
    <3> QED BY <1>6, <3>1 DEF Accept
  <2>4. Spends
    BY <1>6 DEF Accept, Unsaved, Spends
  <2> QED BY <1>6, <2>2, <2>3, <2>4, StepKeeps DEF Accept, store
<1>7. CASE MarkRevoked(t)
  <2>1. Moves(t)
    BY <1>1, <1>7, GoesMoves, PlainStages DEF MarkRevoked
  <2>2. Recorded'
    <3>1. Latest' = Latest
      BY <1>7, Kept DEF MarkRevoked, store
    <3>2. joined' \in Joined \cup {NotJoined} /\ joined'.index = joined.index /\ joined'.seen = joined.seen
      <4>1. CASE joined \in Joined
        BY <1>7, <4>1 DEF MarkRevoked, Joined
      <4>2. CASE joined = NotJoined
        BY <1>7, <4>2 DEF MarkRevoked, NotJoined
      <4> QED BY <4>1, <4>2, Parts DEF Recorded
    <3>3. UNCHANGED remembered
      BY <1>7 DEF MarkRevoked
    <3> QED BY <3>1, <3>2, <3>3, Parts DEF Recorded
  <2> QED BY <1>7, <2>1, <2>2, StepKeeps DEF MarkRevoked, store, Spends
<1> QED BY <1>4, <1>5, <1>6, <1>7 DEF Listing

(* The plugin: what is asked for, downloaded, written, renamed and recorded. *)
LEMMA InstallingKeeps ==
    ASSUME IInv, NEW t \in Tasks, Installing(t)
    PROVE  IInv'
<1>1. TasksSound /\ task[t] \in Task /\ Sound(task[t])
  BY Parts, Reads
<1>2. joined.seen \in Number /\ kept \in Token \cup {NoToken} /\ 0 \in Number
  BY Reads
<1>3. Latest \in Number /\ signed \in Seq(Listed!List)
  BY Kept, Parts DEF Lists
<1>a. Filed
  BY Parts
<1>4. ASSUME NEW s \in Plain, Goes(t, s) PROVE Moves(t)
  BY <1>1, <1>4, GoesMoves
<1>5. CASE Install(t)
  <2> DEFINE e == Offer(joined.index)
             x == [Fresh EXCEPT !.at = "fetch", !.floor = joined.seen, !.token = kept, !.entry = e]
  <2>1. e \in Entry
    BY <1>3, <1>5, OfferType, Reads, Parts DEF Install, Recorded
  <2>2. x \in Task
    BY <1>2, <2>1 DEF Task, Stage, Fresh
  <2>3. x.got = -1 /\ x.at = "fetch"
    BY DEF Fresh, NoList
  <2>4. Sound(x)
    BY <1>3, <2>2, <2>3, ConstantsAssumption DEF Sound, Number
  <2>5. Moves(t)
    BY <1>5, <2>4 DEF Install, Moves
  <2>6. Asked'
    BY <1>5, <2>1, EntryFacts, Parts DEF Install, Asked
  <2> QED BY <1>5, <2>5, <2>6, StepKeeps DEF Install, store, record, Spends
<1>6. CASE Decide(t)
  <2>1. Offer(task[t].got) \in Entry \cup {NoEntry}
    BY <1>1, <1>3, <1>6, OfferType DEF Decide, At, Sound
  <2>2. ASSUME NEW now \in Entry, task' = [task EXCEPT ![t].at = "download", ![t].entry = now]
        PROVE  Moves(t)
    BY <1>1, <2>2, SoundFinds DEF Moves
  <2>3. \/ Goes(t, "done")
        \/ \E now \in Entry : task' = [task EXCEPT ![t].at = "download", ![t].entry = now]
    BY <1>6, <2>1 DEF Decide
  <2>4. Moves(t)
    BY <1>4, <2>2, <2>3, PlainStages
  <2> QED BY <1>6, <2>4, StepKeeps DEF Decide, store, record, Spends
<1>7. CASE Download(t)
  <2>1. task[t].entry \in Entry
    BY <1>1, <1>7 DEF Download, At, Sound
  <2>2. ASSUME Goes(t, "open") PROVE Moves(t)
    BY <1>1, <2>1, <2>2, SoundOpens DEF Moves, Goes
  <2>3. Goes(t, "done") \/ Goes(t, "open")
    BY <1>7 DEF Download
  <2>4. Moves(t)
    BY <1>4, <2>2, <2>3, PlainStages
  <2>5. Spends
    BY <1>7 DEF Download, Offline, Spends
  <2> QED BY <1>7, <2>4, <2>5, StepKeeps DEF Download, store, record
<1>8. CASE OpenPartial(t)
  <2> DEFINE f == IF partial = NoFile THEN t ELSE partial
             x == [task[t] EXCEPT !.at = "write", !.file = f]
  <2>1. f \in Tasks
    BY <1>a DEF Filed
  <2>2. task[t].entry \in Entry
    BY <1>1, <1>8 DEF OpenPartial, At, Sound
  <2>3. x \in Task /\ x.at = "write" /\ x.got = task[t].got /\ x.entry \in Entry
    BY <1>1, <2>1, <2>2 DEF Task, Stage
  <2>4. Sound(x)
    BY <1>1, <2>3 DEF Sound
  <2>5. Moves(t)
    BY <1>8, <2>4 DEF OpenPartial, Moves
  <2>6. Filed'
    BY <1>8, <1>a, <2>1 DEF OpenPartial, Filed, Content, record
  <2> QED BY <1>8, <2>5, <2>6, StepKeeps DEF OpenPartial, store, record, Spends
<1>9. CASE WritePartial(t)
  <2>1. task[t].entry \in Entry
    BY <1>1, <1>9 DEF WritePartial, At, Sound
  <2>2. Moves(t)
    BY <1>4, <1>9, PlainStages DEF WritePartial
  <2>3. Filed'
    BY <1>9, <1>a, <2>1 DEF WritePartial, Filed, Content, record
  <2>4. Spends
    BY <1>9 DEF WritePartial, Unsaved, Spends
  <2> QED BY <1>9, <2>2, <2>3, <2>4, StepKeeps DEF WritePartial, store, record
<1>10. CASE Rename(t)
  <2>1. Moves(t)
    BY <1>4, <1>10, PlainStages DEF Rename
  <2>2. Filed'
    BY <1>10, <1>a DEF Rename, Filed, record
  <2> QED BY <1>10, <2>1, <2>2, StepKeeps DEF Rename, store, record, Spends
<1>11. CASE RecordInstall(t)
  <2>1. Moves(t)
    BY <1>4, <1>11, PlainStages DEF RecordInstall
  <2>2. Filed'
    BY <1>1, <1>11, <1>a DEF RecordInstall, Filed, plugins, Task
  <2>3. Spends
    BY <1>11 DEF RecordInstall, Unsaved, Spends
  <2> QED BY <1>11, <2>1, <2>2, <2>3, StepKeeps DEF RecordInstall, store
<1>12. CASE Remove(t)
  <2>1. Moves(t)
    BY <1>4, <1>12, PlainStages DEF Remove
  <2>2. Filed'
    BY <1>12, <1>a DEF Remove, Filed, record
  <2> QED BY <1>12, <2>1, <2>2, StepKeeps DEF Remove, store, record, Spends
<1>13. CASE ForgetInstall(t)
  <2>1. Moves(t)
    BY <1>4, <1>13, PlainStages DEF ForgetInstall
  <2>2. Filed'
    BY <1>13, <1>a DEF ForgetInstall, Filed, plugins
  <2>3. Spends
    BY <1>13 DEF ForgetInstall, Unsaved, Spends
  <2> QED BY <1>13, <2>1, <2>2, <2>3, StepKeeps DEF ForgetInstall, store
<1> QED BY <1>5, <1>6, <1>7, <1>8, <1>9, <1>10, <1>11, <1>12, <1>13 DEF Installing

(* The record written by a join, with the first list or without. *)
LEMMA UpsertType ==
    ASSUME IInv, NEW got \in Number \cup {NoList, Refused}, got <= Latest,
           NEW new, new = [joined |-> TRUE, seen |-> Higher(joined.seen, remembered),
                           index |-> NoList, revoked |-> got = Refused],
           joined' = IF got \in Number THEN AcceptIndex(new, got) ELSE new,
           remembered' = IF got \in Number THEN Higher(remembered, got) ELSE remembered
    PROVE  /\ joined' \in Joined \cup {NotJoined} /\ remembered' \in Number
           /\ joined'.index <= joined'.seen /\ joined'.index <= Latest
           /\ joined'.seen >= joined.seen /\ joined'.seen >= remembered
<1>1. joined.seen \in Number /\ remembered \in Number /\ Latest \in Number
  BY RecordFields, Kept, Parts DEF Recorded
<1>2. /\ new.seen \in Number /\ new.seen >= joined.seen /\ new.seen >= remembered
      /\ new.index = -1 /\ new \in Joined
  BY <1>1, HigherFacts DEF Joined, NoList
<1>3. new.index <= new.seen /\ new.index <= Latest
  BY <1>1, <1>2, ConstantsAssumption DEF Number
<1>4. CASE got \in Number
  <2>1. /\ joined' \in Joined \cup {NotJoined} /\ joined'.index <= joined'.seen
        /\ joined'.index <= Latest /\ joined'.seen >= new.seen
    BY <1>2, <1>3, <1>4, AcceptType
  <2>2. joined'.seen \in Number
    BY <2>1, RecordFields
  <2>3. remembered' \in Number
    BY <1>1, <1>4, HigherFacts
  <2> QED BY <1>1, <1>2, <2>1, <2>2, <2>3, ConstantsAssumption DEF Number
<1>5. CASE got \notin Number
  BY <1>1, <1>2, <1>3, <1>5
<1> QED BY <1>4, <1>5

LEMMA JoiningKeeps ==
    ASSUME IInv, NEW t \in Tasks, Joining(t)
    PROVE  IInv'
<1>1. TasksSound /\ task[t] \in Task /\ Sound(task[t])
  BY Parts, Reads
<1>2. /\ joined.seen \in Number /\ joined.joined \in BOOLEAN /\ kept \in Token \cup {NoToken}
      /\ remembered \in Number /\ live \in SUBSET Token
  BY Reads, Parts DEF Recorded, Tokens
<1>3. Latest \in Number
  BY Kept
<1>4. ASSUME NEW s \in Plain, Goes(t, s) PROVE Moves(t)
  BY <1>1, <1>4, GoesMoves
<1>5. CASE Join(t)
  <2> DEFINE x == [Fresh EXCEPT !.at = "redeem", !.floor = joined.seen, !.had = joined.joined]
  <2>1. x \in Task
    BY <1>2 DEF Task, Stage, Fresh
  <2>2. x.got = -1 /\ x.at = "redeem"
    BY DEF Fresh, NoList
  <2>3. Sound(x)
    BY <1>3, <2>1, <2>2, ConstantsAssumption DEF Sound, Number
  <2>4. Moves(t)
    BY <1>5, <2>3 DEF Join, Moves
  <2> QED BY <1>5, <2>4, StepKeeps DEF Join, store, record, Spends
<1>6. CASE Redeem(t)
  <2>1. ASSUME task' = [task EXCEPT ![t].at = "floor", ![t].token = t] PROVE Moves(t)
    <3> DEFINE x == [task[t] EXCEPT !.at = "floor", !.token = t]
    <3>1. x \in Task /\ x.at = "floor" /\ x.got = task[t].got
      BY <1>1 DEF Task, Stage, Token
    <3>2. x.got <= Latest
      BY <1>1, <3>1 DEF Sound
    <3>3. Sound(x)
      BY <3>1, <3>2, SoundPlain, PlainStages
    <3> QED BY <2>1, <3>3 DEF Moves
  <2>2. Goes(t, "done") \/ task' = [task EXCEPT ![t].at = "floor", ![t].token = t]
    BY <1>6 DEF Redeem
  <2>3. Moves(t)
    BY <1>4, <2>1, <2>2, PlainStages
  <2>4. Tokens'
    BY <1>2, <1>6 DEF Redeem, Tokens, Token
  <2>5. Spends
    BY <1>6 DEF Redeem, Offline, Spends
  <2> QED BY <1>6, <2>3, <2>4, <2>5, StepKeeps DEF Redeem, record
<1>7. CASE Floor(t)
  <2>1. Higher(task[t].floor, remembered) \in Number
    BY <1>1, <1>2, HigherFacts DEF Task
  <2> DEFINE x == [task[t] EXCEPT !.at = "first", !.floor = Higher(@, remembered)]
  <2>2. x \in Task /\ x.at = "first" /\ x.got = task[t].got
    BY <1>1, <2>1 DEF Task, Stage
  <2>3. x.got <= Latest
    BY <1>1, <2>2 DEF Sound
  <2>4. Sound(x)
    BY <2>2, <2>3, SoundPlain, PlainStages
  <2>5. Moves(t)
    BY <1>7, <2>4 DEF Floor, Moves
  <2> QED BY <1>7, <2>5, StepKeeps DEF Floor, store, record, Spends
<1>8. CASE First(t)
  <2>1. ASSUME NEW n \in Number \cup {Refused}, n <= Latest,
               task' = [task EXCEPT ![t].at = "token", ![t].got = n]
        PROVE  Moves(t)
    <3> DEFINE x == [task[t] EXCEPT !.at = "token", !.got = n]
    <3>1. x \in Task /\ x.at = "token" /\ x.got <= Latest
      BY <1>1, <2>1 DEF Task, Stage
    <3>2. Sound(x)
      BY <3>1, SoundPlain, PlainStages
    <3> QED BY <2>1, <3>2 DEF Moves
  <2>2. Refused <= Latest /\ 0..Latest \subseteq Number /\ \A n \in 0..Latest : n <= Latest
    BY <1>3, ConstantsAssumption DEF Refused, Number
  <2>3. \/ Goes(t, "token") \/ Goes(t, "undo")
        \/ \E n \in 0..Latest \cup {Refused} : task' = [task EXCEPT ![t].at = "token", ![t].got = n]
    BY <1>8 DEF First
  <2>4. Moves(t)
    BY <1>4, <2>1, <2>2, <2>3, PlainStages
  <2>5. Spends
    BY <1>8 DEF First, Offline, Answers, Spends
  <2> QED BY <1>8, <2>4, <2>5, StepKeeps DEF First, store, record
<1>9. CASE Undo(t) \/ DropOld(t)
  <2>1. Moves(t)
    BY <1>4, <1>9, PlainStages DEF Undo, DropOld, Revokes
  <2>2. Tokens'
    BY <1>2, <1>9 DEF Undo, DropOld, Revokes, Tokens
  <2>3. Spends
    BY <1>9 DEF Undo, DropOld, Revokes, Offline, Spends
  <2> QED BY <1>9, <2>1, <2>2, <2>3, StepKeeps DEF Undo, DropOld, Revokes, record
<1>10. CASE KeepToken(t)
  <2>1. ASSUME NEW k \in Token \cup {NoToken},
               task' = [task EXCEPT ![t].at = "upsert", ![t].old = k]
        PROVE  Moves(t)
    <3> DEFINE x == [task[t] EXCEPT !.at = "upsert", !.old = k]
    <3>1. x \in Task /\ x.at = "upsert" /\ x.got = task[t].got
      BY <1>1 DEF Task, Stage
    <3>2. x.got <= Latest
      BY <1>1, <3>1 DEF Sound
    <3>3. Sound(x)
      BY <3>1, <3>2, SoundPlain, PlainStages
    <3> QED BY <2>1, <3>3 DEF Moves
  <2>2. \/ Goes(t, "done")
        \/ \E k \in Token \cup {NoToken} : task' = [task EXCEPT ![t].at = "upsert", ![t].old = k]
    BY <1>2, <1>10 DEF KeepToken
  <2>3. Moves(t)
    BY <1>4, <2>1, <2>2, PlainStages
  <2>4. Tokens' \/ UNCHANGED <<live, kept>>
    BY <1>1, <1>2, <1>10 DEF KeepToken, Tokens, Task, store
  <2>5. Spends
    BY <1>10 DEF KeepToken, Unsaved, Spends
  <2> QED BY <1>10, <2>3, <2>4, <2>5, StepKeeps DEF KeepToken, store, record
<1>11. CASE Upsert(t)
  <2>1. Moves(t)
    BY <1>4, <1>11, PlainStages DEF Upsert
  <2>2. task[t].got \in Number \cup {NoList, Refused} /\ task[t].got <= Latest
    BY <1>1 DEF Task, Sound
  <2>3. Latest' = Latest
    BY <1>11, Kept DEF Upsert, store
  <2>4. Recorded' \/ UNCHANGED <<joined, remembered>>
    BY <1>11, <2>2, <2>3, UpsertType DEF Upsert, Recorded
  <2>5. Spends
    BY <1>11 DEF Upsert, Unsaved, Spends
  <2> QED BY <1>11, <2>1, <2>4, <2>5, StepKeeps DEF Upsert, store
<1> QED BY <1>5, <1>6, <1>7, <1>8, <1>9, <1>10, <1>11 DEF Joining

LEMMA LeavingKeeps ==
    ASSUME IInv, NEW t \in Tasks, Leaving(t)
    PROVE  IInv'
<1>1. TasksSound /\ task[t] \in Task /\ Sound(task[t])
  BY Parts, Reads
<1>2. /\ joined.seen \in Number /\ kept \in Token \cup {NoToken}
      /\ remembered \in Number /\ live \in SUBSET Token /\ 0 \in Number
  BY Reads, Parts DEF Recorded, Tokens
<1>3. Latest \in Number
  BY Kept
<1>4. ASSUME NEW s \in Plain, Goes(t, s) PROVE Moves(t)
  BY <1>1, <1>4, GoesMoves
<1>5. CASE Leave(t)
  <2> DEFINE x == [Fresh EXCEPT !.at = IF kept = NoToken THEN "clear" ELSE "revoke", !.token = kept]
  <2>1. x \in Task
    BY <1>2 DEF Task, Stage, Fresh
  <2>2. x.got = -1 /\ x.at \in {"clear", "revoke"}
    BY DEF Fresh, NoList
  <2>3. Sound(x)
    BY <1>3, <2>1, <2>2, ConstantsAssumption DEF Sound, Number
  <2>4. Moves(t)
    BY <1>5, <2>3 DEF Leave, Moves
  <2> QED BY <1>5, <2>4, StepKeeps DEF Leave, store, record, Spends
<1>6. CASE Revoke(t)
  <2>1. Moves(t)
    BY <1>4, <1>6, PlainStages DEF Revoke, Revokes
  <2>2. Tokens'
    BY <1>2, <1>6 DEF Revoke, Revokes, Tokens
  <2>3. Spends
    BY <1>6 DEF Revoke, Revokes, Offline, Spends
  <2> QED BY <1>6, <2>1, <2>2, <2>3, StepKeeps DEF Revoke, Revokes, record
<1>7. CASE Clear(t)
  <2>1. Moves(t)
    BY <1>4, <1>7, PlainStages DEF Clear
  <2>2. Tokens'
    BY <1>2, <1>7 DEF Clear, Tokens, store
  <2>3. Spends
    BY <1>7 DEF Clear, Unsaved, Spends
  <2> QED BY <1>7, <2>1, <2>2, <2>3, StepKeeps DEF Clear, store, record
<1>8. CASE RemoveStore(t)
  <2>1. Moves(t)
    BY <1>4, <1>8, PlainStages DEF RemoveStore
  <2>2. Recorded' \/ UNCHANGED <<joined, remembered>>
    <3>1. CASE joined' = NotJoined /\ remembered' = Higher(remembered, joined.seen)
      <4>1. remembered' \in Number
        BY <1>2, <3>1, HigherFacts
      <4>2. Latest' \in Int /\ Latest' >= 0
        BY <1>3, <1>8, Kept, ConstantsAssumption DEF RemoveStore, store, Number
      <4>3. joined'.index = -1 /\ joined'.seen = 0
        BY <3>1 DEF NotJoined, NoList
      <4> QED BY <3>1, <4>1, <4>2, <4>3 DEF Recorded
    <3> QED BY <1>8, <3>1 DEF RemoveStore
  <2>3. Spends
    BY <1>8 DEF RemoveStore, Unsaved, Spends
  <2> QED BY <1>8, <2>1, <2>2, <2>3, StepKeeps DEF RemoveStore, store
<1> QED BY <1>5, <1>6, <1>7, <1>8 DEF Leaving

(* What no command does: the store changes its list or lets the machine go, the app ends. *)
LEMMA PublishKeeps == IInv /\ Publish => IInv'
<1> SUFFICES ASSUME IInv, Publish PROVE IInv'
  OBVIOUS
<1>1. Lists' /\ Latest' = Latest + 1
  BY Parts, ConstantsAssumption DEF Publish, Lists, Latest
<1>2. Latest \in Int
  BY Kept
<1>3. TasksSound'
  <2>1. \A x : Sound(x) => Sound(x)'
    <3> SUFFICES ASSUME NEW x, Sound(x) PROVE x.got <= Latest'
      BY DEF Sound
    <3>1. x.got \in Int /\ x.got <= Latest
      BY ConstantsAssumption DEF Sound, Task, Number, NoList, Refused
    <3> QED BY <1>1, <1>2, <3>1
  <2> QED BY <2>1, Parts DEF Publish, TasksSound, Sound
<1>4. Recorded'
  <2>1. joined.index \in Int
    BY Parts, RecordFields, ConstantsAssumption DEF Recorded, Number, NoList
  <2>2. joined.index <= Latest'
    BY <1>1, <1>2, <2>1, Parts DEF Recorded
  <2> QED BY <2>2, Parts DEF Publish, Recorded, record
<1> QED BY <1>1, <1>3, <1>4, Kept, PartsNext DEF Publish, record

LEMMA EvictKeeps == ASSUME IInv, NEW k \in live, Evict(k) PROVE IInv'
<1>1. Bounded'
  BY Parts, ConstantsAssumption DEF Evict, GoesWrong, Bounded
<1>2. Tokens'
  BY Parts DEF Evict, Tokens
<1> QED BY <1>1, <1>2, Kept, PartsNext DEF Evict, record

LEMMA StopKeeps == IInv /\ Stop => IInv'
<1> SUFFICES ASSUME IInv, Stop PROVE IInv'
  OBVIOUS
<1>1. Bounded'
  BY Parts, ConstantsAssumption DEF Stop, GoesWrong, Bounded
<1>2. TasksSound'
  <2> DEFINE x == [Fresh EXCEPT !.at = "done"]
  <2>1. Latest' = Latest /\ Latest \in Number /\ 0 \in Number
    BY Kept, ConstantsAssumption DEF Stop, store, Number
  <2>2. x \in Task
    BY <2>1 DEF Task, Stage, Fresh
  <2>3. x.got = -1 /\ x.at = "done"
    BY DEF Fresh, NoList
  <2>4. Sound(x)
    BY <2>1, <2>2, <2>3, ConstantsAssumption DEF Sound, Number
  <2>5. \A t \in Tasks : Sound(task'[t]) /\ task'[t] \in Task
    BY <2>4, Parts DEF Stop, TasksSound, Sound
  <2>6. \A y : Sound(y) => Sound(y)'
    BY <2>1 DEF Sound
  <2>7. task' \in [Tasks -> Task]
    BY <2>5 DEF Stop
  <2> QED BY <2>5, <2>6, <2>7 DEF TasksSound
<1> QED BY <1>1, <1>2, Kept, PartsNext DEF Stop, store, record

LEMMA NextInv == IInv /\ [Next]_vars => IInv'
<1> SUFFICES ASSUME IInv, [Next]_vars PROVE IInv'
  OBVIOUS
<1>1. CASE UNCHANGED vars
  BY <1>1, Kept, PartsNext DEF vars, store, record
<1>2. ASSUME NEW t \in Tasks, Listing(t) \/ Installing(t) \/ Joining(t) \/ Leaving(t)
      PROVE  IInv'
  BY <1>2, ListingKeeps, InstallingKeeps, JoiningKeeps, LeavingKeeps
<1> QED BY <1>1, <1>2, PublishKeeps, EvictKeeps, StopKeeps DEF Next

(* Every variable holds values of its type, and the list held of the store has been seen:
   its number is at most the highest recorded. *)
THEOREM TypeCorrect == Spec => []TypeOK
<1>1. IInv => TypeOK
  BY DEF IInv
<1> QED BY <1>1, InitInv, NextInv, PTL DEF Spec

-----------------------------------------------------------------------------
(* The highest number seen. *)

LEMMA SeenHigher ==
    ASSUME NEW a \in Number, NEW b \in Number, NEW c \in Number, NEW d \in Number,
           c >= a \/ d >= a, c >= b \/ d >= b
    PROVE  Higher(c, d) >= Higher(a, b)
BY ConstantsAssumption DEF Higher, Number

(* A number falls only where it is recorded that a higher one was seen. *)
LEMMA SeenStays ==
    ASSUME IInv, IInv',
           joined'.seen >= joined.seen \/ remembered' >= joined.seen,
           joined'.seen >= remembered \/ remembered' >= remembered
    PROVE  Seen' >= Seen
<1>1. joined.seen \in Number /\ remembered \in Number
  BY RecordFields, Parts DEF Recorded
<1>2. joined'.seen \in Number /\ remembered' \in Number
  BY RecordFields, PartsNext DEF Recorded
<1> QED BY <1>1, <1>2, SeenHigher DEF Seen

LEMMA SeenStep == IInv /\ IInv' /\ [Next]_vars => Seen' >= Seen
<1> SUFFICES ASSUME IInv, IInv', [Next]_vars PROVE Seen' >= Seen
  OBVIOUS
<1>1. joined.seen \in Number /\ remembered \in Number
  BY RecordFields, Parts DEF Recorded
<1>a. joined.seen >= joined.seen /\ remembered >= remembered
  BY <1>1, ConstantsAssumption DEF Number
<1>2. CASE UNCHANGED <<joined, remembered>>
  <2>1. joined' = joined /\ remembered' = remembered
    BY <1>2
  <2> QED BY <1>a, <2>1, SeenStays
<1>3. ASSUME NEW t \in Tasks, Accept(t) PROVE Seen' >= Seen
  <2>1. task[t].got \in Number /\ task[t].got <= Latest
    BY <1>3, Reads DEF Accept, At, Sound
  <2>2. CASE joined' = AcceptIndex(joined, task[t].got) /\ remembered' = Higher(remembered, task[t].got)
    <3>1. joined'.seen >= joined.seen
      BY <2>1, <2>2, AcceptType, Parts DEF Recorded
    <3>2. remembered' >= remembered
      BY <1>1, <2>1, <2>2, HigherFacts
    <3> QED BY <3>1, <3>2, SeenStays
  <2> QED BY <1>2, <1>3, <2>2 DEF Accept
<1>4. ASSUME NEW t \in Tasks, MarkRevoked(t) PROVE Seen' >= Seen
  <2>1. joined'.seen = joined.seen
    <3>1. CASE joined \in Joined
      BY <1>4, <3>1 DEF MarkRevoked, Joined
    <3>2. CASE joined = NotJoined
      BY <1>4, <3>2 DEF MarkRevoked, NotJoined
    <3> QED BY <3>1, <3>2, Parts DEF Recorded
  <2>2. remembered' = remembered
    BY <1>4 DEF MarkRevoked
  <2> QED BY <1>a, <2>1, <2>2, SeenStays
<1>5. ASSUME NEW t \in Tasks, Upsert(t) PROVE Seen' >= Seen
  <2>1. task[t].got \in Number \cup {NoList, Refused} /\ task[t].got <= Latest
    BY Reads DEF Task, Sound
  <2>2. \/ joined'.seen >= joined.seen /\ joined'.seen >= remembered
        \/ UNCHANGED <<joined, remembered>>
    BY <1>5, <2>1, UpsertType DEF Upsert
  <2> QED BY <1>2, <2>2, SeenStays
<1>6. ASSUME NEW t \in Tasks, RemoveStore(t) PROVE Seen' >= Seen
  <2>1. CASE remembered' = Higher(remembered, joined.seen)
    <3>1. remembered' >= remembered /\ remembered' >= joined.seen
      BY <1>1, <2>1, HigherFacts
    <3> QED BY <3>1, SeenStays
  <2> QED BY <1>2, <1>6, <2>1 DEF RemoveStore
<1>7. ASSUME NEW t \in Tasks, Listing(t) \/ Installing(t) \/ Joining(t) \/ Leaving(t)
      PROVE  Seen' >= Seen
  <2>1. CASE Listing(t)
    BY <1>2, <1>3, <1>4, <2>1 DEF Listing, Refresh, Fetch, record
  <2>2. CASE Installing(t)
    BY <1>2, <2>2 DEF Installing, Install, Decide, Download, OpenPartial, WritePartial, Rename,
                      RecordInstall, Remove, ForgetInstall, record
  <2>3. CASE Joining(t)
    BY <1>2, <1>5, <2>3 DEF Joining, Join, Redeem, Floor, First, Undo, KeepToken, DropOld, Revokes,
                            record
  <2>4. CASE Leaving(t)
    BY <1>2, <1>6, <2>4 DEF Leaving, Leave, Revoke, Revokes, Clear, record
  <2> QED BY <1>7, <2>1, <2>2, <2>3, <2>4
<1>8. CASE Publish \/ Stop \/ \E k \in live : Evict(k)
  BY <1>2, <1>8 DEF Publish, Stop, Evict, record
<1>9. CASE UNCHANGED vars
  BY <1>2, <1>9 DEF vars, record
<1> QED BY <1>7, <1>8, <1>9 DEF Next

(* The highest number seen of a store never falls, however joins, leaves and refreshes
   cross and wherever one ends. *)
THEOREM SeenStands == Spec => SeenNeverFalls
<1>1. IInv /\ IInv' /\ [Next]_vars => [Seen' >= Seen]_vars
  BY SeenStep
<1> QED BY <1>1, InitInv, NextInv, PTL DEF Spec, SeenNeverFalls

-----------------------------------------------------------------------------
(* What was asked for. *)

(* The entry a task holds has a version asked for, and an install holds one until it
   decides. *)
Choosing == {"fetch", "accept", "decide"}
Meant(t, x) == /\ x.entry \in Entry => x.entry.version \in agreed
               /\ x.at = "decide" => x.entry \in Entry
               /\ does[t] = "install" /\ x.at \in Choosing => x.entry \in Entry
Intended == /\ \A t \in Tasks : Meant(t, task[t])
            /\ \A f \in Tasks : content[f] \in Entry => content[f].version \in agreed

(* Steps that neither ask, choose nor write. *)
Alone(t) == \A u \in Tasks \ {t} : task'[u] = task[u]
Calm(t)  == /\ UNCHANGED <<content, does, agreed>> /\ Alone(t)
            /\ task'[t].entry \in {task[t].entry, NoEntry} /\ task'[t].at \notin Choosing

LEMMA CalmKeeps ==
    ASSUME Intended, NEW t \in Tasks, Calm(t)
    PROVE  Intended'
<1>1. Meant(t, task[t])'
  BY EntryFacts DEF Intended, Calm, Meant, Choosing
<1>2. \A u \in Tasks \ {t} : Meant(u, task[u])'
  BY DEF Intended, Calm, Meant, Alone
<1> QED BY <1>1, <1>2 DEF Intended, Calm

LEMMA ChoiceKeeps ==
    ASSUME Intended, NEW t \in Tasks, Alone(t), UNCHANGED <<content, does>>,
           agreed \subseteq agreed', Meant(t, task[t])'
    PROVE  Intended'
<1>1. \A u \in Tasks \ {t} : Meant(u, task[u])'
  BY DEF Intended, Meant, Alone
<1> QED BY <1>1 DEF Intended

LEMMA GoesCalm ==
    ASSUME TasksSound, NEW t \in Tasks, NEW s \in Stage \ Choosing, Goes(t, s),
           UNCHANGED <<content, does, agreed>>
    PROVE  Calm(t)
<1>1. task \in [Tasks -> Task]
  BY DEF TasksSound
<1>2. task'[t] = [task[t] EXCEPT !.at = s] /\ Alone(t)
  BY <1>1 DEF Goes, Alone
<1> QED BY <1>1, <1>2 DEF Calm, Task

LEMMA ListingMeant ==
    ASSUME IInv, Intended, NEW t \in Tasks, Listing(t)
    PROVE  Intended'
<1>1. TasksSound /\ task \in [Tasks -> Task] /\ task[t] \in Task
  BY Parts, Reads DEF TasksSound
<1>2. Meant(t, task[t])
  BY DEF Intended
<1>3. UNCHANGED <<content, does, agreed>>
  BY DEF Listing, Refresh, Fetch, Accept, MarkRevoked, plugins, asked
<1>4. ASSUME NEW s \in Stage \ Choosing, Goes(t, s) PROVE Intended'
  BY <1>1, <1>3, <1>4, GoesCalm, CalmKeeps
<1>5. {"done", "refused"} \subseteq Stage \ Choosing
  BY DEF Stage, Choosing
<1>6. CASE Refresh(t)
  <2>1. task'[t].entry = NoEntry /\ does[t] = "refresh" /\ task'[t].at # "decide" /\ Alone(t)
    BY <1>1, <1>6 DEF Refresh, Alone, Fresh
  <2> QED BY <1>3, <2>1, EntryFacts, ChoiceKeeps DEF Meant
<1>7. CASE Fetch(t)
  <2>1. ASSUME NEW n \in 0..Latest, task' = [task EXCEPT ![t].at = "accept", ![t].got = n]
        PROVE  Intended'
    <3>1. task'[t].entry = task[t].entry /\ task'[t].at = "accept" /\ Alone(t)
      BY <1>1, <2>1 DEF Task, Alone
    <3>2. task[t].at = "fetch"
      BY <1>7 DEF Fetch, At
    <3>3. Meant(t, task[t])'
      BY <1>2, <1>3, <3>1, <3>2 DEF Meant, Choosing
    <3> QED BY <1>3, <3>1, <3>3, ChoiceKeeps
  <2> QED BY <1>4, <1>5, <1>7, <2>1 DEF Fetch
<1>8. CASE Accept(t)
  <2>1. ASSUME does[t] = "install", Goes(t, "decide") PROVE Intended'
    <3>1. task'[t].entry = task[t].entry /\ task'[t].at = "decide" /\ Alone(t)
      BY <1>1, <2>1 DEF Goes, Task, Alone
    <3>2. task[t].at = "accept"
      BY <1>8 DEF Accept, At
    <3>3. Meant(t, task[t])'
      BY <1>2, <1>3, <2>1, <3>1, <3>2 DEF Meant, Choosing
    <3> QED BY <1>3, <3>1, <3>3, ChoiceKeeps
  <2>2. Goes(t, "done") \/ (does[t] = "install" /\ Goes(t, "decide"))
    <3>1. CASE does[t] = "install"
      BY <1>8, <3>1 DEF Accept
    <3>2. CASE does[t] # "install"
      BY <1>8, <3>2 DEF Accept
    <3> QED BY <3>1, <3>2
  <2> QED BY <1>4, <1>5, <2>1, <2>2
<1>9. CASE MarkRevoked(t)
  BY <1>4, <1>5, <1>9 DEF MarkRevoked
<1> QED BY <1>6, <1>7, <1>8, <1>9 DEF Listing

LEMMA InstallingMeant ==
    ASSUME IInv, Intended, NEW t \in Tasks, Installing(t)
    PROVE  Intended'
<1>1. TasksSound /\ task \in [Tasks -> Task] /\ task[t] \in Task
  BY Parts, Reads DEF TasksSound
<1>2. Meant(t, task[t])
  BY DEF Intended
<1>3. content \in [Tasks -> Content] /\ partial \in Tasks \cup {NoFile}
  BY Parts DEF Filed
<1>4. ASSUME NEW s \in Stage \ Choosing, Goes(t, s), UNCHANGED <<content, does, agreed>>
      PROVE  Intended'
  BY <1>1, <1>4, GoesCalm, CalmKeeps
<1>5. {"done", "open", "rename", "record", "forget"} \subseteq Stage \ Choosing
  BY DEF Stage, Choosing
<1>6. CASE Install(t)
  <2>1. signed \in Seq(Listed!List) /\ joined.index \in Number \cup {NoList} /\ joined.index <= Latest
    BY Reads, Parts DEF Lists, Recorded
  <2>2. Offer(joined.index) \in Entry
    BY <1>6, <2>1, OfferType DEF Install
  <2>3. task'[t].entry = Offer(joined.index) /\ Alone(t)
    BY <1>1, <1>6 DEF Install, Alone, Fresh
  <2>4. agreed' = agreed \cup {Offer(joined.index).version} /\ UNCHANGED <<content, does>>
    BY <1>6 DEF Install, plugins
  <2>5. Meant(t, task[t])'
    BY <2>2, <2>3, <2>4 DEF Meant
  <2> QED BY <2>3, <2>4, <2>5, ChoiceKeeps
<1>7. CASE Decide(t)
  <2>1. UNCHANGED <<content, does, agreed>>
    BY <1>7 DEF Decide, plugins, asked
  <2>a. task[t].at = "decide"
    BY <1>7 DEF Decide, At
  <2>2. task[t].entry \in Entry /\ task[t].entry.version \in agreed
    BY <1>2, <2>a DEF Meant
  <2>3. ASSUME NEW now, now.version = task[t].entry.version,
               task' = [task EXCEPT ![t].at = "download", ![t].entry = now]
        PROVE  Intended'
    <3>1. task'[t].entry = now /\ task'[t].at = "download" /\ Alone(t)
      BY <1>1, <2>3 DEF Task, Alone
    <3>2. Meant(t, task[t])'
      BY <2>1, <2>2, <2>3, <3>1 DEF Meant, Choosing
    <3> QED BY <2>1, <3>1, <3>2, ChoiceKeeps
  <2>4. \/ Goes(t, "done")
        \/ \E now : /\ now.version = task[t].entry.version
                    /\ task' = [task EXCEPT ![t].at = "download", ![t].entry = now]
    BY <1>7 DEF Decide
  <2> QED BY <1>4, <1>5, <2>1, <2>3, <2>4
<1>8. CASE Download(t)
  <2>1. UNCHANGED <<content, does, agreed>>
    BY <1>8 DEF Download, plugins, asked
  <2>2. Goes(t, "done") \/ Goes(t, "open")
    BY <1>8 DEF Download
  <2> QED BY <1>4, <1>5, <2>1, <2>2
<1>9. CASE OpenPartial(t)
  <2>1. PICK f \in Tasks : /\ content' = [content EXCEPT ![f] = Broken]
                           /\ task' = [task EXCEPT ![t].at = "write", ![t].file = f]
    BY <1>3, <1>9 DEF OpenPartial
  <2>2. task'[t].entry = task[t].entry /\ task'[t].at = "write" /\ Alone(t)
    BY <1>1, <2>1 DEF Task, Alone
  <2>3. UNCHANGED <<does, agreed>>
    BY <1>9 DEF OpenPartial, asked
  <2>4. \A u \in Tasks : content'[u] = Broken \/ content'[u] = content[u]
    BY <1>3, <2>1
  <2>5. \A u \in Tasks : content'[u] \in Entry => content'[u].version \in agreed'
    BY <2>3, <2>4, EntryFacts DEF Intended
  <2>6. Meant(t, task[t])'
    BY <1>2, <2>2, <2>3 DEF Meant, Choosing
  <2>7. \A u \in Tasks \ {t} : Meant(u, task[u])'
    BY <2>2, <2>3 DEF Intended, Meant, Alone
  <2> QED BY <2>5, <2>6, <2>7 DEF Intended
<1>10. CASE WritePartial(t)
  <2>1. UNCHANGED <<does, agreed>>
    BY <1>10 DEF WritePartial, asked
  <2>2. task'[t].entry = task[t].entry /\ task'[t].at \in {"rename", "done"} /\ Alone(t)
    BY <1>1, <1>10 DEF WritePartial, Goes, Task, Alone
  <2>3. \A u \in Tasks : content'[u] \in {content[u], Broken, task[t].entry}
    BY <1>3, <1>10 DEF WritePartial
  <2>4. \A u \in Tasks : content'[u] \in Entry => content'[u].version \in agreed'
    BY <1>2, <2>1, <2>3, EntryFacts DEF Intended, Meant
  <2>5. Meant(t, task[t])'
    BY <1>2, <2>1, <2>2 DEF Meant, Choosing
  <2>6. \A u \in Tasks \ {t} : Meant(u, task[u])'
    BY <2>1, <2>2 DEF Intended, Meant, Alone
  <2> QED BY <2>4, <2>5, <2>6 DEF Intended
<1>11. CASE Rename(t) \/ RecordInstall(t) \/ Remove(t) \/ ForgetInstall(t)
  <2>1. UNCHANGED <<content, does, agreed>>
    BY <1>11 DEF Rename, RecordInstall, Remove, ForgetInstall, plugins, asked
  <2>2. Goes(t, "done") \/ Goes(t, "record") \/ Goes(t, "forget")
    BY <1>11 DEF Rename, RecordInstall, Remove, ForgetInstall
  <2> QED BY <1>4, <1>5, <2>1, <2>2
<1> QED BY <1>6, <1>7, <1>8, <1>9, <1>10, <1>11 DEF Installing

LEMMA MembershipMeant ==
    ASSUME IInv, Intended, NEW t \in Tasks, Joining(t) \/ Leaving(t)
    PROVE  Intended'
<1>1. TasksSound /\ task \in [Tasks -> Task] /\ task[t] \in Task
  BY Parts, Reads DEF TasksSound
<1>2. UNCHANGED <<content, does, agreed>>
  BY DEF Joining, Join, Redeem, Floor, First, Undo, KeepToken, Upsert, DropOld, Leaving, Leave,
         Revoke, Revokes, Clear, RemoveStore, plugins, asked
<1>3. CASE \E s \in {"done", "token", "undo", "drop", "clear", "remove"} : Goes(t, s)
  BY <1>1, <1>2, <1>3, GoesCalm, CalmKeeps DEF Stage, Choosing
<1>4. CASE Join(t) \/ Leave(t)
  <2>1. task'[t].entry = NoEntry /\ task'[t].at \notin Choosing /\ Alone(t)
    <3>1. CASE Join(t)
      BY <1>1, <3>1 DEF Join, Alone, Fresh, Choosing
    <3>2. CASE Leave(t)
      BY <1>1, <3>2 DEF Leave, Alone, Fresh, Choosing
    <3> QED BY <1>4, <3>1, <3>2
  <2> QED BY <1>2, <2>1, CalmKeeps DEF Calm
<1>5. CASE \/ task' = [task EXCEPT ![t].at = "floor", ![t].token = t]
           \/ task' = [task EXCEPT ![t].at = "first", ![t].floor = Higher(@, remembered)]
           \/ \E n : task' = [task EXCEPT ![t].at = "token", ![t].got = n]
           \/ \E k : task' = [task EXCEPT ![t].at = "upsert", ![t].old = k]
  <2>1. task'[t].entry = task[t].entry /\ task'[t].at \notin Choosing /\ Alone(t)
    BY <1>1, <1>5 DEF Task, Alone, Choosing
  <2> QED BY <1>2, <2>1, CalmKeeps DEF Calm
<1>6. CASE Joining(t)
  BY <1>3, <1>4, <1>5, <1>6 DEF Joining, Redeem, Floor, First, Undo, KeepToken, Upsert, DropOld,
                                Revokes
<1>7. CASE Leaving(t)
  BY <1>3, <1>4, <1>7 DEF Leaving, Revoke, Revokes, Clear, RemoveStore
<1> QED BY <1>6, <1>7

LEMMA IntendedStep == IInv /\ Intended /\ [Next]_vars => Intended'
<1> SUFFICES ASSUME IInv, Intended, [Next]_vars PROVE Intended'
  OBVIOUS
<1>1. CASE UNCHANGED <<plugins, task, asked>>
  BY <1>1 DEF Intended, Meant, plugins, asked
<1>2. CASE Stop
  <2>1. UNCHANGED <<content, does, agreed>>
    BY <1>2 DEF Stop, plugins, asked
  <2>2. \A t \in Tasks : Meant(t, task[t])'
    <3> TAKE t \in Tasks
    <3>1. task'[t] = task[t] \/ task'[t] = [Fresh EXCEPT !.at = "done"]
      BY <1>2 DEF Stop
    <3>2. CASE task'[t] = [Fresh EXCEPT !.at = "done"]
      BY <3>2, EntryFacts DEF Fresh, Meant, Choosing
    <3> QED BY <2>1, <3>1, <3>2 DEF Intended, Meant
  <2> QED BY <2>1, <2>2 DEF Intended
<1>3. ASSUME NEW t \in Tasks, Listing(t) \/ Installing(t) \/ Joining(t) \/ Leaving(t)
      PROVE  Intended'
  BY <1>3, ListingMeant, InstallingMeant, MembershipMeant
<1> QED BY <1>1, <1>2, <1>3 DEF Next, Publish, Evict, vars

(* The plugin's file is of a version a person asked for, whatever the store sends and
   whichever commands cross. *)
THEOREM OnlyAgreed == Spec => []AgreedOnly
<1>1. Init => Intended
  BY EntryFacts DEF Init, Intended, Meant, Fresh, Choosing
<1>2. IInv /\ Intended => AgreedOnly
  BY Parts DEF Filed, Intended, AgreedOnly, Content
<1> QED BY <1>1, <1>2, InitInv, NextInv, IntendedStep, PTL DEF Spec

-----------------------------------------------------------------------------
(* The file is whole. *)

(* One install of the plugin at a time: two that crossed would share a .part file. *)
OneInstall == \A p \in Plans : \A t, u \in Tasks : p[t] = "install" /\ p[u] = "install" => t = u

(* Where only an install is, and what it has written there. *)
Writing == {"decide", "download", "open", "write", "rename", "record"}
Owned ==
    /\ \A t \in Tasks : task[t].at \in Writing => does[t] = "install"
    /\ partial # NoFile =>
         does[partial] = "install" /\ task[partial].at \in {"write", "rename", "done"}
    /\ target # NoFile =>
         does[target] = "install" /\ task[target].at \in {"record", "done"} /\ content[target] # Broken
    /\ \A t \in Tasks :
         /\ task[t].at = "write"  => task[t].file = t /\ partial = t /\ content[t] = Broken
         /\ task[t].at = "rename" => partial = t /\ content[t] # Broken

(* Steps that leave the files alone, of a task that has none open. *)
Elsewhere(t) == /\ UNCHANGED <<content, partial, does>> /\ Alone(t)
                /\ target' \in {target, NoFile}
                /\ task'[t].at \in Writing \ {"write", "rename"} => does[t] = "install"
                /\ task'[t].at \notin {"write", "rename"}
                /\ task[t].at \notin {"write", "rename", "record", "done"}

LEMMA ElsewhereKeeps ==
    ASSUME IInv, Owned, NEW t \in Tasks, Elsewhere(t), NoFile \notin Tasks
    PROVE  Owned'
<1>1. partial \in Tasks \cup {NoFile} /\ target \in Tasks \cup {NoFile}
  BY Parts DEF Filed
<1>2. partial # t /\ target # t
  BY <1>1 DEF Owned, Elsewhere
<1>3. \A u \in Tasks : task'[u].at \in Writing => does'[u] = "install"
  BY DEF Owned, Elsewhere, Alone, Writing
<1>4. partial' # NoFile =>
        does'[partial'] = "install" /\ task'[partial'].at \in {"write", "rename", "done"}
  BY <1>1, <1>2 DEF Owned, Elsewhere, Alone
<1>5. target' # NoFile => /\ does'[target'] = "install" /\ task'[target'].at \in {"record", "done"}
                          /\ content'[target'] # Broken
  BY <1>1, <1>2 DEF Owned, Elsewhere, Alone
<1>6. \A u \in Tasks :
        /\ task'[u].at = "write"  => task'[u].file = u /\ partial' = u /\ content'[u] = Broken
        /\ task'[u].at = "rename" => partial' = u /\ content'[u] # Broken
  BY DEF Owned, Elsewhere, Alone
<1> QED BY <1>3, <1>4, <1>5, <1>6 DEF Owned

LEMMA GoesElsewhere ==
    ASSUME TasksSound, NEW t \in Tasks, NEW s \in Stage \ {"write", "rename"}, Goes(t, s),
           s \in Writing => does[t] = "install",
           UNCHANGED <<content, partial, does>>, target' \in {target, NoFile},
           task[t].at \notin {"write", "rename", "record", "done"}
    PROVE  Elsewhere(t)
<1>1. task \in [Tasks -> Task]
  BY DEF TasksSound
<1>2. task'[t] = [task[t] EXCEPT !.at = s] /\ Alone(t)
  BY <1>1 DEF Goes, Alone
<1> QED BY <1>1, <1>2 DEF Elsewhere, Task

LEMMA NoFileIsNoTask == NoFile \notin Tasks
BY ConstantsAssumption

LEMMA OtherOwned ==
    ASSUME IInv, Owned, NEW t \in Tasks, Listing(t) \/ Joining(t) \/ Leaving(t)
    PROVE  Owned'
<1>1. TasksSound /\ task \in [Tasks -> Task] /\ task[t] \in Task
  BY Parts, Reads DEF TasksSound
<1>2. UNCHANGED <<content, partial, target, does>>
  BY DEF Listing, Refresh, Fetch, Accept, MarkRevoked, Joining, Join, Redeem, Floor, First, Undo,
         KeepToken, Upsert, DropOld, Leaving, Leave, Revoke, Revokes, Clear, RemoveStore, plugins,
         asked
<1>3. task[t].at \notin {"write", "rename", "record", "done"}
  BY DEF Listing, Refresh, Fetch, Accept, MarkRevoked, Joining, Join, Redeem, Floor, First, Undo,
         KeepToken, Upsert, DropOld, Leaving, Leave, Revoke, Revokes, Clear, RemoveStore, At
<1>4. ASSUME NEW s \in {"done", "refused", "token", "undo", "drop", "clear", "remove"}, Goes(t, s)
      PROVE  Owned'
  <2>1. s \in Stage \ {"write", "rename"} /\ s \notin Writing
    BY DEF Stage, Writing
  <2> QED BY <1>1, <1>2, <1>3, <1>4, <2>1, GoesElsewhere, ElsewhereKeeps, NoFileIsNoTask
<1>5. ASSUME Goes(t, "decide"), does[t] = "install" PROVE Owned'
  <2>1. "decide" \in Stage \ {"write", "rename"}
    BY DEF Stage
  <2> QED BY <1>1, <1>2, <1>3, <1>5, <2>1, GoesElsewhere, ElsewhereKeeps, NoFileIsNoTask
<1>7. CASE Refresh(t) \/ Join(t) \/ Leave(t)
  <2>1. task'[t].at \in {"done", "fetch", "redeem", "clear", "revoke"} /\ Alone(t)
    <3>1. CASE Refresh(t)
      BY <1>1, <3>1 DEF Refresh, Fresh, Alone
    <3>2. CASE Join(t)
      BY <1>1, <3>2 DEF Join, Fresh, Alone
    <3>3. CASE Leave(t)
      BY <1>1, <3>3 DEF Leave, Fresh, Alone
    <3> QED BY <1>7, <3>1, <3>2, <3>3
  <2>2. Elsewhere(t)
    BY <1>2, <1>3, <2>1 DEF Elsewhere, Writing
  <2> QED BY <2>2, ElsewhereKeeps, NoFileIsNoTask
<1>8. ASSUME \/ \E n : task' = [task EXCEPT ![t].at = "accept", ![t].got = n]
             \/ task' = [task EXCEPT ![t].at = "floor", ![t].token = t]
             \/ task' = [task EXCEPT ![t].at = "first", ![t].floor = Higher(@, remembered)]
             \/ \E n : task' = [task EXCEPT ![t].at = "token", ![t].got = n]
             \/ \E k : task' = [task EXCEPT ![t].at = "upsert", ![t].old = k]
      PROVE  Owned'
  <2>1. task'[t].at \in {"accept", "floor", "first", "token", "upsert"} /\ Alone(t)
    BY <1>1, <1>8 DEF Alone, Task
  <2>2. Elsewhere(t)
    BY <1>2, <1>3, <2>1 DEF Elsewhere, Writing
  <2> QED BY <2>2, ElsewhereKeeps, NoFileIsNoTask
<1>9. CASE Accept(t)
  <2>1. Goes(t, "done") \/ (does[t] = "install" /\ Goes(t, "decide"))
    <3>1. CASE does[t] = "install"
      BY <1>9, <3>1 DEF Accept
    <3>2. CASE does[t] # "install"
      BY <1>9, <3>2 DEF Accept
    <3> QED BY <3>1, <3>2
  <2> QED BY <1>4, <1>5, <2>1
<1>10. CASE Fetch(t) \/ MarkRevoked(t)
  BY <1>4, <1>8, <1>10 DEF Fetch, MarkRevoked
<1>11. CASE Redeem(t) \/ Floor(t) \/ First(t) \/ KeepToken(t)
  BY <1>4, <1>8, <1>11 DEF Redeem, Floor, First, KeepToken
<1>12. CASE Undo(t) \/ DropOld(t) \/ Revoke(t) \/ Clear(t) \/ RemoveStore(t)
  BY <1>4, <1>12 DEF Undo, DropOld, Revoke, Revokes, Clear, RemoveStore
<1>13. CASE Upsert(t)
  <2>1. Goes(t, "done") \/ Goes(t, "drop")
    BY <1>13 DEF Upsert
  <2> QED BY <1>4, <2>1
<1> QED BY <1>7, <1>9, <1>10, <1>11, <1>12, <1>13 DEF Listing, Joining, Leaving

LEMMA InstallingOwned ==
    ASSUME IInv, Owned, OneInstall, NEW t \in Tasks, Installing(t)
    PROVE  Owned'
<1>1. /\ TasksSound /\ task \in [Tasks -> Task] /\ task[t] \in Task
      /\ content \in [Tasks -> Content] /\ NoFile \notin Tasks
      /\ partial \in Tasks \cup {NoFile} /\ target \in Tasks \cup {NoFile}
  BY Parts, Reads, NoFileIsNoTask DEF TasksSound, Filed
<1>2. UNCHANGED does
  BY DEF Installing, Install, Decide, Download, OpenPartial, WritePartial, Rename, RecordInstall,
         Remove, ForgetInstall, asked
<1>3. \A u \in Tasks : does[t] = "install" /\ does[u] = "install" => u = t
  BY Parts DEF OneInstall, Asked
<1>4. ASSUME NEW s \in Stage \ {"write", "rename"}, Goes(t, s), s \in Writing => does[t] = "install",
             UNCHANGED <<content, partial>>, target' \in {target, NoFile},
             task[t].at \notin {"write", "rename", "record", "done"}
      PROVE  Owned'
  BY <1>1, <1>2, <1>4, GoesElsewhere, ElsewhereKeeps
<1>5. {"done", "open", "record", "forget"} \subseteq Stage \ {"write", "rename"}
  BY DEF Stage
<1>6. CASE Install(t)
  <2>1. task'[t].at = "fetch" /\ Alone(t)
    BY <1>1, <1>6 DEF Install, Alone, Fresh
  <2>2. Elsewhere(t)
    BY <1>2, <1>6, <2>1 DEF Install, Elsewhere, Writing, plugins, At
  <2> QED BY <1>1, <2>2, ElsewhereKeeps
<1>7. CASE Decide(t) \/ Download(t)
  <2>1. /\ UNCHANGED <<content, partial, target>> /\ task[t].at \in {"decide", "download"}
        /\ does[t] = "install"
    BY <1>7 DEF Decide, Download, At, plugins, Owned, Writing
  <2>2. ASSUME NEW now, task' = [task EXCEPT ![t].at = "download", ![t].entry = now]
        PROVE  Owned'
    <3>1. task'[t].at = "download" /\ Alone(t)
      BY <1>1, <2>2 DEF Alone, Task
    <3>2. Elsewhere(t)
      BY <1>2, <2>1, <3>1 DEF Elsewhere
    <3> QED BY <1>1, <3>2, ElsewhereKeeps
  <2>3. \/ Goes(t, "done") \/ Goes(t, "open")
        \/ \E now : task' = [task EXCEPT ![t].at = "download", ![t].entry = now]
    BY <1>7 DEF Decide, Download
  <2> QED BY <1>4, <1>5, <2>1, <2>2, <2>3
<1>8. CASE OpenPartial(t)
  <2>1. task[t].at = "open" /\ does[t] = "install"
    BY <1>8 DEF OpenPartial, At, Owned, Writing
  <2>2. partial = NoFile /\ target # t
    BY <1>1, <1>3, <2>1 DEF Owned
  <2>3. /\ partial' = t /\ content' = [content EXCEPT ![t] = Broken] /\ target' = target
        /\ task' = [task EXCEPT ![t].at = "write", ![t].file = t]
    BY <1>8, <2>2 DEF OpenPartial
  <2>4. task'[t].at = "write" /\ task'[t].file = t /\ Alone(t) /\ content'[t] = Broken
    BY <1>1, <2>3 DEF Alone, Task
  <2>5. \A u \in Tasks \ {t} : content'[u] = content[u]
    BY <1>1, <2>3
  <2>6. \A u \in Tasks \ {t} : task[u].at \notin {"write", "rename"}
    BY <1>3, <2>1 DEF Owned, Writing
  <2> QED BY <1>1, <1>2, <2>1, <2>2, <2>3, <2>4, <2>5, <2>6 DEF Owned, Alone
<1>9. CASE WritePartial(t)
  <2>1. /\ task[t].at = "write" /\ does[t] = "install" /\ task[t].file = t /\ partial = t
        /\ content[t] = Broken /\ task[t].entry \in Entry
    BY <1>1, <1>9 DEF WritePartial, At, Owned, Writing, TasksSound, Sound
  <2>2. partial' = t /\ target' = target /\ target # t
    BY <1>1, <1>9, <2>1 DEF WritePartial, Owned
  <2>3. \A u \in Tasks \ {t} : content'[u] = content[u] /\ task[u].at \notin {"write", "rename"}
    BY <1>1, <1>3, <1>9, <2>1 DEF WritePartial, Owned, Writing
  <2>4. /\ Alone(t) /\ task'[t].at \in {"rename", "done"}
        /\ task'[t].at = "rename" => content'[t] # Broken
    <3>1. CASE content' = [content EXCEPT ![t] = task[t].entry] /\ Goes(t, "rename")
      BY <1>1, <2>1, <3>1, EntryFacts DEF Goes, Alone, Task
    <3>2. CASE Goes(t, "done")
      BY <1>1, <3>2 DEF Goes, Alone, Task
    <3> QED BY <1>9, <2>1, <3>1, <3>2 DEF WritePartial
  <2> QED BY <1>1, <1>2, <2>1, <2>2, <2>3, <2>4 DEF Owned, Alone
<1>10. CASE Rename(t)
  <2>1. task[t].at = "rename" /\ does[t] = "install" /\ partial = t /\ content[t] # Broken
    BY <1>10 DEF Rename, At, Owned, Writing
  <2>2. Goes(t, "record") /\ target' = t /\ partial' = NoFile /\ UNCHANGED content
    BY <1>1, <1>10, <2>1 DEF Rename
  <2>3. task'[t].at = "record" /\ Alone(t)
    BY <1>1, <2>2 DEF Goes, Alone, Task
  <2>4. \A u \in Tasks \ {t} : task[u].at \notin {"write", "rename"}
    BY <1>3, <2>1 DEF Owned, Writing
  <2> QED BY <1>1, <1>2, <2>1, <2>2, <2>3, <2>4 DEF Owned, Alone
<1>11. CASE RecordInstall(t)
  <2>1. task[t].at = "record" /\ Goes(t, "done") /\ UNCHANGED <<target, partial, content>>
    BY <1>11 DEF RecordInstall, At, plugins
  <2>2. task'[t].at = "done" /\ Alone(t)
    BY <1>1, <2>1 DEF Goes, Alone, Task
  <2>3. partial # t
    BY <1>1, <2>1 DEF Owned
  <2> QED BY <1>1, <1>2, <2>1, <2>2, <2>3 DEF Owned, Alone, Writing
<1>12. CASE Remove(t) \/ ForgetInstall(t)
  <2>1. /\ task[t].at \in {"idle", "forget"} /\ UNCHANGED <<content, partial>>
        /\ target' \in {target, NoFile}
    BY <1>12 DEF Remove, ForgetInstall, At, plugins
  <2>2. Goes(t, "done") \/ Goes(t, "forget")
    BY <1>12 DEF Remove, ForgetInstall
  <2> QED BY <1>4, <1>5, <2>1, <2>2 DEF Writing
<1> QED BY <1>6, <1>7, <1>8, <1>9, <1>10, <1>11, <1>12 DEF Installing

LEMMA OwnedStep == IInv /\ Owned /\ OneInstall /\ [Next]_vars => Owned'
<1> SUFFICES ASSUME IInv, Owned, OneInstall, [Next]_vars PROVE Owned'
  OBVIOUS
<1>1. CASE UNCHANGED <<plugins, task, asked>>
  BY <1>1 DEF Owned, plugins, asked
<1>2. CASE Stop
  <2>1. UNCHANGED <<content, does, partial, target>>
    BY <1>2 DEF Stop, plugins, asked
  <2>2. /\ \A t \in Tasks : task'[t].at \in {"idle", "done"}
        /\ \A t \in Tasks : task[t].at # "idle" => task'[t].at = "done"
    BY <1>2 DEF Stop, At, Fresh
  <2>3. partial \in Tasks \cup {NoFile} /\ target \in Tasks \cup {NoFile}
    BY Parts DEF Filed
  <2> QED BY <2>1, <2>2, <2>3 DEF Owned, Writing
<1>3. ASSUME NEW t \in Tasks, Listing(t) \/ Installing(t) \/ Joining(t) \/ Leaving(t)
      PROVE  Owned'
  BY <1>3, OtherOwned, InstallingOwned
<1> QED BY <1>1, <1>2, <1>3 DEF Next, Publish, Evict, vars

(* The plugin's file is whole at every moment, where one install of it runs at a time:
   neither a cut write nor the end of the app leaves a broken file where the app loads one. *)
THEOREM WholeFile == ASSUME OneInstall PROVE Spec => []FileIsWhole
<1>1. Init => Owned
  BY DEF Init, Owned, Fresh, Writing
<1>2. IInv /\ Owned => FileIsWhole
  BY DEF Owned, FileIsWhole
<1>3. IInv /\ Owned /\ [Next]_vars => Owned'
  BY OwnedStep
<1> QED BY <1>1, <1>2, <1>3, InitInv, NextInv, PTL DEF Spec
=============================================================================
