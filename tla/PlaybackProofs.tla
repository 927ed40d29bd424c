---------------------------- MODULE PlaybackProofs ----------------------------
(***************************************************************************)
(* Theorems of Playback, for any number of playbacks and of acts of the    *)
(* viewer.                                                                 *)
(***************************************************************************)
EXTENDS Playback, WellFoundedInduction, TLAPS

-----------------------------------------------------------------------------
(* Type correctness, one part for each group of variables. *)

Tasks   == /\ last \in 0 .. MaxPlays /\ stopped \subseteq Plays
           /\ stage \in [Plays -> Stages] /\ inbox \in [Plays -> Seq(Controls)]
Frames  == /\ holds \in [Plays -> 0 .. MaxPlays] /\ slot \in 0 .. MaxPlays
           /\ open \subseteq Plays /\ told \subseteq open
Speech  == said \in Seq(Plays \X Words)
Screen  == front \in 0 .. MaxPlays /\ over \in [Plays -> 0 .. MaxPlays]
Past    == /\ acts \in 0 .. MaxActs /\ gaveWay \subseteq Plays
           /\ unwaited \in BOOLEAN /\ turnedDown \in 0 .. MaxPlays

Fits == Tasks /\ Frames /\ Speech /\ Screen /\ Past

LEMMA FitsIsTypeOK == Fits <=> TypeOK
BY DEF Fits, TypeOK, Tasks, Frames, Speech, Screen, Past

LEMMA UnchangedFits ==
    ASSUME Fits
    PROVE  /\ UNCHANGED tasks => Tasks'
           /\ UNCHANGED windows => Frames'
           /\ UNCHANGED said => Speech'
           /\ UNCHANGED screen => Screen'
           /\ UNCHANGED history => Past'
BY DEF Fits, Tasks, Frames, Speech, Screen, Past, tasks, windows, screen, history

(* A control delivered, and a task that is over, leave every channel one. *)
LEMMA DeliverFits ==
    ASSUME Fits, NEW p, p = 0 \/ p \in Plays, NEW c \in Controls
    PROVE  Deliver(inbox, p, c) \in [Plays -> Seq(Controls)]
<1>1. CASE Live(p)
  <2>1. p \in Plays
    BY <1>1 DEF Live
  <2>2. Append(inbox[p], c) \in Seq(Controls)
    BY <2>1 DEF Fits, Tasks
  <2> QED BY <1>1, <2>1, <2>2 DEF Deliver, Fits, Tasks
<1>2. CASE ~Live(p)
  BY <1>2 DEF Deliver, Fits, Tasks
<1> QED BY <1>1, <1>2

LEMMA OverFits ==
    ASSUME Fits, NEW p \in Plays, NEW box \in [Plays -> Seq(Controls)], Over(p, box)
    PROVE  stage' \in [Plays -> Stages] /\ inbox' \in [Plays -> Seq(Controls)]
BY DEF Over, Fits, Tasks, Stages

LEMMA SaysFits ==
    ASSUME Fits, NEW p \in Plays, NEW word \in Words, Says(p, word)
    PROVE  Speech'
BY DEF Says, Fits, Speech

LEMMA BeforeIsOne == \A p \in Plays : p - 1 = 0 \/ p - 1 \in Plays
BY PlaybackAssumption DEF Plays

LEMMA StartFits ==
    ASSUME Fits, NEW at \in Stages, NEW behind \in [Plays -> 0 .. MaxPlays],
           NEW shown \in 0 .. MaxPlays, Start(at, behind, shown)
    PROVE  /\ last' \in 0 .. MaxPlays /\ stage' \in [Plays -> Stages] /\ Screen'
           /\ last + 1 \in Plays
<1>1. last + 1 \in Plays /\ last' = last + 1
  BY PlaybackAssumption DEF Start, Fits, Tasks, Plays
<1>2. stage' \in [Plays -> Stages]
  BY <1>1 DEF Start, Enter, Fits, Tasks
<1>3. front' \in 0 .. MaxPlays /\ over' \in [Plays -> 0 .. MaxPlays]
  BY <1>1, PlaybackAssumption DEF Start, Plays
<1> QED BY <1>1, <1>2, <1>3 DEF Screen, Plays

LEMMA InitFits == Init => Fits
<1> SUFFICES ASSUME Init PROVE Fits
  OBVIOUS
<1>1. 0 \in 0 .. MaxPlays /\ 0 \in 0 .. MaxActs
  BY PlaybackAssumption
<1>2. Tasks
  BY <1>1 DEF Init, Tasks, Stages
<1>3. Frames /\ Screen /\ Past
  BY <1>1 DEF Init, Frames, Screen, Past
<1>4. Speech
  BY DEF Init, Speech
<1> QED BY <1>2, <1>3, <1>4 DEF Fits

LEMMA ViewerFits ==
    ASSUME Fits, Play \/ PlayLocal \/ Stop \/ (\E w \in Plays : CloseWindow(w) \/ WindowQuits(w))
                 \/ Expire
    PROVE  Fits'
<1>0. UNCHANGED windows => Frames'
  BY UnchangedFits
<1>1. CASE Play
  <2>1. Screen' /\ Tasks'
    <3>1. /\ last' \in 0 .. MaxPlays /\ stage' \in [Plays -> Stages] /\ Screen'
      BY <1>1, StartFits DEF Play, Stages, Fits, Screen
    <3> QED BY <3>1, <1>1 DEF Play, Fits, Tasks
  <2> QED BY <1>1, <2>1, UnchangedFits DEF Play, Fits
<1>2. CASE PlayLocal
  <2>1. /\ last' \in 0 .. MaxPlays /\ stage' \in [Plays -> Stages] /\ Screen'
    BY <1>2, StartFits DEF PlayLocal, Stages, Fits, Screen
  <2>2. last = 0 \/ last \in Plays
    BY DEF Fits, Tasks, Plays
  <2>3. inbox' \in [Plays -> Seq(Controls)]
    BY <1>2, <2>2, DeliverFits DEF PlayLocal, Controls
  <2>4. Tasks'
    BY <1>2, <2>1, <2>3 DEF PlayLocal, Fits, Tasks
  <2>5. unwaited' \in BOOLEAN
    BY <1>2 DEF PlayLocal, Fits, Past, Live
  <2>6. acts' \in 0 .. MaxActs
    BY <1>2, PlaybackAssumption DEF PlayLocal, Act, Fits, Past
  <2>7. Past'
    BY <1>2, <2>5, <2>6 DEF PlayLocal, Fits, Past
  <2> QED BY <1>2, <2>1, <2>4, <2>7, UnchangedFits DEF PlayLocal, Fits
<1>3. CASE Stop
  <2>1. last \in Plays
    BY <1>3 DEF Stop, Fits, Tasks, Plays
  <2>2. inbox' \in [Plays -> Seq(Controls)]
    BY <1>3, <2>1, DeliverFits DEF Stop, Controls
  <2>3. Tasks'
    BY <1>3, <2>1, <2>2 DEF Stop, Fits, Tasks
  <2>4. acts' \in 0 .. MaxActs
    BY <1>3, PlaybackAssumption DEF Stop, Act, Fits, Past
  <2>5. Past'
    BY <1>3, <2>4 DEF Stop, Fits, Past, Tasks
  <2> QED BY <1>3, <2>3, <2>5, UnchangedFits DEF Stop, Fits
<1>4. ASSUME NEW w \in Plays, CloseWindow(w)
      PROVE  Fits'
  <2>1. acts' \in 0 .. MaxActs
    BY <1>4, PlaybackAssumption DEF CloseWindow, Act, Fits, Past
  <2>2. Past'
    BY <1>4, <2>1 DEF CloseWindow, Fits, Past
  <2>3. Frames'
    BY <1>4 DEF CloseWindow, Fits, Frames
  <2> QED BY <1>4, <2>2, <2>3, UnchangedFits DEF CloseWindow, Fits
<1>5. ASSUME NEW w \in Plays, WindowQuits(w)
      PROVE  Fits'
  <2>1. Frames'
    BY <1>5 DEF WindowQuits, Fits, Frames
  <2> QED BY <1>5, <2>1, UnchangedFits DEF WindowQuits, Fits
<1>6. CASE Expire
  <2>1. Frames'
    BY <1>6, PlaybackAssumption DEF Expire, Release, Tell, Fits, Frames
  <2> QED BY <1>6, <2>1, UnchangedFits DEF Expire, Fits
<1> QED BY <1>1, <1>2, <1>3, <1>4, <1>5, <1>6

LEMMA SearchFits ==
    ASSUME Fits, NEW p \in Plays,
           \/ StopFound(p) \/ GiveWay(p) \/ Found(p) \/ Keep(p) \/ Fail(p)
           \/ Hand(p) \/ Handed(p) \/ Relay(p) \/ RelayEnds(p)
    PROVE  Fits'
<1>0. inbox \in [Plays -> Seq(Controls)] /\ (p - 1 = 0 \/ p - 1 \in Plays)
  BY BeforeIsOne DEF Fits, Tasks
<1>r. ASSUME Release, open' = open, holds' = holds
      PROVE  Frames'
  BY <1>r, PlaybackAssumption DEF Release, Tell, Fits, Frames
<1>1. CASE StopFound(p)
  <2>1. Deliver(inbox, p - 1, "stop") \in [Plays -> Seq(Controls)]
    BY <1>0, DeliverFits DEF Controls
  <2>2. stage' \in [Plays -> Stages] /\ inbox' \in [Plays -> Seq(Controls)]
    BY <1>1, <2>1, OverFits DEF StopFound
  <2>3. Tasks'
    BY <1>1, <2>2 DEF StopFound, Fits, Tasks
  <2>4. Frames'
    BY <1>1, <1>r DEF StopFound
  <2>5. Speech'
    BY <1>1, SaysFits DEF StopFound, Words
  <2>6. Past'
    BY <1>1 DEF StopFound, Fits, Past, Live
  <2> QED BY <1>1, <2>3, <2>4, <2>5, <2>6, UnchangedFits DEF StopFound, Fits
<1>2. CASE GiveWay(p)
  <2>1. Tasks'
    BY <1>2 DEF GiveWay, Enter, Fits, Tasks, Stages
  <2>2. Past'
    BY <1>2 DEF GiveWay, Fits, Past
  <2> QED BY <1>2, <2>1, <2>2, UnchangedFits DEF GiveWay, Fits
<1>3. CASE Found(p)
  <2>1. Tasks'
    BY <1>3 DEF Found, Enter, Fits, Tasks, Stages
  <2> QED BY <1>3, <2>1, UnchangedFits DEF Found, Fits
<1>4. CASE Keep(p)
  <2>1. Tasks'
    BY <1>4 DEF Keep, Enter, Fits, Tasks, Stages
  <2>2. Speech'
    BY <1>4, SaysFits DEF Keep, Words
  <2> QED BY <1>4, <2>1, <2>2, UnchangedFits DEF Keep, Fits
<1>5. CASE Fail(p)
  <2>1. stage' \in [Plays -> Stages] /\ inbox' \in [Plays -> Seq(Controls)]
    BY <1>5, <1>0, OverFits DEF Fail
  <2>2. Tasks'
    BY <1>5, <2>1 DEF Fail, Fits, Tasks
  <2>3. Frames'
    BY <1>5, <1>r DEF Fail
  <2>4. Speech'
    BY <1>5, SaysFits DEF Fail, Words
  <2> QED BY <1>5, <2>2, <2>3, <2>4, UnchangedFits DEF Fail, Fits
<1>6. CASE Hand(p)
  <2>1. inbox' \in [Plays -> Seq(Controls)]
    BY <1>6, <1>0, DeliverFits DEF Hand, Controls
  <2>2. Tasks'
    BY <1>6, <2>1 DEF Hand, Enter, Fits, Tasks, Stages
  <2> QED BY <1>6, <2>2, UnchangedFits DEF Hand, Fits
<1>7. CASE Handed(p)
  <2>0. unwaited' \in BOOLEAN
    BY <1>7 DEF Handed, Fits, Past, Live
  <2>1. CASE Over(p, inbox) /\ Release /\ Says(p, "ended") /\ UNCHANGED gaveWay
    <3>1. stage' \in [Plays -> Stages] /\ inbox' \in [Plays -> Seq(Controls)]
      BY <2>1, <1>0, OverFits
    <3>2. Tasks'
      BY <1>7, <3>1 DEF Handed, Fits, Tasks
    <3>3. Frames'
      BY <1>7, <2>1, <1>r DEF Handed
    <3>4. Speech'
      BY <2>1, SaysFits DEF Words
    <3>5. Past'
      BY <1>7, <2>0, <2>1 DEF Handed, Fits, Past
    <3> QED BY <1>7, <3>2, <3>3, <3>4, <3>5, UnchangedFits DEF Handed, Fits
  <2>2. CASE Over(p, inbox) /\ gaveWay' = gaveWay \cup {p} /\ UNCHANGED <<slot, told, said>>
    <3>1. stage' \in [Plays -> Stages] /\ inbox' \in [Plays -> Seq(Controls)]
      BY <2>2, <1>0, OverFits
    <3>2. Tasks'
      BY <1>7, <3>1 DEF Handed, Fits, Tasks
    <3>3. Frames'
      BY <1>7, <2>2, UnchangedFits DEF Handed, windows
    <3>5. Past'
      BY <1>7, <2>0, <2>2 DEF Handed, Fits, Past
    <3> QED BY <1>7, <2>2, <3>2, <3>3, <3>5, UnchangedFits DEF Handed, Fits
  <2>3. CASE Enter(p, "opening") /\ UNCHANGED <<inbox, slot, told, said, gaveWay>>
    <3>2. Tasks'
      BY <1>7, <2>3 DEF Handed, Enter, Fits, Tasks, Stages
    <3>3. Frames'
      BY <1>7, <2>3, UnchangedFits DEF Handed, windows
    <3>5. Past'
      BY <1>7, <2>0, <2>3 DEF Handed, Fits, Past
    <3> QED BY <1>7, <2>3, <3>2, <3>3, <3>5, UnchangedFits DEF Handed, Fits
  <2> QED BY <1>7, <2>1, <2>2, <2>3 DEF Handed
<1>8. CASE Relay(p)
  <2>1. Head(inbox[p]) \in Controls /\ Tail(inbox[p]) \in Seq(Controls)
    BY <1>8, <1>0 DEF Relay
  <2>2. Deliver(inbox, p - 1, Head(inbox[p])) \in [Plays -> Seq(Controls)]
    BY <2>1, <1>0, DeliverFits
  <2>3. Deliver(inbox, p - 1, Head(inbox[p]))[p] = inbox[p]
    BY <1>0 DEF Deliver, Plays
  <2>4. inbox' \in [Plays -> Seq(Controls)]
    BY <1>8, <2>1, <2>2, <2>3 DEF Relay
  <2>5. Tasks'
    BY <1>8, <2>4 DEF Relay, Fits, Tasks
  <2> QED BY <1>8, <2>5, UnchangedFits DEF Relay, Fits
<1>9. CASE RelayEnds(p)
  <2>1. stage' \in [Plays -> Stages] /\ inbox' \in [Plays -> Seq(Controls)]
    BY <1>9, <1>0, OverFits DEF RelayEnds
  <2>2. Tasks'
    BY <1>9, <2>1 DEF RelayEnds, Fits, Tasks
  <2> QED BY <1>9, <2>2, UnchangedFits DEF RelayEnds, Fits
<1> QED BY <1>1, <1>2, <1>3, <1>4, <1>5, <1>6, <1>7, <1>8, <1>9

LEMMA SessionFits ==
    ASSUME Fits, NEW p \in Plays,
           \/ TakeWindow(p) \/ OpenWindow(p) \/ OpenFails(p) \/ ReadStop(p)
           \/ ReadHandover(p) \/ Leave(p) \/ EndRolling(p) \/ End(p) \/ SayEnding(p)
    PROVE  Fits'
<1>0. inbox \in [Plays -> Seq(Controls)] /\ p \in 0 .. MaxPlays /\ 0 \in 0 .. MaxPlays
  BY PlaybackAssumption DEF Fits, Tasks, Plays
<1>i. inbox[p] # <<>> => /\ Head(inbox[p]) \in Controls
                         /\ Tail(inbox[p]) \in Seq(Controls)
  BY <1>0
<1>1. CASE TakeWindow(p)
  <2>1. Tasks'
    BY <1>1 DEF TakeWindow, Enter, Fits, Tasks, Stages
  <2>2. Frames'
    BY <1>1, <1>0 DEF TakeWindow, Fits, Frames
  <2> QED BY <1>1, <2>1, <2>2, UnchangedFits DEF TakeWindow, Fits
<1>2. CASE OpenWindow(p)
  <2>1. Tasks'
    BY <1>2 DEF OpenWindow, Enter, Fits, Tasks, Stages
  <2>2. Frames'
    BY <1>2, <1>0 DEF OpenWindow, Fits, Frames
  <2> QED BY <1>2, <2>1, <2>2, UnchangedFits DEF OpenWindow, Fits
<1>3. CASE OpenFails(p)
  <2>1. stage' \in [Plays -> Stages] /\ inbox' \in [Plays -> Seq(Controls)]
    BY <1>3, <1>0, OverFits DEF OpenFails
  <2>2. Tasks'
    BY <1>3, <2>1 DEF OpenFails, Fits, Tasks
  <2>3. Frames'
    BY <1>3, <1>0 DEF OpenFails, Fits, Frames
  <2>4. Speech'
    BY <1>3, SaysFits DEF OpenFails, Words
  <2> QED BY <1>3, <2>2, <2>3, <2>4, UnchangedFits DEF OpenFails, Fits
<1>4. CASE ReadStop(p)
  <2>1. Tasks'
    BY <1>4, <1>i DEF ReadStop, Fits, Tasks
  <2>2. Frames'
    BY <1>4 DEF ReadStop, Tell, Fits, Frames
  <2> QED BY <1>4, <2>1, <2>2, UnchangedFits DEF ReadStop, Fits
<1>5. CASE ReadHandover(p)
  <2>1. Tasks'
    BY <1>5, <1>i DEF ReadHandover, Enter, Fits, Tasks, Stages
  <2>2. Speech'
    BY <1>5, SaysFits DEF ReadHandover, Words
  <2> QED BY <1>5, <2>1, <2>2, UnchangedFits DEF ReadHandover, Fits
<1>6. CASE Leave(p)
  <2>1. stage' \in [Plays -> Stages] /\ inbox' \in [Plays -> Seq(Controls)]
    BY <1>6, <1>0, OverFits DEF Leave
  <2>2. Tasks'
    BY <1>6, <2>1 DEF Leave, Fits, Tasks
  <2>3. Frames'
    BY <1>6, <1>0 DEF Leave, Park, Tell, Fits, Frames
  <2> QED BY <1>6, <2>2, <2>3, UnchangedFits DEF Leave, Fits
<1>7. CASE EndRolling(p)
  <2>1. Tasks'
    BY <1>7 DEF EndRolling, Enter, Fits, Tasks, Stages
  <2>2. Frames'
    BY <1>7, <1>0 DEF EndRolling, Park, Tell, Fits, Frames
  <2> QED BY <1>7, <2>1, <2>2, UnchangedFits DEF EndRolling, Fits
<1>8. CASE End(p)
  <2>1. Tasks'
    BY <1>8 DEF End, Enter, Fits, Tasks, Stages
  <2>2. Frames'
    BY <1>8, <1>0 DEF End, Tell, Fits, Frames
  <2> QED BY <1>8, <2>1, <2>2, UnchangedFits DEF End, Fits
<1>9. CASE SayEnding(p)
  <2>1. stage' \in [Plays -> Stages] /\ inbox' \in [Plays -> Seq(Controls)]
    BY <1>9, <1>0, OverFits DEF SayEnding
  <2>2. Tasks'
    BY <1>9, <2>1 DEF SayEnding, Fits, Tasks
  <2>3. Speech'
    BY <1>9, SaysFits DEF SayEnding, Words
  <2> QED BY <1>9, <2>2, <2>3, UnchangedFits DEF SayEnding, Fits
<1> QED BY <1>1, <1>2, <1>3, <1>4, <1>5, <1>6, <1>7, <1>8, <1>9

LEMMA ObserveFits ==
    ASSUME Fits, Observe
    PROVE  Fits'
<1> DEFINE p == Head(said)[1]
<1>1. p \in Plays /\ Head(said)[2] \in Words /\ Speech'
  BY DEF Observe, Fits, Speech
<1>2. LetGo(p) \in [Plays -> 0 .. MaxPlays] /\ 0 \in 0 .. MaxPlays
  BY <1>1, PlaybackAssumption DEF LetGo, Fits, Screen
<1>3. ASSUME TakeDown(p)
      PROVE  Screen' /\ Tasks'
  BY <1>3, <1>2 DEF TakeDown, Observe, Fits, Screen, Tasks
<1>4. ASSUME GoBack(p)
      PROVE  Screen' /\ Tasks'
  BY <1>1, <1>4, <1>2 DEF GoBack, Observe, Fits, Screen, Tasks
<1>5. ASSUME RollOn(p)
      PROVE  Screen' /\ Tasks'
  <2>1. CASE Start("finding", LetGo(p), 0)
    <3>1. last' \in 0 .. MaxPlays /\ stage' \in [Plays -> Stages] /\ Screen'
      BY <2>1, <1>2, StartFits DEF Stages
    <3> QED BY <3>1 DEF Observe, Fits, Tasks
  <2> QED BY <1>5, <2>1, <1>3 DEF RollOn
<1>6. Screen' /\ Tasks'
  BY <1>3, <1>4, <1>5 DEF Observe
<1> QED BY <1>1, <1>6, UnchangedFits DEF Observe, Fits

LEMMA NextFits ==
    ASSUME Fits, [Next]_vars
    PROVE  Fits'
<1>1. CASE UNCHANGED vars
  BY <1>1, UnchangedFits DEF vars, Fits
<1>2. CASE Next
  <2>1. CASE Play \/ PlayLocal \/ Stop \/ (\E w \in Plays : CloseWindow(w) \/ WindowQuits(w))
             \/ Expire
    BY <2>1, ViewerFits
  <2>2. ASSUME NEW p \in Plays, Task(p) \/ EndRolling(p) \/ End(p)
        PROVE  Fits'
    BY <2>2, SearchFits, SessionFits DEF Task, Gone
  <2>3. CASE Observe
    BY <2>3, ObserveFits
  <2> QED BY <1>2, <2>1, <2>2, <2>3 DEF Next
<1> QED BY <1>1, <1>2

(* Playbacks, windows and what is said of them are what they are declared to be: TypeOK. *)
THEOREM TypeCorrect == Spec => []TypeOK
<1>1. Init => Fits
  BY InitFits
<1>2. Fits /\ [Next]_vars => Fits'
  BY NextFits
<1>3. Fits => TypeOK
  BY FitsIsTypeOK
<1> QED BY <1>1, <1>2, <1>3, PTL DEF Spec

-----------------------------------------------------------------------------
(* One window.  As long as no playback goes on without waiting for the one before it, a      *)
(* playback that has come to opening its player has none before it that is not over.  So one *)
(* task at most holds a window, and while it does none is parked.                            *)

Opened == {"opening", "playing", "leaving", "rolled", "closed", "over"}

Numbered == \A p \in Plays : stage[p] = "none" <=> p > last

Chain == \A p, q \in Plays : q < p /\ stage[p] \in Opened => stage[q] = "over"

Holders == \A p \in Plays : holds[p] # 0 => /\ stage[p] \in {"playing", "leaving"}
                                           /\ slot = 0

Kept == \A w \in open \ told : w = slot \/ \E p \in Plays : holds[p] = w

InTurn == Numbered /\ (~unwaited => Chain /\ Holders /\ Kept)

IInv == Fits /\ InTurn

LEMMA OneHolder ==
    ASSUME Fits, Chain, Holders, NEW p \in Plays, NEW q \in Plays, p # q,
           stage[p] \in {"playing", "leaving"}
    PROVE  holds[q] = 0
<1>1. p < q \/ q < p
  BY DEF Plays
<1> QED BY <1>1 DEF Chain, Holders, Opened

LEMMA InTurnIsOneWindow == IInv => OneWindow
<1> SUFFICES ASSUME IInv, ~unwaited, NEW v \in open \ told, NEW w \in open \ told
             PROVE  v = w
  BY DEF OneWindow
<1>0. Fits /\ Chain /\ Holders /\ Kept /\ v # 0 /\ w # 0
  BY DEF IInv, InTurn, Fits, Frames, Plays
<1>1. CASE v = slot
  BY <1>0, <1>1 DEF Kept, Holders
<1>2. ASSUME NEW p \in Plays, holds[p] = v
      PROVE  v = w
  <2>1. stage[p] \in {"playing", "leaving"} /\ slot = 0
    BY <1>0, <1>2 DEF Holders
  <2>2. PICK q \in Plays : holds[q] = w
    BY <1>0, <2>1 DEF Kept
  <2>3. p = q
    BY <1>0, <2>1, <2>2, OneHolder
  <2> QED BY <1>2, <2>2, <2>3
<1> QED BY <1>0, <1>1, <1>2 DEF Kept

(* The playback before is over, or there is none: so are all before it. *)
LEMMA AllBefore ==
    ASSUME Fits, Numbered, Chain, NEW p \in Plays, p <= last \/ p = last + 1, ~Live(p - 1)
    PROVE  \A q \in Plays : q < p => stage[q] = "over"
<1>1. CASE p = 1
  BY <1>1 DEF Plays
<1>2. CASE p # 1
  <2>1. p - 1 \in Plays /\ p - 1 <= last /\ p - 1 # 0
    BY <1>2, PlaybackAssumption DEF Plays, Fits, Tasks
  <2>2. stage[p - 1] = "over"
    BY <2>1 DEF Live, Numbered, Fits, Tasks, Plays
  <2>3. \A q \in Plays : q < p => q = p - 1 \/ q < p - 1
    BY DEF Plays
  <2> QED BY <2>1, <2>2, <2>3 DEF Chain, Opened
<1> QED BY <1>1, <1>2

(* A task moves from one stage to another: into the opened ones only with all before it over. *)
LEMMA Moves ==
    ASSUME Fits, Numbered, NEW p \in Plays, NEW at \in Stages \ {"none"},
           stage' = [stage EXCEPT ![p] = at], stage[p] \notin {"none", "over"}, last' = last
    PROVE  /\ Numbered'
           /\ /\ Chain
              /\ \/ at \notin Opened
                 \/ stage[p] \in Opened
                 \/ \A q \in Plays : q < p => stage[q] = "over"
              => Chain'
<1>1. \A q \in Plays : stage'[q] = IF q = p THEN at ELSE stage[q]
  BY DEF Fits, Tasks
<1>2. Numbered'
  BY <1>1 DEF Numbered
<1>3. ASSUME Chain,
             \/ at \notin Opened
             \/ stage[p] \in Opened
             \/ \A q \in Plays : q < p => stage[q] = "over",
             NEW r \in Plays, NEW q \in Plays, q < r, stage'[r] \in Opened
      PROVE  stage'[q] = "over"
  <2>1. CASE r = p
    BY <1>1, <1>3, <2>1 DEF Chain, Plays
  <2>2. CASE r # p
    <3>1. stage[q] = "over"
      BY <1>1, <1>3, <2>2 DEF Chain
    <3> QED BY <1>1, <3>1
  <2> QED BY <2>1, <2>2
<1> QED BY <1>2, <1>3 DEF Chain

(* Steps that leave the windows alone, of a task that holds none or keeps the one it has. *)
LEMMA SameWindows ==
    ASSUME Fits, Holders, Kept, UNCHANGED windows,
           \A p \in Plays : holds[p] # 0 => stage'[p] \in {"playing", "leaving"}
    PROVE  Holders' /\ Kept'
BY DEF Fits, Frames, Holders, Kept, windows

(* The parked window is told to close: nothing else about windows changes. *)
LEMMA Released ==
    ASSUME Fits, Holders, Kept, Release, UNCHANGED <<holds, open>>,
           \A p \in Plays : holds[p] # 0 => stage'[p] \in {"playing", "leaving"}
    PROVE  Holders' /\ Kept'
BY DEF Release, Tell, Fits, Frames, Holders, Kept

LEMMA SearchInTurn ==
    ASSUME IInv, NEW p \in Plays,
           \/ StopFound(p) \/ GiveWay(p) \/ Found(p) \/ Keep(p) \/ Fail(p)
           \/ Hand(p) \/ Handed(p) \/ Relay(p) \/ RelayEnds(p)
    PROVE  InTurn'
<1>0. Fits /\ Numbered /\ (~unwaited => Chain /\ Holders /\ Kept)
  BY DEF IInv, InTurn
<1>1. CASE Relay(p)
  <2>1. Numbered' /\ (Chain => Chain')
    BY <1>0, <1>1 DEF Relay, Numbered, Chain
  <2>2. Holders /\ Kept => Holders' /\ Kept'
    BY <1>0, <1>1, SameWindows DEF Relay, Holders
  <2> QED BY <1>0, <1>1, <2>1, <2>2 DEF Relay, InTurn, history
<1>2. ASSUME NEW at \in Stages \ {"none"}, Enter(p, at), UNCHANGED last, 
             stage[p] \in {"finding", "found", "handing", "relaying"},
             ~unwaited' => ~unwaited,
             at \notin Opened \/ (~unwaited' => ~Live(p - 1)),
             UNCHANGED windows \/ (Release /\ UNCHANGED <<holds, open>>)
      PROVE  InTurn'
  <2>1. p <= last
    BY <1>0, <1>2 DEF Numbered, Plays, Fits, Tasks
  <2>2. Numbered' /\ (~unwaited' => Chain')
    BY <1>0, <1>2, <2>1, Moves, AllBefore DEF Enter
  <2>3. ASSUME ~unwaited'
        PROVE  \A q \in Plays : holds[q] # 0 => stage'[q] \in {"playing", "leaving"}
    BY <1>0, <1>2, <2>3 DEF Holders, Enter, Fits, Tasks
  <2>4. ~unwaited' => Holders' /\ Kept'
    BY <1>0, <1>2, <2>3, SameWindows, Released
  <2> QED BY <2>2, <2>4 DEF InTurn
<1>3. CASE StopFound(p) \/ Fail(p)
  <2>1. /\ Enter(p, "over") /\ UNCHANGED last /\ stage[p] = "finding"
        /\ Release /\ UNCHANGED <<holds, open>>
    BY <1>3 DEF StopFound, Fail, Over, Enter
  <2>2. ~unwaited' => ~unwaited /\ ~Live(p - 1)
    BY <1>3 DEF StopFound, Fail, history
  <2> QED BY <1>2, <2>1, <2>2 DEF Stages
<1>4. CASE GiveWay(p) \/ Found(p) \/ Keep(p) \/ Hand(p)
  BY <1>2, <1>4 DEF GiveWay, Found, Keep, Hand, history, Stages, Opened, Enter
<1>5. CASE Handed(p)
  <2>1. UNCHANGED windows \/ (Release /\ UNCHANGED <<holds, open>>)
    BY <1>5 DEF Handed, windows
  <2>2. Enter(p, "over") \/ Enter(p, "opening")
    BY <1>5 DEF Handed, Over, Enter
  <2> QED BY <1>2, <1>5, <2>1, <2>2 DEF Handed, Stages
<1>6. CASE RelayEnds(p)
  <2>1. p <= last /\ stage[p] = "relaying"
    BY <1>0, <1>6 DEF RelayEnds, Numbered, Plays, Fits, Tasks
  <2>2. ASSUME ~unwaited
        PROVE  ~Live(p - 1)
    <3>1. CASE ~Held(p)
      <4>1. p + 1 \in Plays /\ p + 1 <= last
        <5>1. last \in Nat /\ last <= MaxPlays /\ p \in Nat /\ p # last
          BY <1>0, <3>1, PlaybackAssumption DEF Held, Plays, Fits, Tasks
        <5> QED BY <2>1, <5>1, PlaybackAssumption DEF Plays
      <4>2. stage[p + 1] \in Opened
        BY <1>0, <3>1, <4>1 DEF Held, Numbered, Fits, Tasks, Stages, Opened, Plays
      <4> QED BY <1>0, <2>1, <2>2, <4>1, <4>2 DEF Chain, Plays
    <3> QED BY <1>6, <3>1 DEF RelayEnds
  <2> QED BY <1>2, <1>6, <2>2 DEF RelayEnds, Over, Enter, history, Stages
<1> QED BY <1>1, <1>3, <1>4, <1>5, <1>6

LEMMA SessionInTurn ==
    ASSUME IInv, NEW p \in Plays,
           \/ TakeWindow(p) \/ OpenWindow(p) \/ OpenFails(p) \/ ReadStop(p)
           \/ ReadHandover(p) \/ Leave(p) \/ EndRolling(p) \/ End(p) \/ SayEnding(p)
    PROVE  InTurn'
<1>0. Fits /\ Numbered /\ (~unwaited => Chain /\ Holders /\ Kept)
  BY DEF IInv, InTurn
<1>u. UNCHANGED unwaited
  BY DEF TakeWindow, OpenWindow, OpenFails, ReadStop, ReadHandover, Leave, EndRolling, End,
         SayEnding, history
<1>1. ASSUME NEW at \in Opened, Enter(p, at), UNCHANGED last,
             stage[p] \in Opened \ {"over"}
      PROVE  Numbered' /\ (~unwaited' => Chain')
  BY <1>0, <1>u, <1>1, Moves DEF Enter, Opened, Stages
<1>2. ASSUME Numbered' /\ (~unwaited' => Chain'), ~unwaited => Holders' /\ Kept'
      PROVE  InTurn'
  BY <1>u, <1>2 DEF InTurn
<1>3. ASSUME ~unwaited, stage[p] \in {"playing", "leaving"}
      PROVE  \A q \in Plays : q # p => holds[q] = 0
  BY <1>0, <1>3, OneHolder
<1>4. CASE TakeWindow(p)
  <2>1. Numbered' /\ (~unwaited' => Chain')
    BY <1>1, <1>4 DEF TakeWindow, Opened
  <2>2. ASSUME ~unwaited
        PROVE  Holders' /\ Kept'
    <3>1. slot # 0 /\ \A q \in Plays : holds[q] = 0
      BY <1>0, <1>4, <2>2 DEF TakeWindow, Holders, Fits, Frames, Plays
    <3> QED BY <1>0, <1>4, <2>2, <3>1
            DEF TakeWindow, Enter, Holders, Kept, Fits, Frames, Tasks
  <2> QED BY <1>2, <2>1, <2>2
<1>5. CASE OpenWindow(p)
  <2>1. Numbered' /\ (~unwaited' => Chain')
    BY <1>1, <1>5 DEF OpenWindow, Opened
  <2>2. ASSUME ~unwaited
        PROVE  Holders' /\ Kept'
    BY <1>0, <1>5, <2>2 DEF OpenWindow, Enter, Holders, Kept, Fits, Frames, Tasks
  <2> QED BY <1>2, <2>1, <2>2
<1>6. CASE OpenFails(p)
  <2>1. Numbered' /\ (~unwaited' => Chain')
    BY <1>1, <1>6 DEF OpenFails, Over, Enter, Opened
  <2>2. ASSUME ~unwaited
        PROVE  Holders' /\ Kept'
    BY <1>0, <1>6, <2>2 DEF OpenFails, Over, Holders, Kept, Fits, Frames, Tasks
  <2> QED BY <1>2, <2>1, <2>2
<1>7. CASE ReadStop(p)
  <2>1. Numbered' /\ (~unwaited' => Chain')
    BY <1>0, <1>u, <1>7 DEF ReadStop, Numbered, Chain
  <2>2. ASSUME ~unwaited
        PROVE  Holders' /\ Kept'
    BY <1>0, <1>7, <2>2 DEF ReadStop, Tell, Holders, Kept, Fits, Frames, Tasks
  <2> QED BY <1>2, <2>1, <2>2
<1>8. CASE ReadHandover(p)
  <2>1. Numbered' /\ (~unwaited' => Chain')
    BY <1>1, <1>8 DEF ReadHandover, Opened
  <2>2. ASSUME ~unwaited
        PROVE  Holders' /\ Kept'
    <3>1. \A q \in Plays : holds[q] # 0 => stage'[q] \in {"playing", "leaving"}
      BY <1>0, <1>8, <2>2 DEF ReadHandover, Enter, Holders, Fits, Tasks
    <3> QED BY <1>0, <1>8, <2>2, <3>1, SameWindows DEF ReadHandover
  <2> QED BY <1>2, <2>1, <2>2
<1>9. CASE Leave(p) \/ EndRolling(p)
  <2>1. Numbered' /\ (~unwaited' => Chain')
    BY <1>1, <1>9 DEF Leave, EndRolling, Over, Enter, Opened
  <2>2. ASSUME ~unwaited
        PROVE  Holders' /\ Kept'
    <3>1. \A q \in Plays : q # p => holds[q] = 0
      BY <1>3, <1>9, <2>2 DEF Leave, EndRolling
    <3> QED BY <1>0, <1>9, <2>2, <3>1
            DEF Leave, EndRolling, Park, Tell, Holders, Kept, Fits, Frames
  <2> QED BY <1>2, <2>1, <2>2
<1>10. CASE End(p)
  <2>1. Numbered' /\ (~unwaited' => Chain')
    BY <1>1, <1>10 DEF End, Opened
  <2>2. ASSUME ~unwaited
        PROVE  Holders' /\ Kept'
    BY <1>0, <1>10, <2>2 DEF End, Enter, Tell, Holders, Kept, Fits, Frames, Tasks
  <2> QED BY <1>2, <2>1, <2>2
<1>11. CASE SayEnding(p)
  <2>1. Numbered' /\ (~unwaited' => Chain')
    BY <1>1, <1>11 DEF SayEnding, Over, Enter, Opened
  <2>2. ASSUME ~unwaited
        PROVE  Holders' /\ Kept'
    <3>1. \A q \in Plays : holds[q] # 0 => stage'[q] \in {"playing", "leaving"}
      BY <1>0, <1>11, <2>2 DEF SayEnding, Over, Holders, Fits, Tasks
    <3> QED BY <1>0, <1>11, <2>2, <3>1, SameWindows DEF SayEnding
  <2> QED BY <1>2, <2>1, <2>2
<1> QED BY <1>4, <1>5, <1>6, <1>7, <1>8, <1>9, <1>10, <1>11

(* A playback that starts: the first of its number, with the one before it over if nobody
   waits for that one. *)
LEMMA StartInTurn ==
    ASSUME IInv, NEW at \in {"finding", "opening"}, NEW behind, NEW shown,
           Start(at, behind, shown), UNCHANGED windows,
           ~unwaited' => ~unwaited /\ (at = "finding" \/ ~Live(last))
    PROVE  InTurn'
<1>0. Fits /\ Numbered /\ (~unwaited => Chain /\ Holders /\ Kept)
  BY DEF IInv, InTurn
<1>1. last + 1 \in Plays /\ last' = last + 1 /\ stage[last + 1] = "none"
  BY <1>0, PlaybackAssumption DEF Start, Fits, Tasks, Plays, Numbered
<1>2. \A q \in Plays : stage'[q] = IF q = last + 1 THEN at ELSE stage[q]
  BY <1>0 DEF Start, Enter, Fits, Tasks
<1>3. Numbered'
  BY <1>0, <1>1, <1>2 DEF Numbered, Plays, Fits, Tasks
<1>4. ASSUME ~unwaited'
      PROVE  Chain' /\ Holders' /\ Kept'
  <2>1. Chain /\ Holders /\ Kept
    BY <1>0, <1>4
  <2>2. at = "opening" => \A q \in Plays : q < last + 1 => stage[q] = "over"
    <3>1. CASE Live(last)
      BY <1>4, <3>1
    <3>2. CASE ~Live(last)
      <4>1. ASSUME NEW p \in Plays, p = last + 1
            PROVE  \A q \in Plays : q < p => stage[q] = "over"
        <5>1. p - 1 = last
          BY <1>0, <4>1 DEF Fits, Tasks
        <5>2. ~Live(p - 1)
          BY <3>2, <5>1
        <5> QED BY <1>0, <2>1, <4>1, <5>2, AllBefore
      <4> QED BY <1>1, <4>1
    <3> QED BY <3>1, <3>2
  <2>3. Chain'
    BY <1>1, <1>2, <2>1, <2>2 DEF Chain, Opened, Plays
  <2>4. \A q \in Plays : holds[q] # 0 => stage'[q] \in {"playing", "leaving"}
    BY <1>1, <1>2, <2>1 DEF Holders
  <2> QED BY <1>0, <2>1, <2>3, <2>4, SameWindows
<1> QED BY <1>3, <1>4 DEF InTurn

LEMMA OthersInTurn ==
    ASSUME IInv, Play \/ PlayLocal \/ Stop \/ (\E w \in Plays : CloseWindow(w) \/ WindowQuits(w))
                 \/ Expire \/ Observe
    PROVE  InTurn'
<1>0. Fits /\ Numbered /\ (~unwaited => Chain /\ Holders /\ Kept)
  BY DEF IInv, InTurn
<1>1. CASE Play
  BY <1>1, StartInTurn DEF Play, history
<1>2. CASE PlayLocal
  BY <1>2, StartInTurn DEF PlayLocal
<1>3. ASSUME UNCHANGED <<last, stage, unwaited>>,
             ~unwaited /\ Holders /\ Kept => Holders' /\ Kept'
      PROVE  InTurn'
  BY <1>0, <1>3 DEF InTurn, Numbered, Chain
<1>4. CASE Stop
  BY <1>0, <1>3, <1>4, SameWindows DEF Stop, Holders
<1>5. CASE \E w \in Plays : CloseWindow(w) \/ WindowQuits(w)
  <2>1. UNCHANGED <<last, stage, unwaited>>
    BY <1>5 DEF CloseWindow, WindowQuits, tasks, history
  <2>2. Holders /\ Kept => Holders' /\ Kept'
    BY <1>0, <1>5 DEF CloseWindow, WindowQuits, tasks, Holders, Kept, Fits, Frames
  <2> QED BY <1>3, <2>1, <2>2
<1>6. CASE Expire
  BY <1>0, <1>3, <1>6, Released DEF Expire, tasks, history, Holders
<1>7. CASE Observe
  <2> DEFINE p == Head(said)[1]
  <2>1. CASE UNCHANGED <<last, stage>>
    BY <1>0, <1>3, <1>7, <2>1, SameWindows DEF Observe, history, Holders
  <2>2. CASE Start("finding", LetGo(p), 0)
    BY <1>7, <2>2, StartInTurn DEF Observe, history
  <2>3. UNCHANGED <<last, stage>> \/ Start("finding", LetGo(p), 0)
    BY <1>7 DEF Observe, TakeDown, GoBack, RollOn
  <2> QED BY <2>1, <2>2, <2>3
<1> QED BY <1>1, <1>2, <1>4, <1>5, <1>6, <1>7

(* The playbacks are numbered, and come to their windows in turn. *)
LEMMA AlwaysInTurn == Spec => []IInv
<1>1. Init => IInv
  <2> SUFFICES ASSUME Init PROVE IInv
    OBVIOUS
  <2>1. Numbered /\ Chain /\ Holders /\ Kept
    BY DEF Init, Numbered, Chain, Holders, Kept, Opened, Plays
  <2> QED BY <2>1, InitFits DEF IInv, InTurn
<1>2. IInv /\ [Next]_vars => IInv'
  <2> SUFFICES ASSUME IInv, [Next]_vars PROVE IInv'
    OBVIOUS
  <2>1. Fits'
    BY NextFits DEF IInv
  <2>2. CASE UNCHANGED vars
    <3>1. UNCHANGED <<last, stage, holds, slot, open, told, unwaited>>
      BY <2>2 DEF vars, tasks, windows, history
    <3>2. InTurn'
      BY <3>1 DEF IInv, InTurn, Numbered, Chain, Holders, Kept
    <3> QED BY <2>1, <3>2 DEF IInv
  <2>3. ASSUME NEW p \in Plays, Task(p) \/ EndRolling(p) \/ End(p)
        PROVE  IInv'
    BY <2>1, <2>3, SearchInTurn, SessionInTurn DEF Task, Gone, IInv
  <2>4. CASE Play \/ PlayLocal \/ Stop \/ (\E w \in Plays : CloseWindow(w) \/ WindowQuits(w))
             \/ Expire \/ Observe
    BY <2>1, <2>4, OthersInTurn DEF IInv
  <2> QED BY <2>2, <2>3, <2>4 DEF Next
<1> QED BY <1>1, <1>2, PTL DEF Spec

(* A binge is one window, whatever is asked and in whatever order tasks run, unless a playback
   went on without waiting for the one before it: OneWindow. *)
THEOREM BingeIsOneWindow == Spec => []OneWindow
BY AlwaysInTurn, InTurnIsOneWindow, PTL

-----------------------------------------------------------------------------
(* What each playback has said of itself.  It speaks once at most, and says nothing if it    *)
(* gave way: so what is said and not yet taken in is one word of each of some of them.       *)

Spoken(p)  == stage[p] \in {"relaying", "leaving", "over"} /\ p \notin gaveWay
Queued(p)  == \E i \in 1 .. Len(said) : said[i][1] = p
Settled(p) == Spoken(p) /\ ~Queued(p)

\* The stages a word may leave its playback in.
After(word) == IF word = "kept" THEN {"relaying", "over"} ELSE {"leaving", "over"}

Once     == \A i, j \in 1 .. Len(said) : said[i][1] = said[j][1] => i = j
Truthful == \A i \in 1 .. Len(said) : /\ said[i][1] \notin gaveWay
                                      /\ stage[said[i][1]] \in After(said[i][2])
Yielded  == \A p \in gaveWay : stage[p] \in {"relaying", "over"}

Speaks == Once /\ Truthful /\ Yielded

\* The moves a playback makes without a word: none of them makes or unmakes one that has spoken.
Quiet == {<<"finding", "found">>, <<"found", "handing">>, <<"handing", "opening">>,
          <<"opening", "playing">>, <<"playing", "rolled">>, <<"playing", "closed">>,
          <<"leaving", "over">>, <<"relaying", "over">>}
Mute  == {"finding", "found", "handing", "opening", "playing", "rolled", "closed"}

Only(p)     == \A q \in Plays : q # p => stage'[q] = stage[q]
Moving(p)   == /\ <<stage[p], stage'[p]>> \in Quiet
               /\ UNCHANGED <<said, gaveWay>>
Saying(p)   == \E word \in Words :
                  /\ stage[p] \in Mute /\ stage'[p] \in After(word)
                  /\ stage'[p] = "relaying" => stage[p] = "finding"
                  /\ Says(p, word)
                  /\ UNCHANGED gaveWay
Yielding(p) == /\ stage[p] \in {"finding", "handing"}
               /\ stage'[p] \in {"relaying", "over"}
               /\ stage'[p] = "relaying" => stage[p] = "finding"
               /\ gaveWay' = gaveWay \cup {p}
               /\ UNCHANGED said

\* What a step does, as far as stages, words and the screen go.
Still   == UNCHANGED <<last, stage, said, gaveWay, screen>>
Turn(p) == /\ Only(p) /\ UNCHANGED <<last, screen>>
           /\ Moving(p) \/ Saying(p) \/ Yielding(p)
Begins  == /\ \E at \in {"finding", "opening"} : Start(at, over, front)
           /\ UNCHANGED <<said, gaveWay>>

LEMMA NextTurns ==
    ASSUME Fits, [Next]_vars
    PROVE  Still \/ (\E p \in Plays : Turn(p)) \/ Begins \/ Observe
<1>1. CASE UNCHANGED vars
  BY <1>1 DEF vars, tasks, history, Still
<1>2. CASE Stop \/ Expire \/ (\E w \in Plays : CloseWindow(w) \/ WindowQuits(w))
  BY <1>2 DEF Stop, Expire, CloseWindow, WindowQuits, tasks, history, Still
<1>3. CASE Play \/ PlayLocal
  BY <1>3 DEF Play, PlayLocal, history, Begins
<1>4. ASSUME NEW p \in Plays, Task(p) \/ EndRolling(p) \/ End(p)
      PROVE  Still \/ Turn(p)
  <2>0. stage \in [Plays -> Stages]
    BY DEF Fits, Tasks
  <2>1. CASE Relay(p) \/ ReadStop(p)
    BY <2>1 DEF Relay, ReadStop, history, Still
  <2>2. CASE Found(p) \/ Hand(p) \/ TakeWindow(p) \/ OpenWindow(p)
    BY <2>0, <2>2 DEF Found, Hand, TakeWindow, OpenWindow, Enter, history, Turn, Only, Moving,
                      Quiet
  <2>3. CASE RelayEnds(p) \/ Leave(p) \/ EndRolling(p) \/ End(p)
    BY <2>0, <2>3 DEF RelayEnds, Leave, EndRolling, End, Over, Enter, history, Turn, Only,
                      Moving, Quiet
  <2>4. CASE StopFound(p) \/ Fail(p) \/ OpenFails(p)
    BY <2>0, <2>4 DEF StopFound, Fail, OpenFails, Over, history, Turn, Only, Saying, Mute,
                      After, Words
  <2>5. CASE Keep(p) \/ ReadHandover(p) \/ SayEnding(p)
    BY <2>0, <2>5 DEF Keep, ReadHandover, SayEnding, Over, Enter, history, Turn, Only, Saying,
                      Mute, After, Words
  <2>6. CASE GiveWay(p)
    BY <2>0, <2>6 DEF GiveWay, Enter, Turn, Only, Yielding
  <2>7. CASE Handed(p)
    <3>1. CASE Over(p, inbox) /\ Says(p, "ended") /\ UNCHANGED gaveWay
      BY <2>0, <2>7, <3>1 DEF Handed, Over, Turn, Only, Saying, Mute, After, Words
    <3>2. CASE Over(p, inbox) /\ gaveWay' = gaveWay \cup {p} /\ UNCHANGED said
      BY <2>0, <2>7, <3>2 DEF Handed, Over, Turn, Only, Yielding
    <3>3. CASE Enter(p, "opening") /\ UNCHANGED <<said, gaveWay>>
      BY <2>0, <2>7, <3>3 DEF Handed, Enter, Turn, Only, Moving, Quiet
    <3> QED BY <2>7, <3>1, <3>2, <3>3 DEF Handed
  <2> QED BY <1>4, <2>1, <2>2, <2>3, <2>4, <2>5, <2>6, <2>7 DEF Task, Gone
<1> QED BY <1>1, <1>2, <1>3, <1>4 DEF Next

(* The queue of words, one word longer or shorter. *)
LEMMA SaidGrows ==
    ASSUME Fits, NEW p \in Plays, NEW word \in Words, Says(p, word)
    PROVE  /\ Len(said') = Len(said) + 1 /\ Len(said) \in Nat
           /\ \A i \in 1 .. Len(said) : said'[i] = said[i]
           /\ said'[Len(said) + 1] = <<p, word>>
           /\ \A q : Queued(q)' <=> Queued(q) \/ q = p
<1>1. said \in Seq(Plays \X Words)
  BY DEF Fits, Speech
<1>2. /\ Len(said') = Len(said) + 1 /\ Len(said) \in Nat
      /\ \A i \in 1 .. Len(said) : said'[i] = said[i]
      /\ said'[Len(said) + 1] = <<p, word>>
  BY <1>1 DEF Says
<1>3. 1 .. Len(said') = 1 .. Len(said) \cup {Len(said) + 1}
  BY <1>2
<1>4. \A q : Queued(q)' <=> Queued(q) \/ q = p
  BY <1>2, <1>3 DEF Queued
<1> QED BY <1>2, <1>4

LEMMA SaidShrinks ==
    ASSUME Fits, Once, said # <<>>, said' = Tail(said)
    PROVE  /\ Len(said') = Len(said) - 1 /\ Len(said) \in Nat \ {0}
           /\ \A i \in 1 .. Len(said') : said'[i] = said[i + 1] /\ i + 1 \in 1 .. Len(said)
           /\ Head(said) = said[1] /\ Head(said) \in Plays \X Words
           /\ \A q : Queued(q)' <=> Queued(q) /\ q # Head(said)[1]
           /\ Queued(Head(said)[1])
<1>1. said \in Seq(Plays \X Words)
  BY DEF Fits, Speech
<1>2. Len(said') = Len(said) - 1 /\ Len(said) \in Nat \ {0}
  BY <1>1
<1>3. \A i \in 1 .. Len(said') : said'[i] = said[i + 1] /\ i + 1 \in 1 .. Len(said)
  BY <1>1, <1>2
<1>4. Head(said) = said[1] /\ Head(said) \in Plays \X Words /\ 1 \in 1 .. Len(said)
  BY <1>1, <1>2
<1>5. ASSUME NEW q, Queued(q), q # said[1][1]
      PROVE  Queued(q)'
  <2>1. PICK i \in 1 .. Len(said) : said[i][1] = q
    BY <1>5 DEF Queued
  <2>2. i # 1 /\ i - 1 \in 1 .. Len(said') /\ (i - 1) + 1 = i
    BY <1>2, <1>5, <2>1
  <2> QED BY <1>3, <2>1, <2>2 DEF Queued
<1>6. ASSUME NEW q, Queued(q)'
      PROVE  Queued(q) /\ q # said[1][1]
  <2>1. PICK i \in 1 .. Len(said') : said'[i][1] = q
    BY <1>6 DEF Queued
  <2>2. said[i + 1][1] = q /\ i + 1 \in 1 .. Len(said) /\ i + 1 # 1
    BY <1>2, <1>3, <2>1
  <2> QED BY <1>4, <2>2 DEF Queued, Once
<1> QED BY <1>2, <1>3, <1>4, <1>5, <1>6 DEF Queued

(* A playback that starts is one of the playbacks, and none has that number yet. *)
LEMMA BeginsNext ==
    ASSUME Fits, Numbered, NEW at, NEW behind, NEW shown, Start(at, behind, shown)
    PROVE  /\ last \in Nat /\ last + 1 \in Plays /\ stage[last + 1] = "none"
           /\ last' = last + 1 /\ front' = last + 1
           /\ \A q \in Plays : stage'[q] = IF q = last + 1 THEN at ELSE stage[q]
           /\ over' = [behind EXCEPT ![last + 1] = shown]
<1>1. last \in Nat /\ last + 1 \in Plays
  BY PlaybackAssumption DEF Start, Fits, Tasks, Plays
<1>2. \A q \in Plays : stage'[q] = IF q = last + 1 THEN at ELSE stage[q]
  BY <1>1 DEF Start, Enter, Fits, Tasks
<1>3. stage[last + 1] = "none"
  BY <1>1 DEF Numbered
<1> QED BY <1>1, <1>2, <1>3 DEF Start

(* What the engine takes in: the first word, and what it does about it. *)
LEMMA Observed ==
    ASSUME Fits, Numbered, Speaks, Observe
    PROVE  \E p \in Plays :
              /\ p = Head(said)[1] /\ said' = Tail(said) /\ said # <<>>
              /\ p <= last /\ Spoken(p) /\ Queued(p)
              /\ stage[p] \in {"leaving", "over"} \/ stage[p] \in {"relaying", "over"}
              /\ \/ TakeDown(p) /\ stage[p] # "relaying"
                 \/ GoBack(p)
                 \/ Start("finding", LetGo(p), 0) /\ front = p /\ stage[p] # "relaying"
              /\ UNCHANGED gaveWay
<1> DEFINE p == Head(said)[1]
<1>1. said # <<>> /\ said' = Tail(said) /\ UNCHANGED gaveWay
  BY DEF Observe, history
<1>2. /\ Head(said) = said[1] /\ Head(said) \in Plays \X Words /\ 1 \in 1 .. Len(said)
      /\ Queued(p)
  BY <1>1, SaidShrinks DEF Speaks
<1>3. p \in Plays /\ Head(said)[2] \in Words
  BY <1>2
<1>4. p \notin gaveWay /\ stage[p] \in After(Head(said)[2])
  BY <1>2 DEF Speaks, Truthful
<1>5. Spoken(p) /\ stage[p] # "none"
  BY <1>4 DEF Spoken, After
<1>6. p <= last
  BY <1>3, <1>5 DEF Numbered, Plays, Fits, Tasks
<1>7. CASE Head(said)[2] = "kept"
  <2>1. GoBack(p)
    BY <1>7 DEF Observe
  <2> QED BY <1>1, <1>2, <1>3, <1>4, <1>5, <1>6, <1>7, <2>1 DEF After
<1>8. CASE Head(said)[2] # "kept"
  <2>1. TakeDown(p) \/ (Start("finding", LetGo(p), 0) /\ front = p)
    BY <1>8 DEF Observe, RollOn
  <2> QED BY <1>1, <1>2, <1>3, <1>4, <1>5, <1>6, <1>8, <2>1 DEF After
<1> QED BY <1>7, <1>8

LEMMA SpeaksStep ==
    ASSUME Fits, Fits', Numbered, Speaks, [Next]_vars
    PROVE  Speaks'
<1> USE DEF Speaks
<1>0. stage \in [Plays -> Stages] /\ gaveWay \subseteq Plays /\ said \in Seq(Plays \X Words)
  BY DEF Fits, Tasks, Past, Speech
<1>s. \A i \in 1 .. Len(said) : said[i] \in Plays \X Words
  BY <1>0
<1>1. CASE Still
  BY <1>1 DEF Still, Once, Truthful, Yielded
<1>2. ASSUME NEW p \in Plays, Only(p), Moving(p)
      PROVE  Speaks'
  <2>1. /\ stage[p] = "leaving" => stage'[p] = "over"
        /\ stage[p] = "relaying" => stage'[p] = "over"
        /\ stage[p] # "over"
    BY <1>2 DEF Moving, Quiet
  <2>2. Truthful'
    BY <1>2, <1>s, <2>1 DEF Only, Moving, Truthful, After
  <2>3. Yielded'
    BY <1>0, <1>2, <2>1 DEF Only, Moving, Yielded
  <2>4. Once'
    BY <1>2 DEF Moving, Once
  <2> QED BY <2>2, <2>3, <2>4
<1>3. ASSUME NEW p \in Plays, Only(p), Saying(p)
      PROVE  Speaks'
  <2>1. PICK word \in Words : /\ stage[p] \in Mute /\ stage'[p] \in After(word)
                              /\ Says(p, word) /\ UNCHANGED gaveWay
    BY <1>3 DEF Saying
  <2>2. /\ Len(said') = Len(said) + 1 /\ Len(said) \in Nat
        /\ \A i \in 1 .. Len(said) : said'[i] = said[i]
        /\ said'[Len(said) + 1] = <<p, word>>
    BY <2>1, SaidGrows
  <2>3. p \notin gaveWay /\ \A i \in 1 .. Len(said) : said[i][1] # p
    BY <2>1 DEF Mute, After, Truthful, Yielded
  <2>4. \A i \in 1 .. Len(said') : i \in 1 .. Len(said) \/ i = Len(said) + 1
    BY <2>2
  <2>5. Once'
    BY <2>2, <2>3, <2>4 DEF Once
  <2>6. Truthful'
    <3>1. ASSUME NEW i \in 1 .. Len(said)
          PROVE  /\ said'[i][1] \notin gaveWay'
                 /\ stage'[said'[i][1]] \in After(said'[i][2])
      BY <1>3, <1>s, <2>1, <2>2, <2>3 DEF Only, Truthful
    <3> QED BY <2>1, <2>2, <2>3, <2>4, <3>1 DEF Truthful
  <2>7. Yielded'
    BY <1>0, <1>3, <2>1, <2>3 DEF Only, Yielded
  <2> QED BY <2>5, <2>6, <2>7
<1>4. ASSUME NEW p \in Plays, Only(p), Yielding(p)
      PROVE  Speaks'
  <2>1. \A i \in 1 .. Len(said) : said[i][1] # p
    BY <1>4 DEF Yielding, After, Truthful
  <2>2. Truthful'
    BY <1>4, <1>s, <2>1 DEF Only, Yielding, Truthful
  <2>3. Yielded'
    BY <1>0, <1>4 DEF Only, Yielding, Yielded
  <2>4. Once'
    BY <1>4 DEF Yielding, Once
  <2> QED BY <2>2, <2>3, <2>4
<1>5. CASE Begins
  <2>1. PICK at : Start(at, over, front)
    BY <1>5 DEF Begins
  <2>2. stage[last + 1] = "none"
        /\ \A q \in Plays : stage'[q] = IF q = last + 1 THEN at ELSE stage[q]
    BY <2>1, BeginsNext
  <2>3. Truthful'
    BY <1>5, <1>s, <2>2 DEF Begins, Truthful, After
  <2>4. Yielded'
    BY <1>0, <1>5, <2>2 DEF Begins, Yielded
  <2>5. Once'
    BY <1>5 DEF Begins, Once
  <2> QED BY <2>3, <2>4, <2>5
<1>6. CASE Observe
  <2>1. said # <<>> /\ said' = Tail(said) /\ UNCHANGED gaveWay
    BY <1>6, Observed
  <2>2. /\ \A i \in 1 .. Len(said') : said'[i] = said[i + 1] /\ i + 1 \in 1 .. Len(said)
        /\ Len(said') \in Int
    BY <2>1, SaidShrinks
  <2>3. Once'
    BY <2>2 DEF Once
  <2>4. \A q \in Plays : stage[q] # "none" => stage'[q] = stage[q]
    <3>1. UNCHANGED stage \/ \E p : Start("finding", LetGo(p), 0)
      BY <1>6, Observed DEF TakeDown, GoBack
    <3> QED BY <3>1, BeginsNext
  <2>5. Truthful'
    BY <1>s, <2>1, <2>2, <2>4 DEF Truthful, After
  <2>6. Yielded'
    BY <1>0, <2>1, <2>4 DEF Yielded
  <2> QED BY <2>3, <2>5, <2>6
<1> QED BY <1>1, <1>2, <1>3, <1>4, <1>5, <1>6, NextTurns DEF Turn

(* Nothing settles but what the engine takes in. *)
LEMMA SettledStep ==
    ASSUME Fits, Numbered, Speaks, [Next]_vars, NEW q \in Plays
    PROVE  Settled(q)' <=> Settled(q) \/ (Observe /\ q = Head(said)[1])
<1>0. stage \in [Plays -> Stages] /\ gaveWay \subseteq Plays
  BY DEF Fits, Tasks, Past
<1>1. ASSUME ~Observe, Settled(q)' <=> Settled(q)
      PROVE  Settled(q)' <=> Settled(q) \/ (Observe /\ q = Head(said)[1])
  BY <1>1
<1>n. Still \/ (\E p \in Plays : Turn(p)) \/ Begins => ~Observe
  <2>1. Observe => said' # said
    <3> SUFFICES ASSUME Observe PROVE said' # said
      OBVIOUS
    <3>1. said # <<>> /\ said' = Tail(said)
      BY DEF Observe
    <3>2. Len(said') = Len(said) - 1 /\ Len(said) \in Nat \ {0}
      BY <3>1, SaidShrinks DEF Speaks
    <3>3. Len(said) - 1 # Len(said)
      BY <3>2
    <3> QED BY <3>2, <3>3
  <2>2. ASSUME NEW p \in Plays, Saying(p)
        PROVE  ~Observe
    <3>1. Len(said') = Len(said) + 1 /\ Len(said) \in Nat
      BY <2>2, SaidGrows DEF Saying
    <3>2. Observe => Len(said') = Len(said) - 1
      BY SaidShrinks DEF Observe, Speaks
    <3> QED BY <3>1, <3>2
  <2> QED BY <2>1, <2>2 DEF Still, Turn, Begins, Moving, Yielding
<1>2. CASE Still
  BY <1>1, <1>2, <1>n DEF Still, Settled, Spoken, Queued
<1>3. ASSUME NEW p \in Plays, Turn(p)
      PROVE  Settled(q)' <=> Settled(q)
  <2>1. CASE Moving(p)
    <3>1. stage[p] \in {"relaying", "leaving", "over"}
             <=> stage'[p] \in {"relaying", "leaving", "over"}
      BY <2>1 DEF Moving, Quiet
    <3>2. stage[q] \in {"relaying", "leaving", "over"}
             <=> stage'[q] \in {"relaying", "leaving", "over"}
      BY <1>3, <3>1 DEF Turn, Only
    <3> QED BY <2>1, <3>2 DEF Moving, Settled, Spoken, Queued
  <2>2. CASE Saying(p)
    <3>1. PICK word \in Words : /\ stage[p] \in Mute
                                /\ Says(p, word) /\ UNCHANGED gaveWay
      BY <2>2 DEF Saying
    <3>2. Queued(q)' <=> Queued(q) \/ q = p
      BY <3>1, SaidGrows
    <3>3. CASE q = p
      BY <3>1, <3>2, <3>3 DEF Settled, Spoken, Mute
    <3>4. CASE q # p
      BY <1>3, <3>1, <3>2, <3>4 DEF Turn, Only, Settled, Spoken
    <3> QED BY <3>3, <3>4
  <2>3. CASE Yielding(p)
    <3>1. CASE q = p
      BY <2>3, <3>1 DEF Yielding, Settled, Spoken
    <3>2. CASE q # p
      BY <1>3, <2>3, <3>2 DEF Turn, Only, Yielding, Settled, Spoken, Queued
    <3> QED BY <3>1, <3>2
  <2> QED BY <1>3, <2>1, <2>2, <2>3 DEF Turn
<1>4. CASE Begins
  <2>1. PICK at \in {"finding", "opening"} : Start(at, over, front)
    BY <1>4 DEF Begins
  <2>2. stage[last + 1] = "none" /\ stage'[q] = IF q = last + 1 THEN at ELSE stage[q]
    BY <2>1, BeginsNext
  <2> QED BY <1>1, <1>4, <1>n, <2>2 DEF Begins, Settled, Spoken, Queued
<1>5. CASE Observe
  <2>1. PICK p \in Plays :
           /\ p = Head(said)[1] /\ said' = Tail(said) /\ said # <<>>
           /\ Spoken(p) /\ Queued(p)
           /\ TakeDown(p) \/ GoBack(p) \/ Start("finding", LetGo(p), 0)
           /\ UNCHANGED gaveWay
    BY <1>5, Observed
  <2>2. Queued(q)' <=> Queued(q) /\ q # p
    BY <2>1, SaidShrinks DEF Speaks
  <2>3. stage'[q] = stage[q] \/ (stage[q] = "none" /\ stage'[q] = "finding")
    BY <2>1, BeginsNext DEF TakeDown, GoBack
  <2>4. Spoken(q)' <=> Spoken(q)
    BY <2>1, <2>3 DEF Spoken
  <2> QED BY <1>5, <2>1, <2>2, <2>4 DEF Settled
<1> QED BY <1>1, <1>2, <1>3, <1>4, <1>5, <1>n, NextTurns

-----------------------------------------------------------------------------
(* Who is staged over whom.  Each playback was staged over an older one, no two over the     *)
(* same, and Now Playing goes back to none whose word was taken in.                          *)

Staged ==
    /\ front <= last /\ \A q \in Plays : over[q] < q /\ over[q] <= last
    /\ front # 0 => ~Settled(front) /\ \A q \in Plays : over[q] # front
    /\ \A q \in Plays : over[q] # 0 => ~Settled(over[q])
    /\ \A q, r \in Plays : q # r /\ over[q] # 0 => over[q] # over[r]

(* As long as every playback after p looks for its stream or passes its controls on, the     *)
(* ones of p and after it that have not settled are staged each over the one before.         *)
Undisturbed(p)  == \A q \in p + 1 .. last : stage[q] \in {"finding", "found", "relaying"}
Under(w, n, p)  == /\ w \in p .. n - 1 /\ ~Settled(w)
                   /\ \A r \in w + 1 .. n - 1 : Settled(r)
Stacked(p)      == /\ Under(front, last + 1, p)
                   /\ \A x \in p + 1 .. last : Settled(x) \/ Under(over[x], x, p)
Shelved         == \A p \in 1 .. last : ~Settled(p) /\ Undisturbed(p) => Stacked(p)

(* The facts a step gives about who settled. *)
LEMMA SettledOthers ==
    ASSUME Fits, Numbered, Speaks, [Next]_vars, ~Observe
    PROVE  \A q \in Plays : Settled(q)' <=> Settled(q)
BY SettledStep

(* A screen staged anew over the playback it showed. *)
LEMMA BeginsStaged ==
    ASSUME Fits, Fits', Numbered, Staged, \A q \in Plays : Settled(q)' <=> Settled(q),
           NEW at, Start(at, over, front)
    PROVE  Staged'
<1>0. /\ last \in Nat /\ front \in 0 .. MaxPlays /\ over \in [Plays -> 0 .. MaxPlays]
      /\ last + 1 \in Plays /\ stage[last + 1] = "none"
      /\ last' = last + 1 /\ front' = last + 1
      /\ over' = [over EXCEPT ![last + 1] = front]
  BY BeginsNext DEF Fits, Screen
<1>1. \A q \in Plays : over'[q] = IF q = last + 1 THEN front ELSE over[q]
  BY <1>0
<1>2. front <= last
  BY DEF Staged
<1>3. ~Settled(last + 1)
  BY <1>0 DEF Settled, Spoken
<1>4. \A q \in Plays : over'[q] < q
  BY <1>0, <1>1, <1>2 DEF Staged
<1>5. \A q \in Plays : over[q] <= last /\ over'[q] <= last + 1
  BY <1>0, <1>1, <1>2 DEF Staged
<1> QED BY <1>0, <1>1, <1>2, <1>3, <1>4, <1>5 DEF Staged, Plays

LEMMA StagedStep ==
    ASSUME Fits, Fits', Numbered, Speaks, Staged, [Next]_vars
    PROVE  Staged'
<1>0. /\ last \in Nat /\ front \in 0 .. MaxPlays /\ over \in [Plays -> 0 .. MaxPlays]
      /\ MaxPlays \in Nat
  BY PlaybackAssumption DEF Fits, Tasks, Screen
<1>p. \A w \in 0 .. MaxPlays : w = 0 \/ w \in Plays
  BY <1>0 DEF Plays
<1>1. ASSUME UNCHANGED <<last, screen>>, ~Observe
      PROVE  Staged'
  <2>1. \A w \in 0 .. MaxPlays : w # 0 => (Settled(w)' <=> Settled(w))
    BY <1>1, <1>p, SettledOthers
  <2> QED BY <1>0, <1>1, <2>1 DEF Staged, screen
<1>2. CASE Observe
  <2>1. PICK p \in Plays :
           /\ p = Head(said)[1] /\ p <= last
           /\ \/ TakeDown(p)
              \/ GoBack(p)
              \/ Start("finding", LetGo(p), 0) /\ front = p
    BY <1>2, Observed
  <2>2. \A w \in 0 .. MaxPlays : w # 0 => (Settled(w)' <=> Settled(w) \/ w = p)
    BY <1>2, <1>p, <2>1, SettledStep
  <2>3. over[p] < p /\ (over[p] # 0 => ~Settled(over[p])) /\ over[p] <= last
        /\ over[p] \in 0 .. MaxPlays
    BY <1>0 DEF Staged
  <2>4. CASE TakeDown(p)
    <3>1. /\ last' = last /\ front' = (IF front = p THEN 0 ELSE front)
          /\ \A q \in Plays : over'[q] = IF q = p \/ over[q] = p THEN 0 ELSE over[q]
      BY <2>4 DEF TakeDown, LetGo
    <3>2. \A q \in Plays : over'[q] # 0 => over'[q] = over[q] /\ over'[q] # p
      BY <3>1
    <3>3. front' # 0 => front' = front /\ front' # p
      BY <3>1
    <3>4. front' <= last' /\ \A q \in Plays : over'[q] < q /\ over'[q] <= last'
      BY <1>0, <3>1 DEF Staged, Plays
    <3>5. front' # 0 => ~Settled(front)' /\ \A q \in Plays : over'[q] # front'
      BY <1>0, <2>2, <3>2, <3>3 DEF Staged
    <3>6. \A q \in Plays : over'[q] # 0 => ~Settled(over[q])'
      BY <1>0, <2>2, <3>2 DEF Staged
    <3>7. \A q, r \in Plays : q # r /\ over'[q] # 0 => over'[q] # over'[r]
      BY <3>2 DEF Staged
    <3> QED BY <3>4, <3>5, <3>6, <3>7 DEF Staged
  <2>5. CASE GoBack(p)
    <3>1. /\ last' = last /\ front' = (IF front = p THEN over[p] ELSE front)
          /\ \A q \in Plays : over'[q] = IF q = p THEN 0
                                         ELSE IF over[q] = p /\ front # p THEN over[p]
                                         ELSE over[q]
      BY <2>5 DEF GoBack
    <3>2. front = p => \A q \in Plays : over[q] # p
      BY DEF Staged, Plays
    <3>3. front' <= last' /\ \A q \in Plays : over'[q] < q /\ over'[q] <= last'
      <4>1. front' <= last'
        BY <2>3, <3>1 DEF Staged
      <4>2. ASSUME NEW q \in Plays PROVE over'[q] < q /\ over'[q] <= last'
        <5>1. over[q] < q /\ over[q] <= last /\ q \in Nat /\ p \in Nat /\ q > 0
              /\ over[q] \in Nat /\ over[p] \in Nat
          BY <1>0 DEF Staged, Plays
        <5> QED BY <1>0, <2>3, <3>1, <5>1
      <4> QED BY <4>1, <4>2
    <3>4. front' # 0 => ~Settled(front)'
      BY <1>0, <2>2, <2>3, <3>1 DEF Staged
    <3>5. \A q \in Plays : over'[q] # 0 => /\ ~Settled(over[q])'
                                           /\ over'[q] # p
      <4> SUFFICES ASSUME NEW q \in Plays, over'[q] # 0
                   PROVE  ~Settled(over[q])' /\ over'[q] # p
        OBVIOUS
      <4>1. CASE over'[q] = over[p]
        BY <1>0, <2>2, <2>3, <4>1
      <4>2. CASE over'[q] = over[q] /\ over[q] # p
        BY <1>0, <2>2, <4>2 DEF Staged
      <4> QED BY <3>1, <3>2, <4>1, <4>2
    <3>6. front' # 0 => \A q \in Plays : over'[q] # front'
      <4>1. CASE front = p
        BY <1>0, <2>3, <3>1, <3>2, <4>1 DEF Staged
      <4>2. CASE front # p
        BY <1>0, <2>3, <3>1, <4>2 DEF Staged
      <4> QED BY <4>1, <4>2
    <3>7. \A q, r \in Plays : q # r /\ over'[q] # 0 => over'[q] # over'[r]
      <4> SUFFICES ASSUME NEW q \in Plays, NEW r \in Plays, q # r, over'[q] # 0
                   PROVE  over'[q] # over'[r]
        OBVIOUS
      <4>1. q # p /\ (r = p => over'[r] = 0)
        BY <3>1
      <4>2. /\ over[q] # 0 => over[q] # over[r]
            /\ over[p] # 0 => over[p] # over[q] /\ (r # p => over[p] # over[r])
        BY <4>1 DEF Staged
      <4> QED BY <3>1, <4>1, <4>2 DEF Plays
    <3> QED BY <3>3, <3>4, <3>5, <3>6, <3>7 DEF Staged
  <2>6. CASE Start("finding", LetGo(p), 0) /\ front = p
    <3>1. /\ last + 1 \in Plays /\ stage[last + 1] = "none"
          /\ last' = last + 1 /\ front' = last + 1
          /\ over' = [LetGo(p) EXCEPT ![last + 1] = 0]
      BY <2>6, BeginsNext
    <3>2. \A q \in Plays : over'[q] = IF q = p \/ over[q] = p \/ q = last + 1 THEN 0 ELSE over[q]
      BY <3>1 DEF LetGo
    <3>3. \A q \in Plays : over'[q] # 0 => over'[q] = over[q] /\ over'[q] # p
      BY <3>2
    <3>4. ~Settled(front)'
      <4>1. \A w : w = last + 1 => ~Settled(w) /\ w # p /\ w # 0 /\ w \in 0 .. MaxPlays
        BY <1>0, <2>1, <3>1 DEF Settled, Spoken, Plays
      <4>2. \A w : w = last + 1 => ~Settled(w)'
        BY <2>2, <4>1
      <4> QED BY <3>1, <4>2
    <3>5. front' <= last' /\ \A q \in Plays : over'[q] < q /\ over'[q] <= last'
      <4>1. front' <= last'
        BY <1>0, <3>1
      <4>2. ASSUME NEW q \in Plays PROVE over'[q] < q /\ over'[q] <= last'
        <5>1. /\ over[q] < q /\ over[q] <= last /\ q \in Nat /\ q > 0 /\ over[q] \in Nat
              /\ over'[q] = 0 \/ over'[q] = over[q]
          BY <1>0, <3>2 DEF Staged, Plays
        <5> QED BY <1>0, <3>1, <5>1
      <4> QED BY <4>1, <4>2
    <3>6. \A q \in Plays : over'[q] # front'
      BY <1>0, <3>1, <3>2 DEF Staged
    <3>7. \A q \in Plays : over'[q] # 0 => ~Settled(over[q])'
      BY <1>0, <2>2, <3>3 DEF Staged
    <3>8. \A q, r \in Plays : q # r /\ over'[q] # 0 => over'[q] # over'[r]
      BY <3>3 DEF Staged
    <3> QED BY <3>1, <3>4, <3>5, <3>6, <3>7, <3>8 DEF Staged
  <2> QED BY <2>1, <2>4, <2>5, <2>6
<1>3. CASE Begins /\ ~Observe
  BY <1>3, BeginsStaged, SettledOthers DEF Begins
<1> QED BY <1>1, <1>2, <1>3, NextTurns DEF Still, Turn

(* Nobody comes back to looking for a stream, or to passing controls on. *)
LEMMA UndisturbedBefore ==
    ASSUME Fits, Numbered, Speaks, [Next]_vars, NEW p \in 1 .. last, Undisturbed(p)'
    PROVE  Undisturbed(p) /\ (~Observe => \A q \in p .. last : Settled(q)' <=> Settled(q))
<1> DEFINE Passive == {"finding", "found", "relaying"}
<1>0. last \in Nat /\ last <= MaxPlays /\ MaxPlays \in Nat /\ p \in Nat /\ p >= 1
  BY PlaybackAssumption DEF Fits, Tasks
<1>p. \A q \in p .. last : q \in Plays
  BY <1>0 DEF Plays
<1>1. last <= last' /\ \A q \in Plays : q <= last /\ stage'[q] \in Passive => stage[q] \in Passive
  <2>1. CASE Still
    BY <1>0, <2>1 DEF Still
  <2>2. ASSUME NEW r \in Plays, Turn(r)
        PROVE  last <= last' /\ \A q \in Plays : stage'[q] \in Passive => stage[q] \in Passive
    <3>1. stage'[r] \in Passive => stage[r] \in Passive
      BY <2>2 DEF Turn, Moving, Quiet, Saying, After, Yielding
    <3> QED BY <1>0, <2>2, <3>1 DEF Turn, Only
  <2>3. ASSUME NEW at, NEW behind, NEW shown, Start(at, behind, shown)
        PROVE  last <= last' /\ \A q \in Plays : q <= last => stage'[q] = stage[q]
    BY <1>0, <2>3, BeginsNext DEF Plays
  <2>4. CASE Observe
    <3>1. UNCHANGED <<last, stage>> \/ \E p1 : Start("finding", LetGo(p1), 0)
      BY <2>4, Observed DEF TakeDown, GoBack
    <3> QED BY <1>0, <2>3, <3>1
  <2> QED BY <2>1, <2>2, <2>3, <2>4, NextTurns DEF Begins
<1>2. last' \in Nat
  <2>1. last' = last \/ last' = last + 1
    BY NextTurns, Observed DEF Still, Turn, Begins, Start, TakeDown, GoBack
  <2> QED BY <1>0, <2>1
<1>3. Undisturbed(p)
  <2> SUFFICES ASSUME NEW q \in p + 1 .. last PROVE stage[q] \in Passive
    BY DEF Undisturbed
  <2>1. q \in p + 1 .. last' /\ q \in Plays /\ q <= last
    BY <1>0, <1>1, <1>2, <1>p
  <2>2. stage'[q] \in Passive
    BY <2>1 DEF Undisturbed
  <2> QED BY <1>1, <2>1, <2>2
<1>4. ~Observe => \A q \in p .. last : Settled(q)' <=> Settled(q)
  BY <1>p, SettledOthers
<1> QED BY <1>3, <1>4

(* A stack on which one more is staged, still looking. *)
LEMMA StackGrows ==
    ASSUME Fits, Numbered, NEW p \in 1 .. last, Stacked(p),
           \A q \in p .. last : Settled(q)' <=> Settled(q),
           ~Settled(front)',
           NEW at, Start(at, over, front)
    PROVE  Stacked(p)'
<1>0. /\ last \in Nat /\ p \in Nat /\ p >= 1 /\ p <= last
      /\ last' = last + 1 /\ front' = last + 1 /\ last + 1 \in Plays
      /\ over' = [over EXCEPT ![last + 1] = front] /\ over \in [Plays -> 0 .. MaxPlays]
  BY BeginsNext DEF Fits, Screen, Tasks
<1>1. over'[last + 1] = front /\ \A q \in p .. last : q \in Plays /\ over'[q] = over[q]
  <2>1. \A q \in p .. last : q \in Plays /\ q # last + 1
    BY <1>0, PlaybackAssumption DEF Plays
  <2> QED BY <1>0, <2>1
<1>2. Under(front, last + 1, p)'
  <2>1. front' \in p .. (last' + 1) - 1 /\ ~Settled(front)'
    BY <1>0
  <2>2. \A r \in front' + 1 .. (last' + 1) - 1 : Settled(r)'
    BY <1>0
  <2> QED BY <2>1, <2>2 DEF Under
<1>3. ASSUME NEW x \in p + 1 .. last'
      PROVE  Settled(x)' \/ Under(over[x], x, p)'
  <2>1. CASE x = last + 1
    <3>1. Under(front, last + 1, p) /\ last + 1 \in Nat
      BY <1>0 DEF Stacked
    <3>2. \A q \in p .. (last + 1) - 1 : Settled(q)' <=> Settled(q)
      BY <1>0
    <3>3. /\ front \in p .. (last + 1) - 1
          /\ \A r \in front + 1 .. (last + 1) - 1 : Settled(r)
          /\ ~Settled(front)
      BY <3>1 DEF Under
    <3>4. \A q : q \in p .. x - 1 => (Settled(q)' <=> Settled(q))
      BY <2>1, <3>2
    <3>5. over'[x] = front
      BY <1>1, <2>1
    <3>6. over'[x] \in p .. x - 1 /\ ~Settled(over[x])'
      BY <2>1, <3>3, <3>4, <3>5
    <3>7. \A r \in over'[x] + 1 .. x - 1 : Settled(r)'
      <4> SUFFICES ASSUME NEW r \in over'[x] + 1 .. x - 1 PROVE Settled(r)'
        OBVIOUS
      <4>1. r \in front + 1 .. (last + 1) - 1 /\ r \in p .. x - 1
        BY <1>0, <2>1, <3>3, <3>5
      <4> QED BY <3>3, <3>4, <4>1
    <3> QED BY <3>6, <3>7 DEF Under
  <2>2. CASE x \in p + 1 .. last
    <3>1. Settled(x) \/ Under(over[x], x, p)
      BY <2>2 DEF Stacked
    <3>2. x \in p .. last /\ x \in Nat /\ \A q \in p .. x - 1 : Settled(q)' <=> Settled(q)
      BY <1>0, <2>2
    <3>3. CASE Settled(x)
      BY <3>2, <3>3
    <3>4. CASE Under(over[x], x, p)
      <4>1. /\ over[x] \in p .. x - 1 /\ ~Settled(over[x])
            /\ \A r \in over[x] + 1 .. x - 1 : Settled(r)
        BY <3>4 DEF Under
      <4>2. over'[x] = over[x]
        BY <1>1, <3>2
      <4>3. ~Settled(over[x])'
        BY <3>2, <4>1, <4>2
      <4>4. \A r \in over[x] + 1 .. x - 1 : Settled(r)'
        <5> SUFFICES ASSUME NEW r \in over[x] + 1 .. x - 1 PROVE Settled(r)'
          OBVIOUS
        <5>1. r \in p .. x - 1
          BY <1>0, <3>2, <4>1
        <5> QED BY <3>2, <4>1, <5>1
      <4> QED BY <4>1, <4>2, <4>3, <4>4 DEF Under
    <3> QED BY <3>1, <3>3, <3>4
  <2> QED BY <1>0, <2>1, <2>2
<1> QED BY <1>2, <1>3 DEF Stacked

(* A stack that no step of a task changes. *)
LEMMA StackStays ==
    ASSUME Fits, NEW p \in 1 .. last, Stacked(p), UNCHANGED last,
           \A q \in p .. last : Settled(q)' <=> Settled(q),
           front' = front,
           \A q \in p + 1 .. last : ~Settled(q) => over'[q] = over[q]
    PROVE  Stacked(p)'
<1>0. last \in Nat /\ p \in Nat /\ p >= 1 /\ p <= last /\ last' = last
  BY DEF Fits, Tasks
<1>1. ASSUME NEW w, NEW n \in Nat, n <= last + 1, Under(w, n, p)
      PROVE  w \in p .. n - 1 /\ ~Settled(w)' /\ \A r \in w + 1 .. n - 1 : Settled(r)'
  <2>1. w \in p .. n - 1 /\ ~Settled(w) /\ \A r \in w + 1 .. n - 1 : Settled(r)
    BY <1>1 DEF Under
  <2>2. w \in p .. last /\ \A r \in w + 1 .. n - 1 : r \in p .. last
    BY <1>0, <1>1, <2>1
  <2> QED BY <2>1, <2>2
<1>2. Under(front, last + 1, p)'
  <2>1. Under(front, last + 1, p) /\ last + 1 \in Nat
    BY <1>0 DEF Stacked
  <2>2. /\ front \in p .. (last + 1) - 1 /\ ~Settled(front)'
        /\ \A r \in front + 1 .. (last + 1) - 1 : Settled(r)'
    <3>1. \A w : w = front => /\ w \in p .. (last + 1) - 1 /\ ~Settled(w)'
                              /\ \A r \in w + 1 .. (last + 1) - 1 : Settled(r)'
      BY <1>0, <1>1, <2>1
    <3> QED BY <3>1
  <2> QED BY <1>0, <2>2 DEF Under
<1>3. ASSUME NEW x \in p + 1 .. last'
      PROVE  Settled(x)' \/ Under(over[x], x, p)'
  <2>1. x \in p .. last /\ x \in Nat /\ x <= last + 1 /\ x \in p + 1 .. last
    BY <1>0
  <2>2. CASE Settled(x)
    BY <2>1, <2>2
  <2>3. CASE Under(over[x], x, p)
    <3>1. \A w : w = over[x] => /\ w \in p .. x - 1 /\ ~Settled(w)'
                                /\ \A r \in w + 1 .. x - 1 : Settled(r)'
      BY <1>1, <2>1, <2>3
    <3>2. Settled(x) \/ over'[x] = over[x]
      BY <2>1
    <3> QED BY <2>1, <3>1, <3>2 DEF Under
  <2> QED BY <2>1, <2>2, <2>3 DEF Stacked
<1> QED BY <1>2, <1>3 DEF Stacked

(* A stack from which one that found nothing is taken. *)
LEMMA StackShrinks ==
    ASSUME Fits, NEW p \in 1 .. last, Stacked(p), NEW k \in p + 1 .. last, ~Settled(k), GoBack(k),
           \A q \in p .. last : Settled(q)' <=> Settled(q) \/ q = k
    PROVE  Stacked(p)'
<1>0. /\ last \in Nat /\ p \in Nat /\ p >= 1 /\ p <= last /\ k \in Nat /\ p < k /\ k <= last
      /\ over \in [Plays -> 0 .. MaxPlays] /\ MaxPlays \in Nat /\ last <= MaxPlays
  BY PlaybackAssumption DEF Fits, Tasks, Screen
<1>1. \A q \in p .. last : q \in Plays
  BY <1>0 DEF Plays
<1>2. /\ last' = last /\ front' = (IF front = k THEN over[k] ELSE front)
      /\ \A q \in p .. last :
            over'[q] = IF q = k THEN 0
                       ELSE IF over[q] = k /\ front # k THEN over[k] ELSE over[q]
  BY <1>1 DEF GoBack
\* The one under k, and what is between them.
<1>3. /\ over[k] \in p .. k - 1 /\ ~Settled(over[k])
      /\ \A r \in over[k] + 1 .. k - 1 : Settled(r)
  BY DEF Stacked, Under
<1>4. /\ front \in p .. last /\ ~Settled(front)
      /\ \A r \in front + 1 .. last : Settled(r)
  BY <1>0 DEF Stacked, Under
\* Who was under n once k has settled.
<1>5. ASSUME NEW w, NEW n \in Nat, n <= last + 1, w \in p .. n - 1, ~Settled(w),
             \A r \in w + 1 .. n - 1 : Settled(r),
             NEW v, v = IF w = k THEN over[k] ELSE w
      PROVE  v \in p .. n - 1 /\ ~Settled(v)' /\ \A r \in v + 1 .. n - 1 : Settled(r)'
  <2>1. CASE w # k
    <3>1. w \in p .. last /\ \A r \in w + 1 .. n - 1 : r \in p .. last
      BY <1>0, <1>5
    <3> QED BY <1>5, <2>1, <3>1
  <2>2. CASE w = k
    <3>1. v = over[k] /\ v \in p .. n - 1 /\ v \in p .. last /\ v # k
      BY <1>0, <1>3, <1>5, <2>2
    <3>2. \A r \in v + 1 .. n - 1 : /\ r \in p .. last
                                    /\ r \in over[k] + 1 .. k - 1 \/ r = k \/ r \in w + 1 .. n - 1
      BY <1>0, <1>3, <1>5, <2>2, <3>1
    <3> QED BY <1>3, <1>5, <3>1, <3>2
  <2> QED BY <2>1, <2>2
<1>6. Under(front, last + 1, p)'
  <2>1. last + 1 \in Nat /\ front \in p .. (last + 1) - 1 /\ ~Settled(front)
        /\ \A r \in front + 1 .. (last + 1) - 1 : Settled(r)
    BY <1>0, <1>4
  <2>2. ASSUME NEW n \in Nat, n = last + 1, NEW v, v = front'
        PROVE  v \in p .. n - 1 /\ ~Settled(v)' /\ \A r \in v + 1 .. n - 1 : Settled(r)'
    <3>1. /\ n <= last + 1 /\ front \in p .. n - 1 /\ ~Settled(front)
          /\ \A r \in front + 1 .. n - 1 : Settled(r)
          /\ v = IF front = k THEN over[k] ELSE front
      BY <1>0, <1>2, <2>1, <2>2
    <3> QED BY <1>5, <3>1
  <2> QED BY <1>2, <2>1, <2>2 DEF Under
<1>7. ASSUME NEW x \in p + 1 .. last'
      PROVE  Settled(x)' \/ Under(over[x], x, p)'
  <2>1. x \in p + 1 .. last /\ x \in p .. last /\ x \in Nat /\ x <= last + 1
    BY <1>0, <1>2
  <2>2. CASE Settled(x) \/ x = k
    BY <2>1, <2>2
  <2>3. CASE ~Settled(x) /\ x # k
    <3>1. /\ over[x] \in p .. x - 1 /\ ~Settled(over[x])
          /\ \A r \in over[x] + 1 .. x - 1 : Settled(r)
      BY <2>1, <2>3 DEF Stacked, Under
    \* k is not the front if another that has not settled was staged over it.
    <3>2. over[x] = k => front # k
      <4> SUFFICES ASSUME over[x] = k, front = k PROVE FALSE
        OBVIOUS
      <4>1. x \in front + 1 .. last
        BY <1>0, <2>1, <3>1
      <4> QED BY <1>4, <2>3, <4>1
    <3>3. over'[x] = IF over[x] = k THEN over[k] ELSE over[x]
      BY <1>2, <2>1, <2>3, <3>2
    <3>4. \A v : v = over'[x] => /\ v \in p .. x - 1 /\ ~Settled(v)'
                                 /\ \A r \in v + 1 .. x - 1 : Settled(r)'
      BY <1>5, <2>1, <3>1, <3>3
    <3> QED BY <3>4 DEF Under
  <2> QED BY <2>2, <2>3
<1> QED BY <1>6, <1>7 DEF Stacked

LEMMA ShelvedStep ==
    ASSUME Fits, Fits', Numbered, Speaks, Staged, Staged', Shelved, [Next]_vars
    PROVE  Shelved'
<1>0. /\ last \in Nat /\ last <= MaxPlays /\ MaxPlays \in Nat
      /\ \A p \in 1 .. last : p \in Plays /\ \A q \in p .. last : q \in Plays
  BY PlaybackAssumption DEF Fits, Tasks, Plays
<1> SUFFICES ASSUME NEW p \in 1 .. last', ~Settled(p)', Undisturbed(p)'
             PROVE  Stacked(p)'
  BY DEF Shelved
<1>1. ASSUME p \in 1 .. last
      PROVE  /\ Undisturbed(p) /\ ~Settled(p) /\ Stacked(p)
             /\ ~Observe => \A q \in p .. last : Settled(q)' <=> Settled(q)
  <2>1. Undisturbed(p) /\ (~Observe => \A q \in p .. last : Settled(q)' <=> Settled(q))
    BY <1>1, UndisturbedBefore
  <2>2. ~Settled(p)
    BY <1>0, <1>1, SettledStep
  <2> QED BY <1>1, <2>1, <2>2 DEF Shelved
<1>2. CASE UNCHANGED <<last, screen>> /\ ~Observe
  BY <1>1, <1>2, StackStays DEF screen
\* The playback that starts is the top of every stack, and a stack of its own.
<1>3. ASSUME NEW at, NEW behind, NEW shown, Start(at, behind, shown), p \notin 1 .. last
      PROVE  Stacked(p)'
  <2>1. last' = last + 1 /\ front' = last + 1 /\ p = last + 1
    BY <1>0, <1>3, BeginsNext
  <2>2. front' \in p .. (last' + 1) - 1 /\ p + 1 .. last' = {}
        /\ front' + 1 .. (last' + 1) - 1 = {}
    BY <1>0, <2>1
  <2>3. ~Settled(front)'
    BY <2>1
  <2> QED BY <2>2, <2>3 DEF Stacked, Under
<1>4. CASE Begins /\ ~Observe
  <2>1. PICK at : Start(at, over, front)
    BY <1>4 DEF Begins
  <2>2. CASE p \in 1 .. last
    <3>1. ~Settled(front)'
      <4>1. front' # 0
        BY <1>0, <2>1, BeginsNext
      <4> QED BY <4>1 DEF Staged
    <3> QED BY <1>1, <1>4, <2>1, <2>2, <3>1, StackGrows
  <2> QED BY <1>3, <2>1, <2>2
<1>5. CASE Observe
  <2>1. PICK k \in Plays :
           /\ k = Head(said)[1] /\ k <= last /\ Spoken(k) /\ Queued(k)
           /\ \/ TakeDown(k) /\ stage[k] # "relaying"
              \/ GoBack(k)
              \/ Start("finding", LetGo(k), 0) /\ front = k /\ stage[k] # "relaying"
    BY <1>5, Observed
  <2>2. k \in 1 .. last /\ k \in Nat /\ p \in Nat /\ ~Settled(k)
    BY <1>0, <2>1 DEF Plays, Settled
  <2>3. ASSUME p \in 1 .. last
        PROVE  /\ p # k
               /\ \A q \in p .. last : Settled(q)' <=> Settled(q) \/ q = k
               /\ front \in p .. last
               /\ \A q \in p + 1 .. last : q # k => Settled(q) \/ over[q] \in p .. last
    <3>1. \A q \in p .. last : Settled(q)' <=> Settled(q) \/ q = k
      BY <1>0, <1>5, <2>1, <2>3, SettledStep
    <3>2. p # k
      BY <1>0, <2>3, <3>1
    <3>3. front \in p .. last
      BY <1>0, <1>1, <2>3 DEF Stacked, Under
    <3>4. ASSUME NEW q \in p + 1 .. last PROVE Settled(q) \/ over[q] \in p .. last
      <4>1. Settled(q) \/ over[q] \in p .. q - 1
        BY <1>1, <2>3 DEF Stacked, Under
      <4> QED BY <1>0, <2>2, <4>1
    <3> QED BY <3>1, <3>2, <3>3, <3>4
  \* One that left or ended had all before it disturbed, and is under none of those after.
  <2>4. ASSUME p \in 1 .. last, stage[k] # "relaying"
        PROVE  k < p
    <3>1. k > p => k \in p + 1 .. last
      BY <1>0, <2>2
    <3>2. stage[k] \notin {"finding", "found", "relaying"}
      BY <2>1, <2>4 DEF Spoken
    <3> QED BY <1>1, <2>2, <2>3, <2>4, <3>1, <3>2 DEF Undisturbed
  <2>5. ASSUME p \in 1 .. last, k < p, TakeDown(k) \/ GoBack(k)
        PROVE  Stacked(p)'
    <3>1. last' = last /\ front' = front
      BY <1>0, <2>2, <2>3, <2>5 DEF TakeDown, GoBack
    <3>2. \A q \in p .. last : Settled(q)' <=> Settled(q)
      BY <1>0, <2>2, <2>3, <2>5
    <3>3. \A q \in p + 1 .. last : ~Settled(q) => over'[q] = over[q]
      <4> SUFFICES ASSUME NEW q \in p + 1 .. last, ~Settled(q) PROVE over'[q] = over[q]
        OBVIOUS
      <4>1. q \in Plays /\ q # k /\ over[q] # k
        BY <1>0, <2>2, <2>3, <2>5
      <4> QED BY <2>5, <4>1 DEF TakeDown, LetGo, GoBack
    <3> QED BY <1>1, <2>5, <3>1, <3>2, <3>3, StackStays
  <2>6. CASE p \in 1 .. last /\ stage[k] # "relaying"
    <3>1. front # k
      BY <2>2, <2>3, <2>4, <2>6
    <3> QED BY <2>1, <2>4, <2>5, <2>6, <3>1
  <2>7. CASE p \in 1 .. last /\ GoBack(k)
    <3>1. CASE k < p
      BY <2>5, <2>7, <3>1
    <3>2. CASE k \in p + 1 .. last
      BY <1>1, <2>2, <2>3, <2>7, <3>2, StackShrinks
    <3> QED BY <1>0, <2>2, <2>3, <2>7, <3>1, <3>2
  <2>8. CASE p \notin 1 .. last
    <3>1. ~(TakeDown(k) \/ GoBack(k))
      BY <2>8 DEF TakeDown, GoBack
    <3> QED BY <1>3, <2>1, <2>8, <3>1
  <2> QED BY <2>1, <2>6, <2>7, <2>8
<1> QED BY <1>2, <1>4, <1>5, NextTurns DEF Still, Turn

-----------------------------------------------------------------------------
(* What makes an episode give its window up.  Windows are of playbacks that came to opening  *)
(* one, and a playback that is past asking for the window has had the one before it told to  *)
(* leave it or to stop, unless that one is over: the control is on its way to it, down the    *)
(* line of those that pass theirs on, or was read.                                           *)

Played == {"playing", "leaving", "rolled", "closed", "over"}
Framed == /\ \A q \in Plays : holds[q] # 0 => stage[holds[q]] \in Played
          /\ slot # 0 => stage[slot] \in Played

Passive   == {"none", "finding", "found", "relaying"}
Direct(q) == \/ ~Live(q)
             \/ inbox[q] # <<>>
             \/ stage[q] \in {"leaving", "rolled", "closed"}
             \/ stage[q] = "playing" /\ holds[q] \notin open \ told
Asked(p)  == \E q \in 0 .. p : Direct(q) /\ \A r \in q + 1 .. p : stage[r] = "relaying"
Pressed   == \A p \in Plays : stage[p] \notin Passive => Asked(p - 1)

LEMMA FramedStep ==
    ASSUME Fits, Fits', Numbered, Speaks, Framed, [Next]_vars
    PROVE  Framed'
<1>0. /\ holds \in [Plays -> 0 .. MaxPlays] /\ slot \in 0 .. MaxPlays
      /\ stage \in [Plays -> Stages]
  BY DEF Fits, Frames, Tasks
<1>p. \A w \in 0 .. MaxPlays : w = 0 \/ w \in Plays
  BY PlaybackAssumption DEF Plays
<1>1. \A w \in Plays : stage[w] \in Played => stage'[w] \in Played
  <2>1. ASSUME NEW p \in Plays, Turn(p)
        PROVE  \A w \in Plays : stage[w] \in Played => stage'[w] \in Played
    <3>1. stage[p] \in Played => stage'[p] \in Played
      BY <2>1 DEF Turn, Moving, Quiet, Saying, After, Mute, Yielding, Played
    <3> QED BY <2>1, <3>1 DEF Turn, Only
  <2>2. ASSUME NEW at, NEW behind, NEW shown, Start(at, behind, shown)
        PROVE  \A w \in Plays : stage[w] \in Played => stage'[w] \in Played
    BY <2>2, BeginsNext DEF Played
  <2>3. CASE Observe
    <3>1. UNCHANGED stage \/ \E p : Start("finding", LetGo(p), 0)
      BY <2>3, Observed DEF TakeDown, GoBack
    <3> QED BY <2>2, <3>1
  <2> QED BY <2>1, <2>2, <2>3, NextTurns DEF Still, Begins
<1>2. ASSUME \A q \in Plays : holds'[q] \in {0, holds[q], slot} \/ stage'[holds'[q]] \in Played,
             slot' = 0 \/ slot' = slot \/ \E q \in Plays : slot' = holds[q]
      PROVE  Framed'
  <2>1. \A q \in Plays : holds[q] # 0 => stage'[holds[q]] \in Played
    BY <1>0, <1>1, <1>p DEF Framed
  <2>2. slot # 0 => stage'[slot] \in Played
    BY <1>0, <1>1, <1>p DEF Framed
  <2> QED BY <1>2, <2>1, <2>2 DEF Framed
<1>3. CASE UNCHANGED <<holds, slot>>
  BY <1>2, <1>3
<1>4. CASE UNCHANGED vars
  BY <1>3, <1>4 DEF vars, windows
<1>5. CASE Play \/ PlayLocal \/ Stop \/ Observe \/ (\E w \in Plays : CloseWindow(w) \/ WindowQuits(w))
  BY <1>3, <1>5 DEF Play, PlayLocal, Stop, Observe, CloseWindow, WindowQuits, windows
<1>6. CASE Expire
  BY <1>2, <1>6 DEF Expire, Release
<1>7. ASSUME NEW p \in Plays, Task(p) \/ EndRolling(p) \/ End(p)
      PROVE  Framed'
  <2>1. CASE GiveWay(p) \/ Found(p) \/ Keep(p) \/ Hand(p) \/ Relay(p) \/ RelayEnds(p)
             \/ ReadStop(p) \/ ReadHandover(p) \/ SayEnding(p)
    BY <1>3, <2>1 DEF GiveWay, Found, Keep, Hand, Relay, RelayEnds, ReadStop, ReadHandover,
                      SayEnding, windows
  <2>2. CASE StopFound(p) \/ Fail(p) \/ Handed(p) \/ OpenFails(p)
    BY <1>2, <2>2 DEF StopFound, Fail, Handed, OpenFails, Release
  <2>3. CASE TakeWindow(p)
    <3>1. \A q \in Plays : holds'[q] \in {0, holds[q], slot}
      BY <1>0, <2>3 DEF TakeWindow
    <3> QED BY <1>2, <2>3, <3>1 DEF TakeWindow
  <2>4. CASE OpenWindow(p)
    <3>1. \A q \in Plays : holds'[q] = holds[q] \/ holds'[q] = p
      BY <1>0, <2>4 DEF OpenWindow
    <3>2. stage'[p] = "playing"
      BY <1>0, <2>4 DEF OpenWindow, Enter
    <3> QED BY <1>2, <2>4, <3>1, <3>2 DEF OpenWindow, Played
  <2>5. CASE Leave(p) \/ EndRolling(p) \/ End(p)
    <3>1. \A q \in Plays : holds'[q] \in {0, holds[q], slot}
      BY <1>0, <2>5 DEF Leave, EndRolling, End
    <3>2. slot' = slot \/ slot' = holds[p]
      BY <2>5 DEF Leave, EndRolling, End, Park
    <3> QED BY <1>2, <3>1, <3>2
  <2> QED BY <1>7, <2>1, <2>2, <2>3, <2>4, <2>5 DEF Task, Gone
<1> QED BY <1>4, <1>5, <1>6, <1>7 DEF Next

(* A control delivered is there; the others' channels only fill. *)
LEMMA Delivered ==
    ASSUME Fits, NEW p, p = 0 \/ p \in Plays, NEW c \in Controls
    PROVE  /\ Live(p) => Deliver(inbox, p, c)[p] # <<>>
           /\ \A q \in Plays : inbox[q] # <<>> => Deliver(inbox, p, c)[q] # <<>>
           /\ \A q \in Plays : q # p => Deliver(inbox, p, c)[q] = inbox[q]
<1>0. inbox \in [Plays -> Seq(Controls)]
  BY DEF Fits, Tasks
<1>1. CASE Live(p)
  <2>1. p \in Plays
    BY <1>1 DEF Live
  <2>2. Append(inbox[p], c) # <<>>
    BY <1>0, <2>1
  <2>3. Deliver(inbox, p, c) = [inbox EXCEPT ![p] = Append(inbox[p], c)]
    BY <1>1 DEF Deliver
  <2> QED BY <1>0, <2>1, <2>2, <2>3
<1>2. CASE ~Live(p)
  BY <1>2 DEF Deliver
<1> QED BY <1>1, <1>2

(* A playback told to give its window up stays told, until it is over or passes the control
   on. *)
LEMMA DirectStays ==
    ASSUME Fits, Numbered, Framed, [Next]_vars, NEW q \in Plays, q <= last, Direct(q)
    PROVE  Direct(q)' \/ Relay(q)
<1>0. /\ stage \in [Plays -> Stages] /\ inbox \in [Plays -> Seq(Controls)]
      /\ holds \in [Plays -> 0 .. MaxPlays] /\ told \subseteq open
      /\ q # 0 /\ stage[q] # "none" /\ last \in Nat
  <2>1. q # 0 /\ ~(q > last)
    BY DEF Plays, Fits, Tasks
  <2> QED BY <2>1 DEF Fits, Tasks, Frames, Numbered
\* Its stage and its window are as they were, and what is in its channel stays.
<1>1. ASSUME stage'[q] = stage[q], inbox[q] # <<>> => inbox'[q] # <<>>, holds'[q] = holds[q],
             holds[q] # 0 /\ holds[q] \in open' \ told' => holds[q] \in open \ told,
             stage[q] = "playing" /\ holds[q] = 0 => 0 \notin open'
      PROVE  Direct(q)'
  BY <1>0, <1>1 DEF Direct, Live
<1>o. ASSUME open' \subseteq open
      PROVE  0 \notin open'
  BY <1>o DEF Fits, Frames, Plays
\* It is over, or on the way out.
<1>2. ASSUME stage'[q] \in {"over", "leaving", "rolled", "closed"}
      PROVE  Direct(q)'
  BY <1>2 DEF Direct, Live
\* It has not come to playing, and what is in its channel stays.
<1>3. ASSUME stage[q] \notin Played, inbox[q] # <<>> => inbox'[q] # <<>>
      PROVE  Direct(q)'
  BY <1>0, <1>3 DEF Direct, Live, Played
<1>4. CASE UNCHANGED vars
  BY <1>0, <1>1, <1>4, <1>o DEF vars, tasks, windows
<1>5. CASE Play \/ PlayLocal \/ Observe
  <2>1. stage'[q] = stage[q]
    <3>1. ASSUME NEW at, NEW behind, NEW shown, Start(at, behind, shown)
          PROVE  stage'[q] = stage[q]
      BY <1>0, <3>1, BeginsNext
    <3>2. UNCHANGED stage \/ \E at, behind, shown : Start(at, behind, shown)
      BY <1>5 DEF Play, PlayLocal, Observe, TakeDown, GoBack, RollOn
    <3> QED BY <3>1, <3>2
  <2>2. inbox[q] # <<>> => inbox'[q] # <<>>
    <3>1. last = 0 \/ last \in Plays
      BY DEF Fits, Tasks, Plays
    <3> QED BY <1>5, <3>1, Delivered DEF Play, PlayLocal, Observe, Controls
  <2>3. UNCHANGED <<holds, open, told>>
    BY <1>5 DEF Play, PlayLocal, Observe, windows
  <2> QED BY <1>1, <1>o, <2>1, <2>2, <2>3
<1>6. CASE Stop
  <2>1. inbox[q] # <<>> => inbox'[q] # <<>>
    <3>1. last = 0 \/ last \in Plays
      BY DEF Fits, Tasks, Plays
    <3> QED BY <1>6, <3>1, Delivered DEF Stop, Controls
  <2> QED BY <1>1, <1>6, <1>o, <2>1 DEF Stop, windows
<1>7. CASE Expire \/ (\E w \in Plays : CloseWindow(w) \/ WindowQuits(w))
  <2>1. UNCHANGED <<stage, inbox, holds>>
    BY <1>7 DEF Expire, CloseWindow, WindowQuits, tasks
  <2>2. open' \subseteq open /\ open' \ told' \subseteq open \ told
    BY <1>7 DEF Expire, Release, Tell, CloseWindow, WindowQuits
  <2> QED BY <1>1, <1>o, <2>1, <2>2
<1>8. ASSUME NEW p \in Plays, Task(p) \/ EndRolling(p) \/ End(p)
      PROVE  Direct(q)' \/ Relay(q)
  <2>0. p - 1 = 0 \/ p - 1 \in Plays
    BY BeforeIsOne
  <2>p. p - 1 # p
    BY DEF Plays
  \* Another playback's step.
  <2>1. CASE p # q
    <3>1. stage'[q] = stage[q]
      BY <1>0, <1>8, <2>1
         DEF Task, Gone, StopFound, GiveWay, Found, Keep, Fail, Hand, Handed, Relay, RelayEnds,
             TakeWindow, OpenWindow, OpenFails, ReadStop, ReadHandover, Leave, SayEnding,
             EndRolling, End, Over, Enter
    <3>2. holds'[q] = holds[q]
      BY <1>0, <1>8, <2>1
         DEF Task, Gone, StopFound, GiveWay, Found, Keep, Fail, Hand, Handed, Relay, RelayEnds,
             TakeWindow, OpenWindow, OpenFails, ReadStop, ReadHandover, Leave, SayEnding,
             EndRolling, End, windows
    <3>3. inbox[q] # <<>> => inbox'[q] # <<>>
      <4>1. CASE StopFound(p)
        BY <1>0, <2>0, <2>1, <4>1, Delivered DEF StopFound, Over, Controls, Deliver
      <4>2. CASE Hand(p)
        BY <2>0, <4>2, Delivered DEF Hand, Controls
      <4>3. CASE Relay(p)
        <5>1. Head(inbox[p]) \in Controls
          BY <1>0, <4>3 DEF Relay
        <5>2. inbox[q] # <<>> => Deliver(inbox, p - 1, Head(inbox[p]))[q] # <<>>
          BY <2>0, <5>1, Delivered
        <5>3. inbox'[q] = Deliver(inbox, p - 1, Head(inbox[p]))[q]
          BY <1>0, <2>1, <4>3 DEF Relay, Deliver
        <5> QED BY <5>2, <5>3
      <4> QED
        BY <1>0, <1>8, <2>1, <4>1, <4>2, <4>3
           DEF Task, Gone, GiveWay, Found, Keep, Fail, Handed, RelayEnds, TakeWindow,
               OpenWindow, OpenFails, ReadStop, ReadHandover, Leave, SayEnding, EndRolling,
               End, Over
    <3>4. CASE OpenWindow(p)
      <4>1. stage[p] = "opening" /\ open' = open \cup {p} /\ told' = told /\ p # 0
        BY <3>4 DEF OpenWindow, Plays
      <4>2. holds[q] # 0 => holds[q] # p
        BY <4>1 DEF Framed, Played
      <4>3. 0 \notin open
        BY DEF Fits, Frames, Plays
      <4> QED BY <1>1, <3>1, <3>2, <3>3, <4>1, <4>2, <4>3
    <3>5. CASE ~OpenWindow(p)
      <4>1. open' = open /\ told \subseteq told'
        BY <1>8, <3>5
           DEF Task, Gone, StopFound, GiveWay, Found, Keep, Fail, Hand, Handed, Relay,
               RelayEnds, TakeWindow, OpenFails, ReadStop, ReadHandover, Leave, SayEnding,
               EndRolling, End, windows, Release, Park, Tell
      <4> QED BY <1>1, <1>o, <3>1, <3>2, <3>3, <4>1
    <3> QED BY <3>4, <3>5
  \* Its own.
  <2>2. CASE p = q
    <3>1. CASE StopFound(q) \/ Fail(q) \/ RelayEnds(q) \/ OpenFails(q) \/ Leave(q) \/ SayEnding(q)
               \/ ReadHandover(q) \/ EndRolling(q) \/ End(q)
      BY <1>0, <1>2, <3>1
         DEF StopFound, Fail, RelayEnds, OpenFails, Leave, SayEnding, ReadHandover, EndRolling,
             End, Over, Enter
    <3>2. CASE Handed(q)
      BY <1>0, <1>2, <1>3, <3>2 DEF Handed, Over, Enter, Played
    <3>3. CASE GiveWay(q) \/ Found(q) \/ Keep(q) \/ TakeWindow(q) \/ OpenWindow(q)
      BY <1>3, <3>3 DEF GiveWay, Found, Keep, TakeWindow, OpenWindow, Played
    <3>4. CASE Hand(q)
      <4>1. inbox[q] # <<>> => inbox'[q] # <<>>
        BY <2>0, <2>2, <3>4, Delivered DEF Hand, Controls
      <4> QED BY <1>3, <3>4, <4>1 DEF Hand, Played
    <3>5. CASE ReadStop(q)
      <4>1. stage'[q] = "playing" /\ holds'[q] \notin open' \ told'
        BY <3>5 DEF ReadStop, Tell
      <4> QED BY <4>1 DEF Direct
    <3> QED BY <1>8, <2>2, <3>1, <3>2, <3>3, <3>4, <3>5 DEF Task, Gone
  <2> QED BY <2>1, <2>2
<1> QED BY <1>4, <1>5, <1>6, <1>7, <1>8 DEF Next

(* So does whoever the controls go on to: the one told stays told, hands the control down the
   line, or is over, and so is one of the line that ends. *)
LEMMA AskedStays ==
    ASSUME Fits, Numbered, Framed, [Next]_vars, NEW p \in 0 .. last, Asked(p)
    PROVE  Asked(p)'
<1>0. /\ last \in Nat /\ last <= MaxPlays /\ MaxPlays \in Nat
      /\ inbox \in [Plays -> Seq(Controls)]
      /\ \A q \in 1 .. last : q \in Plays
  BY PlaybackAssumption DEF Fits, Tasks, Plays
<1>1. PICK q \in 0 .. p : Direct(q) /\ \A r \in q + 1 .. p : stage[r] = "relaying"
  BY DEF Asked
\* One of the line ends.
<1>2. ASSUME NEW r \in q + 1 .. p, stage'[r] # "relaying"
      PROVE  Asked(p)'
  <2>1. r \in 0 .. p /\ r \in Plays /\ stage[r] = "relaying" /\ r # last + 1
    BY <1>0, <1>1
  <2>2. CASE \E k \in Plays : Turn(k)
    <3>1. PICK k \in Plays : Turn(k)
      BY <2>2
    <3>2. k = r
      BY <1>2, <2>1, <3>1 DEF Turn, Only
    <3>3. stage'[r] = "over"
      BY <2>1, <3>1, <3>2 DEF Turn, Moving, Quiet, Saying, Mute, Yielding
    <3>4. \A s \in r + 1 .. p : s \in Plays /\ s # r /\ s \in q + 1 .. p
      BY <1>0
    <3>5. \A s \in r + 1 .. p : stage'[s] = "relaying"
      BY <1>1, <3>1, <3>2, <3>4 DEF Turn, Only
    <3>6. Direct(r)'
      BY <3>3 DEF Direct, Live
    <3> QED BY <2>1, <3>5, <3>6 DEF Asked
  <2>3. ASSUME NEW at, NEW behind, NEW shown, Start(at, behind, shown)
        PROVE  FALSE
    BY <1>2, <2>1, <2>3, BeginsNext
  <2>4. CASE Observe
    <3>1. UNCHANGED stage \/ \E behind, shown : Start("finding", behind, shown)
      BY <2>4 DEF Observe, TakeDown, GoBack, RollOn
    <3> QED BY <1>2, <2>1, <2>3, <3>1
  <2> QED BY <1>2, <2>1, <2>2, <2>3, <2>4, NextTurns DEF Still, Begins
<1>3. CASE \A r \in q + 1 .. p : stage'[r] = "relaying"
  <2>1. CASE q = 0
    <3>1. Direct(q)'
      BY <2>1 DEF Direct, Live
    <3> QED BY <1>3, <3>1 DEF Asked
  <2>2. CASE q # 0
    <3>1. q \in Plays /\ q <= last /\ q \in Nat
      BY <1>0, <2>2
    <3>2. CASE Direct(q)'
      BY <1>3, <3>2 DEF Asked
    <3>3. CASE Relay(q)
      <4>1. stage'[q] = "relaying" /\ Live(q - 1) /\ Head(inbox[q]) \in Controls
        BY <1>0, <3>1, <3>3 DEF Relay
      <4>2. q - 1 \in 0 .. p /\ (q - 1 = 0 \/ q - 1 \in Plays) /\ q - 1 # q
        <5>1. q - 1 = 0 \/ q - 1 \in Plays
          BY <3>1, BeforeIsOne
        <5> QED BY <1>0, <2>2, <3>1, <5>1
      <4>3. q - 1 \in Plays
        BY <4>1, <4>2 DEF Live
      <4>4. Deliver(inbox, q - 1, Head(inbox[q]))[q - 1] # <<>>
        BY <4>1, <4>2, Delivered
      <4>5. inbox'[q - 1] # <<>>
        <5>1. inbox' = [Deliver(inbox, q - 1, Head(inbox[q])) EXCEPT ![q] = Tail(@)]
          BY <3>3 DEF Relay
        <5>2. Deliver(inbox, q - 1, Head(inbox[q])) \in [Plays -> Seq(Controls)]
          BY <4>1, <4>2, DeliverFits
        <5> QED BY <4>2, <4>3, <4>4, <5>1, <5>2
      <4>6. Direct(q - 1)'
        BY <4>5 DEF Direct
      <4>7. \A r \in (q - 1) + 1 .. p : stage'[r] = "relaying"
        <5>1. \A r \in (q - 1) + 1 .. p : r = q \/ r \in q + 1 .. p
          BY <3>1
        <5> QED BY <1>3, <4>1, <5>1
      <4> QED BY <4>2, <4>6, <4>7 DEF Asked
    <3> QED BY <1>1, <3>1, <3>2, <3>3, DirectStays
  <2> QED BY <2>1, <2>2
<1> QED BY <1>2, <1>3

(* How a playback comes past looking for its stream and asking for the window. *)
LEMMA Passing ==
    ASSUME Fits, Numbered, [Next]_vars, NEW p \in Plays,
           stage[p] \in Passive, stage'[p] \notin Passive
    PROVE  \/ StopFound(p) \/ Fail(p) \/ Hand(p) \/ RelayEnds(p)
           \/ PlayLocal /\ p = last + 1
<1>0. stage \in [Plays -> Stages]
  BY DEF Fits, Tasks
<1>1. CASE UNCHANGED stage
  BY <1>1
<1>2. CASE Play
  <2>1. Start("finding", over, front)
    BY <1>2 DEF Play
  <2> QED BY <2>1, BeginsNext DEF Passive
<1>3. CASE PlayLocal
  <2>1. Start("opening", over, front)
    BY <1>3 DEF PlayLocal
  <2> QED BY <1>3, <2>1, BeginsNext
<1>4. CASE Observe
  <2>1. ASSUME NEW behind, NEW shown, Start("finding", behind, shown)
        PROVE  FALSE
    BY <2>1, BeginsNext DEF Passive
  <2> QED BY <1>1, <1>4, <2>1 DEF Observe, TakeDown, GoBack, RollOn
<1>5. ASSUME NEW k \in Plays, Task(k) \/ EndRolling(k) \/ End(k)
      PROVE  StopFound(p) \/ Fail(p) \/ Hand(p) \/ RelayEnds(p)
  <2>1. k = p
    BY <1>0, <1>5
       DEF Task, Gone, StopFound, GiveWay, Found, Keep, Fail, Hand, Handed, Relay, RelayEnds,
           TakeWindow, OpenWindow, OpenFails, ReadStop, ReadHandover, Leave, SayEnding,
           EndRolling, End, Over, Enter
  <2>2. ~(GiveWay(p) \/ Found(p) \/ Keep(p) \/ Relay(p))
    BY <1>0 DEF GiveWay, Found, Keep, Relay, Enter, Passive
  <2>3. ~(Handed(p) \/ TakeWindow(p) \/ OpenWindow(p) \/ OpenFails(p) \/ ReadStop(p)
          \/ ReadHandover(p) \/ Leave(p) \/ SayEnding(p) \/ EndRolling(p) \/ End(p))
    BY DEF Handed, TakeWindow, OpenWindow, OpenFails, ReadStop, ReadHandover, Leave, SayEnding,
           EndRolling, End, Passive
  <2> QED BY <1>5, <2>1, <2>2, <2>3 DEF Task, Gone
<1>6. CASE Stop \/ Expire \/ (\E w \in Plays : CloseWindow(w) \/ WindowQuits(w))
  BY <1>1, <1>6 DEF Stop, Expire, CloseWindow, WindowQuits, tasks
<1>7. CASE UNCHANGED vars
  BY <1>1, <1>7 DEF vars, tasks
<1> QED BY <1>2, <1>3, <1>4, <1>5, <1>6, <1>7 DEF Next

(* Whoever comes past asking for the window asked for it, or passed on all it was sent. *)
LEMMA PressedStep ==
    ASSUME Fits, Fits', Numbered, Numbered', Framed, Pressed, [Next]_vars
    PROVE  Pressed'
<1>0. /\ last \in Nat /\ last <= MaxPlays /\ MaxPlays \in Nat
      /\ stage \in [Plays -> Stages] /\ inbox \in [Plays -> Seq(Controls)]
      /\ last = 0 \/ last \in Plays
  BY PlaybackAssumption DEF Fits, Tasks, Plays
<1> SUFFICES ASSUME NEW p \in Plays, stage'[p] \notin Passive
             PROVE  Asked(p - 1)'
  BY DEF Pressed
<1>n. /\ p \in Nat /\ p # 0 /\ p - 1 # p
      /\ p - 1 = 0 \/ p - 1 \in Plays
  BY BeforeIsOne DEF Plays
\* The one before was told itself.
<1>1. ASSUME Direct(p - 1)'
      PROVE  Asked(p - 1)'
  <2>1. p - 1 \in 0 .. p - 1 /\ (p - 1) + 1 .. p - 1 = {}
    BY <1>n
  <2> QED BY <1>1, <2>1 DEF Asked
\* Or whoever its controls go on to.
<1>2. ASSUME p <= last, Asked(p - 1)
      PROVE  Asked(p - 1)'
  <2>1. p - 1 \in 0 .. last
    BY <1>0, <1>2, <1>n
  <2> QED BY <1>2, <2>1, AskedStays
<1>3. CASE stage[p] \notin Passive
  <2>1. p <= last
    <3>1. ~(p > last)
      BY <1>3 DEF Numbered, Passive
    <3> QED BY <1>0, <1>n, <3>1
  <2> QED BY <1>2, <1>3, <2>1 DEF Pressed
<1>4. CASE StopFound(p)
  <2>1. stage' = [stage EXCEPT ![p] = "over"]
        /\ inbox' = [Deliver(inbox, p - 1, "stop") EXCEPT ![p] = <<>>]
    BY <1>4 DEF StopFound, Over
  <2>2. Deliver(inbox, p - 1, "stop") \in [Plays -> Seq(Controls)]
    BY <1>n, DeliverFits DEF Controls
  <2>3. Live(p - 1) => inbox'[p - 1] # <<>>
    <3>1. Live(p - 1) => Deliver(inbox, p - 1, "stop")[p - 1] # <<>> /\ p - 1 \in Plays
      BY <1>n, Delivered DEF Controls, Live
    <3> QED BY <1>n, <2>1, <2>2, <3>1
  <2>4. Live(p - 1)' => Live(p - 1)
    BY <1>0, <1>n, <2>1 DEF Live
  <2> QED BY <1>1, <2>3, <2>4 DEF Direct
<1>5. CASE Fail(p)
  <2>1. stage' = [stage EXCEPT ![p] = "over"] /\ ~Live(p - 1)
    BY <1>5 DEF Fail, Over
  <2>2. ~Live(p - 1)'
    BY <1>0, <1>n, <2>1 DEF Live
  <2> QED BY <1>1, <2>2 DEF Direct
<1>6. CASE Hand(p)
  <2>1. stage' = [stage EXCEPT ![p] = "handing"]
        /\ inbox' = Deliver(inbox, p - 1, "handover")
    BY <1>6 DEF Hand, Enter
  <2>2. Live(p - 1) => inbox'[p - 1] # <<>>
    BY <1>n, <2>1, Delivered DEF Controls
  <2>3. Live(p - 1)' => Live(p - 1)
    BY <1>0, <1>n, <2>1 DEF Live
  <2> QED BY <1>1, <2>2, <2>3 DEF Direct
<1>7. CASE PlayLocal /\ p = last + 1
  <2>1. /\ Start("opening", over, front) /\ inbox' = Deliver(inbox, last, "handover")
        /\ p - 1 = last
    BY <1>0, <1>7 DEF PlayLocal
  <2>2. Live(last) => inbox'[last] # <<>>
    BY <1>0, <2>1, Delivered DEF Controls
  <2>3. \A q \in Plays : stage'[q] = IF q = last + 1 THEN "opening" ELSE stage[q]
    BY <2>1, BeginsNext
  <2>4. last # 0 => stage'[last] = stage[last]
    BY <1>0, <2>3
  <2>5. Live(p - 1)' => Live(p - 1)
    BY <2>1, <2>4 DEF Live
  <2> QED BY <1>1, <2>1, <2>2, <2>5 DEF Direct
<1>8. CASE RelayEnds(p)
  <2>1. /\ stage' = [stage EXCEPT ![p] = "over"] /\ stage[p] = "relaying"
        /\ ~Live(p - 1) \/ (inbox[p] = <<>> /\ ~Held(p))
    BY <1>8 DEF RelayEnds, Over
  <2>2. CASE ~Live(p - 1)
    <3>1. ~Live(p - 1)'
      BY <1>0, <1>n, <2>1, <2>2 DEF Live
    <3> QED BY <1>1, <3>1 DEF Direct
  \* Nobody is left to send it any: the playback after it is past asking, and it was told.
  <2>3. CASE inbox[p] = <<>> /\ ~Held(p)
    <3>1. p # last /\ ~(p > last)
      BY <2>1, <2>3 DEF Held, Numbered
    <3>2. p + 1 \in Plays /\ ~(p + 1 > last) /\ (p + 1) - 1 = p
      BY <1>0, <1>n, <3>1 DEF Plays
    <3>3. stage[p + 1] \notin Passive
      BY <2>3, <3>2 DEF Held, Numbered, Passive
    <3>4. Asked(p)
      BY <3>2, <3>3 DEF Pressed
    <3>5. PICK q \in 0 .. p : Direct(q) /\ \A r \in q + 1 .. p : stage[r] = "relaying"
      BY <3>4 DEF Asked
    <3>6. q # p
      BY <1>n, <2>1, <2>3, <3>5 DEF Direct, Live
    <3>7. q \in 0 .. p - 1 /\ \A r \in q + 1 .. p - 1 : r \in q + 1 .. p
      BY <1>n, <3>6
    <3>8. Asked(p - 1)
      BY <3>5, <3>7 DEF Asked
    <3> QED BY <1>0, <1>2, <1>n, <3>1, <3>8
  <2> QED BY <2>1, <2>2, <2>3
<1> QED BY <1>3, <1>4, <1>5, <1>6, <1>7, <1>8, Passing

-----------------------------------------------------------------------------
(* What plays is shown. *)

Watched == Speaks /\ Staged /\ Shelved /\ Framed /\ Pressed

LEMMA InitWatched ==
    ASSUME Init
    PROVE  Watched
<1>1. said = <<>> /\ 1 .. Len(said) = {} /\ last = 0 /\ front = 0 /\ slot = 0 /\ gaveWay = {}
  BY DEF Init
<1>2. \A q \in Plays : over[q] = 0 /\ holds[q] = 0 /\ stage[q] = "none" /\ 0 < q
  BY DEF Init, Plays
<1>3. Speaks
  BY <1>1 DEF Speaks, Once, Truthful, Yielded
<1>4. Staged
  BY <1>1, <1>2 DEF Staged
<1>5. Shelved
  BY <1>1 DEF Shelved
<1>6. Framed /\ Pressed
  BY <1>1, <1>2 DEF Framed, Pressed, Passive
<1> QED BY <1>3, <1>4, <1>5, <1>6 DEF Watched

LEMMA AlwaysWatched == Spec => [](IInv /\ Watched)
<1>1. Init => Watched
  BY InitWatched
<1>2. IInv /\ IInv' /\ Watched /\ [Next]_vars => Watched'
  <2> SUFFICES ASSUME IInv, IInv', Watched, [Next]_vars PROVE Watched'
    OBVIOUS
  <2>1. /\ Fits /\ Fits' /\ Numbered /\ Numbered'
        /\ Speaks /\ Staged /\ Shelved /\ Framed /\ Pressed
    BY DEF IInv, InTurn, Watched
  <2>2. Speaks'
    BY <2>1, SpeaksStep
  <2>3. Staged'
    BY <2>1, StagedStep
  <2>4. Shelved'
    BY <2>1, <2>3, ShelvedStep
  <2>5. Framed'
    BY <2>1, FramedStep
  <2>6. Pressed'
    BY <2>1, PressedStep
  <2> QED BY <2>2, <2>3, <2>4, <2>5, <2>6 DEF Watched
<1> QED BY <1>1, <1>2, AlwaysInTurn, PTL DEF Spec

(* A nonempty set of naturals has a least one. *)
Below == {p \in Nat \X Nat : p[1] < p[2]}

LEMMA LeastNatural ==
    ASSUME NEW T \in SUBSET Nat, T # {}
    PROVE  \E m \in T : \A n \in T : m <= n
<1>1. IsWellFoundedOn(Below, Nat)
  BY NatLessThanWellFounded DEF OpToRel, Below
<1>2. PICK m \in T : \A n \in T : ~(<<n, m>> \in Below)
  BY <1>1, WFMin
<1>3. ASSUME NEW n \in T PROVE m <= n
  <2>1. n < m => <<n, m>> \in Below
    BY DEF Below
  <2> QED BY <1>2, <2>1
<1> QED BY <1>3

(* Nothing under way, nobody who plays or passes controls on was told to give its window up. *)
LEMMA NobodyTold ==
    ASSUME AtRest, NEW q \in Plays, Live(q)
    PROVE  ~Direct(q)
BY DEF AtRest, Direct

(* So all that were started after the one that plays pass their controls on: the first that
   did not would have had it told. *)
LEMMA OthersPassOn ==
    ASSUME Fits, Numbered, Pressed, AtRest, NEW p \in Plays, stage[p] = "playing",
           NEW x \in p + 1 .. last
    PROVE  stage[x] = "relaying"
<1> DEFINE T == {q \in p + 1 .. last : stage[q] # "relaying"}
<1>0. /\ last \in Nat /\ last <= MaxPlays /\ MaxPlays \in Nat /\ p \in Nat /\ p # 0
      /\ stage \in [Plays -> Stages]
      /\ \A q \in 1 .. last : q \in Plays
      /\ \A q \in p .. last : q \in Plays /\ q # 0
  BY PlaybackAssumption DEF Fits, Tasks, Plays
<1> SUFFICES ASSUME T # {} PROVE FALSE
  OBVIOUS
<1>1. PICK m \in T : \A n \in T : m <= n
  <2>1. T \in SUBSET Nat
    BY <1>0
  <2> HIDE DEF T
  <2> QED BY <2>1, LeastNatural
<1>2. /\ m \in p + 1 .. last /\ stage[m] # "relaying" /\ m \in Plays /\ m \in Nat
      /\ \A n \in p + 1 .. m - 1 : stage[n] = "relaying" /\ n \in Plays
  <2>1. ASSUME NEW n \in p + 1 .. m - 1 PROVE n \in p + 1 .. last /\ ~(m <= n)
    BY <1>0
  <2> QED BY <1>0, <1>1, <2>1
<1>3. stage[m] \notin Passive
  <2>1. stage[m] # "none"
    BY <1>0, <1>2 DEF Numbered
  <2>2. Live(m) => stage[m] \in {"playing", "relaying"}
    BY <1>2 DEF AtRest
  <2> QED BY <1>0, <1>2, <2>1, <2>2 DEF Live, Passive
<1>4. PICK q \in 0 .. m - 1 : Direct(q) /\ \A r \in q + 1 .. m - 1 : stage[r] = "relaying"
  BY <1>2, <1>3 DEF Pressed, Asked
\* The one told is not the one that plays, nor after it, nor before it.
<1>5. CASE q < p
  <2>1. p \in q + 1 .. m - 1
    BY <1>0, <1>2, <1>5
  <2> QED BY <1>4, <2>1
<1>6. CASE q = p
  BY <1>0, <1>4, <1>6, NobodyTold DEF Live
<1>7. CASE q > p
  <2>1. q \in p + 1 .. m - 1
    BY <1>0, <1>2, <1>7
  <2>2. Live(q)
    BY <1>0, <1>2, <1>7, <2>1 DEF Live
  <2> QED BY <1>2, <1>4, <2>1, <2>2, NobodyTold
<1> QED BY <1>0, <1>2, <1>5, <1>6, <1>7

LEMMA WatchedIsShown ==
    ASSUME IInv, Watched
    PROVE  ShowsWhatPlays
<1> SUFFICES ASSUME AtRest, front \notin gaveWay
             PROVE  /\ \A p \in Plays : stage[p] = "playing" => front = p
                    /\ front # 0 => stage[front] = "playing"
  BY DEF ShowsWhatPlays
<1>0. /\ Fits /\ Numbered /\ Staged /\ Shelved /\ Pressed
      /\ last \in Nat /\ last <= MaxPlays /\ MaxPlays \in Nat
      /\ \A q \in 1 .. last : q \in Plays
  BY PlaybackAssumption DEF IInv, InTurn, Watched, Fits, Tasks, Plays
\* All that was said is taken in.
<1>1. \A q : Settled(q) <=> Spoken(q)
  <2>1. 1 .. Len(said) = {}
    BY DEF AtRest
  <2> QED BY <2>1 DEF Settled, Queued
<1>2. ASSUME NEW p \in Plays, stage[p] = "playing"
      PROVE  front = p
  <2>1. p \in 1 .. last
    <3>1. ~(p > last)
      BY <1>0, <1>2 DEF Numbered
    <3> QED BY <1>0, <3>1 DEF Plays
  <2>2. \A q \in p + 1 .. last : stage[q] = "relaying"
    BY <1>0, <1>2, OthersPassOn
  <2>3. Undisturbed(p) /\ ~Settled(p)
    BY <1>1, <1>2, <2>2 DEF Undisturbed, Spoken
  <2>4. front \in p .. (last + 1) - 1 /\ ~Settled(front)
    BY <1>0, <2>1, <2>3 DEF Shelved, Stacked, Under
  <2>5. front \notin p + 1 .. last
    BY <1>1, <2>2, <2>4 DEF Spoken
  <2> QED BY <1>0, <2>1, <2>4, <2>5
<1>3. ASSUME front # 0
      PROVE  stage[front] = "playing"
  <2>1. front \in Plays /\ ~(front > last) /\ ~Settled(front)
    BY <1>0, <1>3 DEF Staged, Fits, Screen, Plays
  <2>2. stage[front] \notin {"relaying", "leaving", "over", "none"}
    BY <1>0, <1>1, <2>1 DEF Spoken, Numbered
  <2> QED BY <1>3, <2>1, <2>2 DEF AtRest, Live
<1> QED BY <1>2, <1>3

(* Once nothing is under way, Now Playing shows the episode that plays, or nothing if none
   does, whatever was started over what, kept, passed over, told to leave or ended, and in
   whatever order the engine hears of it; unless it went back to a playback that had given way
   to a newer one without a word: ShowsWhatPlays. *)
THEOREM NowPlayingIsWhatPlays == Spec => []ShowsWhatPlays
<1>1. IInv /\ Watched => ShowsWhatPlays
  BY WatchedIsShown
<1> QED BY <1>1, AlwaysWatched, PTL

-----------------------------------------------------------------------------
(* What a Stop does.  The newest playback was told itself, or those are that its controls go *)
(* on to; and a window is in the slot, or in the hands of one that plays in it or leaves it.  *)

Stopping == /\ turnedDown <= last
            /\ last # 0 /\ turnedDown = last => Asked(last)

Homed == /\ \A p \in Plays : holds[p] # 0 => stage[p] \in {"playing", "leaving"}
         /\ Kept

LEMMA StoppingStep ==
    ASSUME Fits, Fits', Numbered, Framed, Stopping, [Next]_vars
    PROVE  Stopping'
<1>0. /\ last \in Nat /\ last' \in Nat /\ turnedDown \in Nat
      /\ last = 0 \/ last \in Plays
      /\ inbox \in [Plays -> Seq(Controls)]
  BY PlaybackAssumption DEF Fits, Tasks, Past, Plays
<1>1. CASE Stop
  <2>1. /\ last' = last /\ last # 0 /\ turnedDown' = last /\ stage' = stage
        /\ inbox' = Deliver(inbox, last, "stop")
    BY <1>1 DEF Stop
  <2>2. Live(last) => inbox'[last] # <<>>
    BY <1>0, <2>1, Delivered DEF Controls
  <2>3. PICK p \in 0 .. last : p = last
    BY <1>0
  <2>4. Direct(p)'
    BY <2>1, <2>2, <2>3 DEF Direct, Live
  <2>5. p \in 0 .. p /\ p + 1 .. p = {}
    BY <1>0, <2>3
  <2>6. Asked(p)'
    BY <2>4, <2>5 DEF Asked
  <2>7. Asked(last)'
    BY <2>1, <2>3, <2>6
  <2> QED BY <1>0, <2>1, <2>7 DEF Stopping
<1>2. ASSUME turnedDown' = turnedDown, last' = last
      PROVE  Stopping'
  <2>1. ASSUME NEW p \in 0 .. last, p = last, Asked(p) PROVE Asked(last)'
    <3>1. Asked(p)'
      BY <2>1, AskedStays
    <3> QED BY <1>2, <2>1, <3>1
  <2> QED BY <1>0, <1>2, <2>1 DEF Stopping
\* The Stop was of an older one.
<1>3. ASSUME turnedDown' = turnedDown, NEW at, NEW behind, NEW shown, Start(at, behind, shown)
      PROVE  Stopping'
  <2>1. last' = last + 1
    BY <1>3 DEF Start
  <2> QED BY <1>0, <1>3, <2>1 DEF Stopping
<1>4. ~Stop => turnedDown' = turnedDown
  BY DEF Next, vars, history, Play, PlayLocal, CloseWindow, WindowQuits, Expire, Observe, Task,
         Gone, StopFound, GiveWay, Found, Keep, Fail, Hand, Handed, Relay, RelayEnds,
         TakeWindow, OpenWindow, OpenFails, ReadStop, ReadHandover, Leave, SayEnding,
         EndRolling, End
<1>5. last' = last \/ \E at, behind, shown : Start(at, behind, shown)
  BY NextTurns DEF Still, Turn, Begins, Observe, TakeDown, GoBack, RollOn
<1> QED BY <1>1, <1>2, <1>3, <1>4, <1>5

LEMMA HomedStep ==
    ASSUME Fits, Fits', Numbered, Speaks, Homed, [Next]_vars
    PROVE  Homed'
<1>0. /\ holds \in [Plays -> 0 .. MaxPlays] /\ stage \in [Plays -> Stages]
      /\ open \subseteq Plays /\ told \subseteq open /\ 0 \notin open
  BY DEF Fits, Frames, Tasks, Plays
\* Whoever holds a window stays where it is, and no window is opened or left.
<1>1. ASSUME holds' = holds,
             \A q \in Plays : holds[q] # 0 => stage'[q] \in {"playing", "leaving"},
             open' \ told' \subseteq open \ told,
             slot' = slot \/ slot \in told' \/ slot \notin open'
      PROVE  Homed'
  BY <1>1 DEF Homed, Kept
<1>2. CASE Play \/ PlayLocal \/ Observe
  <2>1. UNCHANGED windows
    BY <1>2 DEF Play, PlayLocal, Observe
  <2>2. ASSUME NEW q \in Plays, holds[q] # 0
        PROVE  stage'[q] \in {"playing", "leaving"}
    <3>1. stage[q] \in {"playing", "leaving"}
      BY <2>2 DEF Homed
    <3>2. ASSUME NEW at, NEW behind, NEW shown, Start(at, behind, shown)
          PROVE  stage'[q] = stage[q]
      BY <3>1, <3>2, BeginsNext
    <3>3. UNCHANGED stage \/ \E at, behind, shown : Start(at, behind, shown)
      BY <1>2 DEF Play, PlayLocal, Observe, TakeDown, GoBack, RollOn
    <3> QED BY <3>1, <3>2, <3>3
  <2> QED BY <1>1, <2>1, <2>2 DEF windows
<1>3. CASE UNCHANGED vars \/ Stop \/ Expire \/ (\E w \in Plays : CloseWindow(w) \/ WindowQuits(w))
  <2>1. holds' = holds /\ stage' = stage
    BY <1>3 DEF vars, tasks, windows, Stop, Expire, CloseWindow, WindowQuits
  <2>2. open' \ told' \subseteq open \ told
    BY <1>3 DEF vars, windows, Stop, Expire, Release, Tell, CloseWindow, WindowQuits
  <2>3. slot' = slot \/ slot \in told' \/ slot \notin open'
    BY <1>3 DEF vars, windows, Stop, Expire, Release, Tell, CloseWindow, WindowQuits
  <2> QED BY <1>1, <2>1, <2>2, <2>3 DEF Homed
<1>4. ASSUME NEW p \in Plays, Task(p) \/ EndRolling(p) \/ End(p)
      PROVE  Homed'
  <2>1. CASE StopFound(p) \/ GiveWay(p) \/ Found(p) \/ Keep(p) \/ Fail(p) \/ Hand(p) \/ Handed(p)
             \/ Relay(p) \/ RelayEnds(p) \/ OpenFails(p) \/ SayEnding(p)
    <3>1. holds' = holds /\ stage[p] \notin {"playing", "leaving"}
      BY <2>1 DEF StopFound, GiveWay, Found, Keep, Fail, Hand, Handed, Relay, RelayEnds,
                  OpenFails, SayEnding, windows
    <3>2. \A q \in Plays : q # p => stage'[q] = stage[q]
      BY <1>0, <2>1 DEF StopFound, GiveWay, Found, Keep, Fail, Hand, Handed, Relay, RelayEnds,
                        OpenFails, SayEnding, Enter, Over
    <3>3. open' \ told' \subseteq open \ told
      BY <2>1 DEF StopFound, GiveWay, Found, Keep, Fail, Hand, Handed, Relay, RelayEnds,
                  OpenFails, SayEnding, windows, Release, Tell
    <3>4. slot' = slot \/ slot \in told' \/ slot \notin open'
      BY <2>1 DEF StopFound, GiveWay, Found, Keep, Fail, Hand, Handed, Relay, RelayEnds,
                  OpenFails, SayEnding, windows, Release, Tell
    <3> QED BY <1>1, <3>1, <3>2, <3>3, <3>4 DEF Homed
  <2>2. CASE ReadStop(p) \/ ReadHandover(p)
    <3>1. holds' = holds /\ stage'[p] \in {"playing", "leaving"} /\ slot' = slot
      BY <1>0, <2>2 DEF ReadStop, ReadHandover, Enter, windows
    <3>2. \A q \in Plays : q # p => stage'[q] = stage[q]
      BY <1>0, <2>2 DEF ReadStop, ReadHandover, Enter
    <3>3. open' \ told' \subseteq open \ told
      BY <2>2 DEF ReadStop, ReadHandover, Tell, windows
    <3> QED BY <1>1, <3>1, <3>2, <3>3 DEF Homed
  \* A window comes out of the slot, or is new.
  <2>3. CASE TakeWindow(p) \/ OpenWindow(p)
    <3>1. /\ stage[p] = "opening" /\ told' = told
          /\ \A q \in Plays : stage'[q] = IF q = p THEN "playing" ELSE stage[q]
      BY <1>0, <2>3 DEF TakeWindow, OpenWindow, Enter
    <3>2. holds[p] = 0
      BY <3>1 DEF Homed
    <3>3. PICK v : /\ \A q \in Plays : holds'[q] = IF q = p THEN v ELSE holds[q]
                   /\ \A w \in open' : w = v \/ (w \in open /\ w # slot)
      <4>1. CASE TakeWindow(p)
        <5>1. \A q \in Plays : holds'[q] = IF q = p THEN slot ELSE holds[q]
          BY <1>0, <4>1 DEF TakeWindow
        <5>2. \A w \in open' : w = slot \/ (w \in open /\ w # slot)
          BY <4>1 DEF TakeWindow
        <5> QED BY <5>1, <5>2
      <4>2. CASE OpenWindow(p)
        <5>1. \A q \in Plays : holds'[q] = IF q = p THEN p ELSE holds[q]
          BY <1>0, <4>2 DEF OpenWindow
        <5>2. \A w \in open' : w = p \/ (w \in open /\ w # slot)
          BY <4>2 DEF OpenWindow
        <5> QED BY <5>1, <5>2
      <4> QED BY <2>3, <4>1, <4>2
    <3>4. \A q \in Plays : holds'[q] # 0 => stage'[q] \in {"playing", "leaving"}
      BY <3>1, <3>3 DEF Homed
    <3>5. ASSUME NEW w \in open' \ told' PROVE \E q \in Plays : holds'[q] = w
      <4>1. CASE w = v
        BY <3>3, <4>1
      <4>2. CASE w # v
        <5>1. w \in open \ told /\ w # slot /\ w # 0
          BY <1>0, <3>1, <3>3, <3>5, <4>2
        <5>2. PICK q \in Plays : holds[q] = w
          BY <5>1 DEF Homed, Kept
        <5> QED BY <3>2, <3>3, <5>1, <5>2
      <4> QED BY <4>1, <4>2
    <3> QED BY <3>4, <3>5 DEF Homed, Kept
  \* Its holder leaves it in the slot, or it is told to close.
  <2>4. CASE Leave(p) \/ EndRolling(p) \/ End(p)
    <3>1. /\ \A q \in Plays : holds'[q] = IF q = p THEN 0 ELSE holds[q]
          /\ \A q \in Plays : q # p => stage'[q] = stage[q]
          /\ open' = open
      BY <1>0, <2>4 DEF Leave, EndRolling, End, Over, Enter
    <3>2. \/ slot' = holds[p] /\ told' = told \cup ({slot} \cap open)
          \/ slot' = slot /\ told' = told \cup ({holds[p]} \cap open)
      BY <2>4 DEF Leave, EndRolling, End, Park, Tell
    <3>3. \A q \in Plays : holds'[q] # 0 => stage'[q] \in {"playing", "leaving"}
      BY <3>1 DEF Homed
    <3>4. ASSUME NEW w \in open' \ told'
          PROVE  w = slot' \/ \E q \in Plays : holds'[q] = w
      <4>1. w \in open \ told
        BY <3>1, <3>2, <3>4
      <4>2. w = slot \/ \E q \in Plays : holds[q] = w
        BY <4>1 DEF Homed, Kept
      <4> QED BY <3>1, <3>2, <3>4, <4>1, <4>2
    <3> QED BY <3>3, <3>4 DEF Homed, Kept
  <2> QED BY <1>4, <2>1, <2>2, <2>3, <2>4 DEF Task, Gone
<1> QED BY <1>2, <1>3, <1>4 DEF Next

LEMMA AlwaysStopping == Spec => [](IInv /\ Watched /\ Stopping /\ Homed)
<1>1. Init => Stopping /\ Homed
  BY DEF Init, Stopping, Homed, Kept
<1>2. IInv /\ IInv' /\ Watched /\ Stopping /\ Homed /\ [Next]_vars => Stopping' /\ Homed'
  <2> SUFFICES ASSUME IInv, IInv', Watched, Stopping, Homed, [Next]_vars
               PROVE  Stopping' /\ Homed'
    OBVIOUS
  <2>1. Fits /\ Fits' /\ Numbered /\ Speaks /\ Framed
    BY DEF IInv, InTurn, Watched
  <2> QED BY <2>1, StoppingStep, HomedStep
<1> QED BY <1>1, <1>2, AlwaysWatched, PTL DEF Spec

\* Nothing is under way, nor is a window that waits for whoever plays next or is to close.
Idle == AtRest /\ slot = 0 /\ told = {}

StoppedIsOver ==
    last # 0 /\ turnedDown = last /\ Idle =>
        open = {} /\ \A p \in Plays : stage[p] \in {"none", "over"}

(* A viewer who asked to stop and started nothing since is left with no window and nothing
   that plays, as soon as nothing is under way: wherever the Stop found each playback, it was
   not lost on its way down the line.  This is what StopEndsIt promises, but for that it comes
   to rest. *)
THEOREM StopIsNotLost == Spec => []StoppedIsOver
<1>1. IInv /\ Watched /\ Stopping /\ Homed => StoppedIsOver
  <2> SUFFICES ASSUME IInv, Watched, Stopping, Homed, last # 0, turnedDown = last, Idle
               PROVE  open = {} /\ \A p \in Plays : stage[p] \in {"none", "over"}
    BY DEF StoppedIsOver
  <2>0. /\ Fits /\ Numbered /\ Pressed /\ AtRest
        /\ last \in Nat /\ last \in Plays /\ stage \in [Plays -> Stages]
        /\ last <= MaxPlays /\ MaxPlays \in Nat
    BY PlaybackAssumption DEF IInv, InTurn, Watched, Fits, Tasks, Plays, Idle
  <2>1. PICK q \in 0 .. last : Direct(q) /\ \A r \in q + 1 .. last : stage[r] = "relaying"
    BY DEF Stopping, Asked
  \* Whoever was told is over, so nobody passes anything on to it: it is the newest itself.
  <2>2. ~Live(q)
    <3>1. CASE q = 0
      BY <3>1 DEF Live
    <3>2. CASE q # 0
      <4>1. q \in Plays
        BY <2>0, <3>2 DEF Plays, Fits, Tasks
      <4> QED BY <2>0, <2>1, <4>1, NobodyTold
    <3> QED BY <3>1, <3>2
  <2>3. q = last
    <3> SUFFICES ASSUME q # last PROVE FALSE
      OBVIOUS
    <3>1. q + 1 \in q + 1 .. last /\ q + 1 \in Plays /\ (q + 1) - 1 = q
      BY <2>0 DEF Plays
    <3>2. stage[q + 1] = "relaying" /\ q + 1 # 0
      BY <2>0, <2>1, <3>1
    <3>3. Live(q)
      BY <2>0, <3>1, <3>2 DEF AtRest, Live
    <3> QED BY <2>2, <3>3
  <2>4. stage[last] # "relaying"
    BY <2>0, <2>2, <2>3 DEF Live
  \* Had one before it played, it would pass its controls on to that one.
  <2>5. \A p \in Plays : stage[p] # "playing"
    <3> SUFFICES ASSUME NEW p \in Plays, stage[p] = "playing" PROVE FALSE
      OBVIOUS
    <3>1. p <= last /\ p # last
      <4>1. ~(p > last)
        BY <2>0 DEF Numbered
      <4>2. p # last
        BY <2>0, <2>2, <2>3 DEF Live, Plays
      <4> QED BY <2>0, <4>1, <4>2 DEF Plays
    <3>2. last \in p + 1 .. last
      BY <2>0, <3>1 DEF Plays
    <3> QED BY <2>0, <2>4, <3>2, OthersPassOn
  <2>6. open = {}
    <3>1. ASSUME NEW w \in open PROVE FALSE
      <4>1. w \in open \ told /\ w # slot /\ w # 0
        BY <2>0 DEF Idle, Fits, Frames, Plays
      <4>2. PICK p \in Plays : holds[p] = w
        BY <4>1 DEF Homed, Kept
      <4>3. stage[p] = "leaving"
        BY <2>5, <4>1, <4>2 DEF Homed
      <4> QED BY <2>0, <4>3 DEF AtRest, Live, Plays
    <3> QED BY <3>1
  \* The oldest of a line passes its controls on to somebody.
  <2>7. \A p \in Plays : stage[p] \in {"none", "over"}
    <3> DEFINE T == {p \in Plays : Live(p)}
    <3>1. ASSUME T # {} PROVE FALSE
      <4>1. PICK m \in T : \A n \in T : m <= n
        <5>1. T \in SUBSET Nat
          BY DEF Plays
        <5> HIDE DEF T
        <5> QED BY <3>1, <5>1, LeastNatural
      <4>2. m \in Plays /\ Live(m - 1) /\ m - 1 # 0
        BY <2>0, <2>5, <4>1 DEF AtRest, Live
      <4>3. m - 1 \in T /\ ~(m <= m - 1)
        BY <4>2, BeforeIsOne DEF Plays
      <4> QED BY <4>1, <4>3
    <3> QED BY <2>0, <3>1 DEF Live, Plays
  <2> QED BY <2>6, <2>7
<1> QED BY <1>1, AlwaysStopping, PTL
=============================================================================
