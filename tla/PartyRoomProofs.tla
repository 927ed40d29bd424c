--------------------------- MODULE PartyRoomProofs ---------------------------
(***************************************************************************)
(* Theorems of PartyRoom, for any members, any number of pauses, resumes   *)
(* and connections lost, and any ticks.                                    *)
(***************************************************************************)
EXTENDS PartyRoom, FiniteSetTheorems, TLAPS

-----------------------------------------------------------------------------
(* Lines. *)

(* What of a line is a state. *)
StateOf(msg) == IF msg.kind = "state" THEN {msg} ELSE {}

LEMMA StatesOfNone == States(<<>>) = {}
BY DEF States

LEMMA StatesOfOne == ASSUME NEW msg PROVE States(<<msg>>) = StateOf(msg)
BY DEF States, StateOf

LEMMA StatesAppend ==
    ASSUME NEW S, NEW line \in Seq(S), NEW msg
    PROVE  States(Append(line, msg)) = States(line) \cup StateOf(msg)
<1>1. /\ Len(Append(line, msg)) = Len(line) + 1 /\ Append(line, msg)[Len(line) + 1] = msg
      /\ \A i \in 1..Len(line) : Append(line, msg)[i] = line[i]
  OBVIOUS
<1>2. Len(line) \in Nat
  OBVIOUS
<1>3. ASSUME NEW x \in States(Append(line, msg)) PROVE x \in States(line) \cup StateOf(msg)
  <2>1. PICK i \in 1..(Len(line) + 1) : x = Append(line, msg)[i] /\ x.kind = "state"
    BY <1>1 DEF States
  <2>2. CASE i = Len(line) + 1
    BY <1>1, <2>1, <2>2 DEF StateOf
  <2>3. CASE i \in 1..Len(line)
    BY <1>1, <2>1, <2>3 DEF States
  <2> QED BY <1>2, <2>2, <2>3
<1>4. ASSUME NEW x \in States(line) PROVE x \in States(Append(line, msg))
  <2>1. PICK i \in 1..Len(line) : x = line[i] /\ x.kind = "state"
    BY <1>4 DEF States
  <2>2. i \in 1..Len(Append(line, msg)) /\ x = Append(line, msg)[i]
    BY <1>1, <1>2, <2>1
  <2> QED BY <2>1, <2>2 DEF States
<1>5. ASSUME NEW x \in StateOf(msg) PROVE x \in States(Append(line, msg))
  <2>1. x = msg /\ msg.kind = "state"
    BY <1>5 DEF StateOf
  <2>2. Len(line) + 1 \in 1..Len(Append(line, msg))
    BY <1>1, <1>2
  <2> QED BY <1>1, <2>1, <2>2 DEF States
<1> QED BY <1>3, <1>4, <1>5

LEMMA StatesConcat ==
    ASSUME NEW S, NEW one \in Seq(S), NEW two \in Seq(S)
    PROVE  States(one \o two) = States(one) \cup States(two)
<1> DEFINE both == one \o two
<1>1. /\ Len(both) = Len(one) + Len(two) /\ Len(one) \in Nat /\ Len(two) \in Nat
      /\ \A i \in 1..Len(one) : both[i] = one[i]
      /\ \A i \in 1..Len(two) : both[Len(one) + i] = two[i]
  OBVIOUS
<1> HIDE DEF both
<1>2. ASSUME NEW x \in States(both) PROVE x \in States(one) \cup States(two)
  <2>1. PICK i \in 1..Len(both) : x = both[i] /\ x.kind = "state"
    BY DEF States
  <2>2. CASE i \in 1..Len(one)
    BY <1>1, <2>1, <2>2 DEF States
  <2>3. CASE i \notin 1..Len(one)
    <3>1. i - Len(one) \in 1..Len(two) /\ i = Len(one) + (i - Len(one))
      BY <1>1, <2>3
    <3>2. x = two[i - Len(one)]
      BY <1>1, <2>1, <3>1
    <3> QED BY <2>1, <3>1, <3>2 DEF States
  <2> QED BY <2>2, <2>3
<1>3. ASSUME NEW x \in States(one) PROVE x \in States(both)
  <2>1. PICK i \in 1..Len(one) : x = one[i] /\ x.kind = "state"
    BY DEF States
  <2>2. i \in 1..Len(both) /\ x = both[i]
    BY <1>1, <2>1
  <2> QED BY <2>1, <2>2 DEF States
<1>4. ASSUME NEW x \in States(two) PROVE x \in States(both)
  <2>1. PICK i \in 1..Len(two) : x = two[i] /\ x.kind = "state"
    BY DEF States
  <2>2. Len(one) + i \in 1..Len(both) /\ x = both[Len(one) + i]
    BY <1>1, <2>1
  <2> QED BY <2>1, <2>2 DEF States
<1> QED BY <1>2, <1>3, <1>4 DEF both

LEMMA StatesHeadTail ==
    ASSUME NEW S, NEW line \in Seq(S), line # <<>>
    PROVE  /\ Head(line) \in S /\ Tail(line) \in Seq(S)
           /\ States(line) = StateOf(Head(line)) \cup States(Tail(line))
<1>1. /\ Head(line) \in S /\ Tail(line) \in Seq(S) /\ Head(line) = line[1]
      /\ Len(line) \in Nat \ {0} /\ Len(Tail(line)) = Len(line) - 1
      /\ \A i \in 1..(Len(line) - 1) : Tail(line)[i] = line[i + 1]
  OBVIOUS
<1>2. ASSUME NEW x \in States(line) PROVE x \in StateOf(Head(line)) \cup States(Tail(line))
  <2>1. PICK i \in 1..Len(line) : x = line[i] /\ x.kind = "state"
    BY DEF States
  <2>2. CASE i = 1
    BY <1>1, <2>1, <2>2 DEF StateOf
  <2>3. CASE i # 1
    <3>1. i - 1 \in 1..Len(Tail(line)) /\ x = Tail(line)[i - 1]
      BY <1>1, <2>1, <2>3
    <3> QED BY <2>1, <3>1 DEF States
  <2> QED BY <2>2, <2>3
<1>3. ASSUME NEW x \in StateOf(Head(line)) PROVE x \in States(line)
  <2>1. x = line[1] /\ x.kind = "state" /\ 1 \in 1..Len(line)
    BY <1>1, <1>3 DEF StateOf
  <2> QED BY <2>1 DEF States
<1>4. ASSUME NEW x \in States(Tail(line)) PROVE x \in States(line)
  <2>1. PICK i \in 1..Len(Tail(line)) : x = Tail(line)[i] /\ x.kind = "state"
    BY DEF States
  <2>2. i + 1 \in 1..Len(line) /\ x = line[i + 1]
    BY <1>1, <2>1
  <2> QED BY <2>1, <2>2 DEF States
<1> QED BY <1>1, <1>2, <1>3, <1>4

-----------------------------------------------------------------------------
(* One player kept with the room. *)

Outcome == [client : Client, order : Known, change : Known, seek : BOOLEAN]

(* What the rules of Sync do not touch. *)
Same(c, d) == /\ d.online = c.online /\ d.listed = c.listed /\ d.others = c.others
              /\ d.awaiting = c.awaiting /\ d.held = c.held

(* A player that only does what its user and the room have it do: p is what it does, r its
   report on the way. *)
Obedient(c, p, r) ==
    /\ c.want \in {Nothing, p} /\ c.here \in {Nothing, p}
    /\ c.here = Nothing => c.want = Nothing
    /\ c.want = Nothing => r \in {Nothing, p}
    /\ c.held = Nothing
    /\ c.synced => c.here # Nothing
    /\ c.awaiting => c.synced

(* What the player does once it has obeyed. *)
Does(order, p) == IF order = Nothing THEN p ELSE order

LEMMA NothingIsNoTruth == Nothing \notin BOOLEAN
BY PartyAssumption

LEMMA FollowFacts ==
    ASSUME NEW c \in Client, NEW is \in BOOLEAN
    PROVE  /\ Follow(c, is) \in Outcome
           /\ Same(c, Follow(c, is).client) /\ Follow(c, is).change = Nothing
           /\ Follow(c, is).client.synced = c.synced
<1>1. CASE c.here = is
  BY <1>1 DEF Follow, Quiet, Outcome, Known, Same
<1>2. CASE c.here # is
  <2> DEFINE d == [c EXCEPT !.here = is, !.want = is]
  <2>1. d \in Client /\ Same(c, d) /\ d.synced = c.synced
    BY DEF Client, Known, Same
  <2>2. Follow(c, is) = [client |-> d, order |-> is, change |-> Nothing, seek |-> FALSE]
    BY <1>2 DEF Follow, Quiet
  <2> HIDE DEF d
  <2> QED BY <2>1, <2>2 DEF Outcome, Known
<1> QED BY <1>1, <1>2

LEMMA FollowObeys ==
    ASSUME NEW c \in Client, NEW is \in BOOLEAN, NEW p \in BOOLEAN, NEW r \in Known,
           Obedient(c, p, r), c.here # Nothing
    PROVE  Obedient(Follow(c, is).client, Does(Follow(c, is).order, p), r)
<1>1. CASE c.here = is
  BY <1>1 DEF Follow, Quiet, Does
<1>2. CASE c.here # is
  <2> DEFINE d == [c EXCEPT !.here = is, !.want = is]
  <2>1. /\ d.here = is /\ d.want = is /\ d.held = c.held /\ d.synced = c.synced
        /\ d.awaiting = c.awaiting
    BY DEF Client
  <2>2. Follow(c, is).client = d /\ Follow(c, is).order = is
    BY <1>2 DEF Follow, Quiet
  <2>3. is # Nothing
    BY NothingIsNoTruth
  <2> HIDE DEF d
  <2> QED BY <2>1, <2>2, <2>3 DEF Obedient, Does
<1> QED BY <1>1, <1>2

LEMMA TogetherFacts ==
    ASSUME NEW c \in Client
    PROVE  /\ Together(c) \in Outcome /\ Same(c, Together(c).client)
           /\ Together(c).change # Nothing => Together(c).seek /\ Together(c).client.synced
<1> DEFINE met == [c EXCEPT !.synced = TRUE, !.room = Nothing]
<1>1. met \in Client /\ Same(c, met) /\ met.here = c.here /\ met.synced
  BY DEF Client, Known, Same
<1> HIDE DEF met
<1>2. CASE Nothing \in {c.here, c.room}
  BY <1>2 DEF Together, Quiet, Outcome, Known, Same
<1>3. CASE Nothing \notin {c.here, c.room} /\ c.others = {}
  <2>1. Together(c) = [client |-> met, order |-> Nothing, change |-> met.here, seek |-> TRUE]
    BY <1>3 DEF Together, Changed, met
  <2> QED BY <1>1, <2>1 DEF Outcome, Known, Client
<1>4. CASE Nothing \notin {c.here, c.room} /\ c.others # {}
  <2>1. Together(c) = Follow(met, c.room)
    BY <1>4 DEF Together, met
  <2>2. c.room \in BOOLEAN
    BY <1>4 DEF Client, Known
  <2>3. Together(c) \in Outcome /\ Same(met, Together(c).client) /\ Together(c).change = Nothing
    BY <1>1, <2>1, <2>2, FollowFacts
  <2> QED BY <1>1, <2>3 DEF Same
<1> QED BY <1>2, <1>3, <1>4

LEMMA TogetherObeys ==
    ASSUME NEW c \in Client, NEW p \in BOOLEAN, NEW r \in Known, Obedient(c, p, r)
    PROVE  Obedient(Together(c).client, Does(Together(c).order, p), r)
<1> DEFINE met == [c EXCEPT !.synced = TRUE, !.room = Nothing]
<1>1. met \in Client
  BY DEF Client, Known
<1>2. /\ met.here = c.here /\ met.want = c.want /\ met.held = c.held /\ met.synced
      /\ met.awaiting = c.awaiting
  BY DEF Client
<1> HIDE DEF met
<1>3. c.here # Nothing => Obedient(met, p, r)
  BY <1>2 DEF Obedient
<1>4. CASE Nothing \in {c.here, c.room}
  BY <1>4 DEF Together, Quiet, Does
<1>5. CASE Nothing \notin {c.here, c.room} /\ c.others = {}
  <2>1. Together(c) = [client |-> met, order |-> Nothing, change |-> met.here, seek |-> TRUE]
    BY <1>5 DEF Together, Changed, met
  <2> QED BY <1>3, <1>5, <2>1 DEF Does
<1>6. CASE Nothing \notin {c.here, c.room} /\ c.others # {}
  <2>1. Together(c) = Follow(met, c.room)
    BY <1>6 DEF Together, met
  <2>2. c.room \in BOOLEAN
    BY <1>6 DEF Client, Known
  <2> QED BY <1>1, <1>2, <1>3, <1>6, <2>1, <2>2, FollowObeys
<1> QED BY <1>4, <1>5, <1>6

(* What the report is taken to say. *)
Believed(c, says) == [c EXCEPT !.here = IF c.want = Nothing THEN says ELSE c.want,
                               !.want = IF says = @ THEN Nothing ELSE @]

LEMMA SampleFacts ==
    ASSUME NEW c \in Client, NEW says \in BOOLEAN
    PROVE  Sample(c, says) \in Outcome /\ Same(c, Sample(c, says).client)
<1> DEFINE heard == Believed(c, says)
<1>1. heard \in Client /\ Same(c, heard)
  BY DEF Client, Known, Same, Believed
<1> HIDE DEF heard
<1>2. CASE c.here = Nothing \/ ~c.synced
  <2>1. Sample(c, says) = Together(heard)
    BY <1>2 DEF Sample, heard, Believed
  <2> QED BY <1>1, <2>1, TogetherFacts DEF Same
<1>3. CASE c.here # Nothing /\ c.synced /\ heard.here # c.here
  <2>1. Sample(c, says) = [client |-> heard, order |-> Nothing, change |-> heard.here, seek |-> FALSE]
    BY <1>3 DEF Sample, Changed, heard, Believed
  <2> QED BY <1>1, <2>1 DEF Outcome, Known, Client
<1>4. CASE c.here # Nothing /\ c.synced /\ heard.here = c.here
  <2>1. Sample(c, says) = [client |-> heard, order |-> Nothing, change |-> Nothing, seek |-> FALSE]
    BY <1>4 DEF Sample, Quiet, heard, Believed
  <2> QED BY <1>1, <2>1 DEF Outcome, Known
<1> QED BY <1>2, <1>3, <1>4

LEMMA SampleObeys ==
    ASSUME NEW c \in Client, NEW says \in BOOLEAN, NEW p \in BOOLEAN, Obedient(c, p, says)
    PROVE  /\ Obedient(Sample(c, says).client, Does(Sample(c, says).order, p), Nothing)
           /\ Sample(c, says).change # Nothing =>
                Sample(c, says).seek /\ Sample(c, says).client.synced /\ ~c.awaiting
<1> DEFINE heard == Believed(c, says)
<1>1. heard \in Client
  BY DEF Client, Known, Believed
<1>2. /\ heard.here = IF c.want = Nothing THEN says ELSE c.want
      /\ heard.want = IF says = c.want THEN Nothing ELSE c.want
      /\ heard.held = c.held /\ heard.synced = c.synced /\ heard.awaiting = c.awaiting
  BY DEF Client, Believed
<1>a. says # Nothing
  BY NothingIsNoTruth
<1> HIDE DEF heard
<1>3. heard.here = p
  BY <1>2, <1>a DEF Obedient
<1>4. p # Nothing
  BY NothingIsNoTruth
<1>5. Obedient(heard, p, Nothing)
  BY <1>2, <1>3, <1>4 DEF Obedient
<1>6. CASE c.here = Nothing \/ ~c.synced
  <2>1. Sample(c, says) = Together(heard)
    BY <1>6 DEF Sample, heard, Believed
  <2>2. ~c.awaiting
    BY <1>6 DEF Obedient
  <2>3. Nothing \in Known
    BY DEF Known
  <2> QED BY <1>1, <1>5, <2>1, <2>2, <2>3, TogetherFacts, TogetherObeys
<1>7. CASE c.here # Nothing /\ c.synced
  <2>1. heard.here = c.here
    BY <1>3, <1>7 DEF Obedient
  <2>2. Sample(c, says) = [client |-> heard, order |-> Nothing, change |-> Nothing, seek |-> FALSE]
    BY <1>7, <2>1 DEF Sample, Quiet, heard, Believed
  <2> QED BY <1>5, <2>2 DEF Does
<1> QED BY <1>6, <1>7

LEMMA RoomFacts ==
    ASSUME NEW c \in Client, NEW is \in BOOLEAN
    PROVE  Room(c, is) \in Outcome /\ Same(c, Room(c, is).client)
<1> DEFINE told == [c EXCEPT !.room = is]
<1>1. told \in Client /\ Same(c, told)
  BY DEF Client, Known, Same
<1> HIDE DEF told
<1>2. CASE c.here = Nothing
  <2>1. Room(c, is) = [client |-> told, order |-> Nothing, change |-> Nothing, seek |-> FALSE]
    BY <1>2 DEF Room, Quiet, told
  <2> QED BY <1>1, <2>1 DEF Outcome, Known
<1>3. CASE c.here # Nothing /\ ~c.synced
  <2>1. Room(c, is) = Together(told)
    BY <1>3 DEF Room, told
  <2> QED BY <1>1, <2>1, TogetherFacts DEF Same
<1>4. CASE c.here # Nothing /\ c.synced
  BY <1>4, FollowFacts DEF Room
<1> QED BY <1>2, <1>3, <1>4

LEMMA RoomObeys ==
    ASSUME NEW c \in Client, NEW is \in BOOLEAN, NEW p \in BOOLEAN, NEW r \in Known,
           Obedient(c, p, r)
    PROVE  /\ Obedient(Room(c, is).client, Does(Room(c, is).order, p), r)
           /\ Room(c, is).change # Nothing =>
                Room(c, is).seek /\ Room(c, is).client.synced /\ ~c.awaiting
<1> DEFINE told == [c EXCEPT !.room = is]
<1>1. told \in Client
  BY DEF Client, Known
<1>2. /\ told.here = c.here /\ told.want = c.want /\ told.held = c.held
      /\ told.synced = c.synced /\ told.awaiting = c.awaiting
  BY DEF Client
<1> HIDE DEF told
<1>3. Obedient(told, p, r)
  BY <1>2 DEF Obedient
<1>4. CASE c.here = Nothing
  <2>1. Room(c, is) = [client |-> told, order |-> Nothing, change |-> Nothing, seek |-> FALSE]
    BY <1>4 DEF Room, Quiet, told
  <2> QED BY <1>3, <2>1 DEF Does
<1>5. CASE c.here # Nothing /\ ~c.synced
  <2>1. Room(c, is) = Together(told)
    BY <1>5 DEF Room, told
  <2>2. ~c.awaiting
    BY <1>5 DEF Obedient
  <2> QED BY <1>1, <1>3, <2>1, <2>2, TogetherFacts, TogetherObeys
<1>6. CASE c.here # Nothing /\ c.synced
  BY <1>6, FollowFacts, FollowObeys DEF Room
<1> QED BY <1>4, <1>5, <1>6

-----------------------------------------------------------------------------
(* What is sent. *)

StateUp   == [kind : {"state"}, paused : Known, seek : BOOLEAN, server : Nat, client : BOOLEAN,
              change : BOOLEAN]
StateDown == [kind : {"state"}, paused : BOOLEAN, server : Nat, client : BOOLEAN]
Up   == {Meet} \cup StateUp
Down == StateDown \cup [kind : {"list"}, who : SUBSET Members]
                  \cup [kind : {"file", "left"}, who : Members]

LEMMA Kinds ==
    /\ \A msg \in Up : msg.kind = "state" => msg \in StateUp
    /\ \A msg \in Down : /\ msg.kind = "state" => msg \in StateDown
                         /\ msg.kind = "list" => msg.who \in SUBSET Members
                         /\ msg.kind \in {"file", "left"} => msg.who \in Members
                         /\ msg.kind \in {"state", "list", "file", "left"}
BY DEF Up, Down, StateUp, StateDown, Meet

(* What the connection does not touch of a client. *)
Kept(c, d) == /\ d \in Client /\ d.online = c.online /\ d.here = c.here /\ d.want = c.want
              /\ d.synced = c.synced /\ d.listed = c.listed /\ d.room = c.room

(* A change goes out, acknowledging n, or is held, or there is none. *)
Sends(c, change, seek, n, made) ==
    \/ made.sent = <<>> /\ made.client = c /\ change = Nothing
    \/ /\ made.sent = <<>> /\ change # Nothing /\ c.awaiting
       /\ made.client.awaiting /\ made.client.held = change
    \/ /\ made.sent = <<FromMember(change, seek, n, TRUE, TRUE)>>
       /\ FromMember(change, seek, n, TRUE, TRUE) \in StateUp
       /\ change # Nothing /\ ~c.awaiting /\ made.client.awaiting /\ made.client.held = c.held

LEMMA SendFacts ==
    ASSUME NEW c \in Client, NEW change \in Known, NEW seek \in BOOLEAN, NEW n \in Nat,
           NEW made, made = SendChange(c, change, seek, n)
    PROVE  Kept(c, made.client) /\ Sends(c, change, seek, n, made)
<1>1. CASE change = Nothing
  <2>1. made = [client |-> c, sent |-> <<>>]
    BY <1>1 DEF SendChange
  <2> QED BY <1>1, <2>1 DEF Kept, Sends
<1>2. CASE change # Nothing /\ c.awaiting
  <2> DEFINE d == [c EXCEPT !.held = change]
  <2>1. Kept(c, d) /\ d.awaiting /\ d.held = change
    BY <1>2 DEF Client, Kept
  <2>2. made = [client |-> d, sent |-> <<>>]
    BY <1>2 DEF SendChange
  <2> HIDE DEF d
  <2>3. made.client = d /\ made.sent = <<>>
    BY <2>2
  <2> QED BY <1>2, <2>1, <2>3 DEF Sends
<1>3. CASE change # Nothing /\ ~c.awaiting
  <2> DEFINE d   == [c EXCEPT !.awaiting = TRUE]
             msg == FromMember(change, seek, n, TRUE, TRUE)
  <2>1. Kept(c, d) /\ d.awaiting /\ d.held = c.held
    BY DEF Client, Kept
  <2>2. made = [client |-> d, sent |-> <<msg>>]
    BY <1>3 DEF SendChange
  <2>3. msg \in StateUp
    BY DEF FromMember, StateUp
  <2> HIDE DEF d, msg
  <2>4. made.client = d /\ made.sent = <<msg>>
    BY <2>2
  <2> QED BY <1>3, <2>1, <2>3, <2>4 DEF Sends, msg
<1> QED BY <1>1, <1>2, <1>3

(* A state is heard: who was waiting either stops, or waits for a change just sent. *)
Hears(c, msg, first) ==
    \/ first.sent = <<>> /\ ~first.client.awaiting /\ first.client.held = Nothing
    \/ first.sent = <<>> /\ first.client = c /\ msg.server = 0 /\ (msg.client => ~c.awaiting)
    \/ /\ first.sent = <<FromMember(c.held, FALSE, 0, TRUE, TRUE)>>
       /\ FromMember(c.held, FALSE, 0, TRUE, TRUE) \in StateUp
       /\ c.held # Nothing /\ first.client.awaiting /\ first.client.held = Nothing
       /\ msg.server = 0

LEMMA HeardFacts ==
    ASSUME NEW c \in Client, NEW msg \in StateDown, NEW first, first = Heard(c, msg)
    PROVE  Kept(c, first.client) /\ Hears(c, msg, first)
<1> DEFINE over == [c EXCEPT !.awaiting = FALSE, !.held = Nothing]
<1>1. Kept(c, over) /\ over.held = Nothing /\ over.awaiting = FALSE
  BY DEF Client, Known, Kept
<1>2. /\ c.held \in Known /\ 0 \in Nat /\ msg.server \in Nat
      /\ msg.client \in BOOLEAN /\ c.awaiting \in BOOLEAN
  BY DEF Client, StateDown
<1>3. CASE msg.server > 0
  <2>1. first = [client |-> over, sent |-> <<>>]
    <3>1. msg.server # 0
      BY <1>2, <1>3
    <3> QED BY <1>3, <3>1 DEF Heard
  <2> HIDE DEF over
  <2>2. first.client = over /\ first.sent = <<>>
    BY <2>1
  <2> QED BY <1>1, <2>2 DEF Hears
<1>4. CASE msg.server = 0 /\ msg.client /\ c.awaiting
  <2>1. first = SendChange(over, c.held, FALSE, 0)
    BY <1>2, <1>4 DEF Heard
  <2> HIDE DEF over
  <2>2. over \in Client
    BY <1>1 DEF Kept
  <2>3. Kept(over, first.client) /\ Sends(over, c.held, FALSE, 0, first)
    BY <1>2, <2>1, <2>2, SendFacts
  <2> QED BY <1>1, <1>4, <2>3 DEF Hears, Sends, Kept
<1>5. CASE msg.server = 0 /\ ~(msg.client /\ c.awaiting)
  <2>1. first = [client |-> c, sent |-> <<>>]
    <3>1. ~(msg.server > 0)
      BY <1>5
    <3>2. ~(msg.server = 0 /\ msg.client /\ c.awaiting)
      BY <1>5
    <3> QED BY <3>1, <3>2, Zenon DEF Heard
  <2>2. first.client = c /\ first.sent = <<>>
    BY <2>1
  <2> QED BY <1>5, <2>2 DEF Hears, Kept
<1> QED BY <1>2, <1>3, <1>4, <1>5

-----------------------------------------------------------------------------
(* Type correctness. *)

Players   == paused \in [Members -> BOOLEAN] /\ report \in [Members -> Known]
Clients   == client \in [Members -> Client]
Wires     == up \in [Members -> Seq(Up)] /\ down \in [Members -> Seq(Down)]
Serving   == room \in BOOLEAN /\ deaf \in [Members -> Nat] /\ ack \in [Members -> BOOLEAN]
Budget    == changed \in BOOLEAN /\ events \in 0..MaxEvents
(* Nothing is on a line that is down, and the server knows whom it has lost. *)
Connected == /\ file \subseteq Online
             /\ \A m \in Members : ~client[m].online => up[m] = <<>> /\ down[m] = <<>>

IInv == Players /\ Clients /\ Wires /\ Serving /\ Budget /\ Connected

LEMMA UnchangedParts ==
    ASSUME IInv
    PROVE  /\ UNCHANGED watching => Players'
           /\ UNCHANGED client => Clients'
           /\ UNCHANGED network => Wires'
           /\ UNCHANGED <<room, deaf, ack>> => Serving'
           /\ UNCHANGED budget => Budget'
           /\ UNCHANGED <<file, client, network>> => Connected'
<1>1. (UNCHANGED watching => Players') /\ (UNCHANGED client => Clients')
  BY DEF IInv, Players, Clients, watching
<1>2. UNCHANGED network => Wires'
  BY DEF IInv, Wires, network
<1>3. (UNCHANGED <<room, deaf, ack>> => Serving') /\ (UNCHANGED budget => Budget')
  BY DEF IInv, Serving, Budget, budget
<1>4. UNCHANGED <<file, client, network>> => Connected'
  BY DEF IInv, Connected, Online, network
<1> QED BY <1>1, <1>2, <1>3, <1>4

(* A state heard: what of this side it ends, what the player is told, what is sent. *)
Exchange(m, msg, first, sync, made, answer) ==
    /\ Kept(client[m], first.client) /\ Hears(client[m], msg, first)
    /\ sync \in Outcome /\ Same(first.client, sync.client)
    /\ \/ sync = Quiet(first.client) /\ (first.client.listed => first.client.awaiting)
       \/ /\ sync = Room(first.client, msg.paused)
          /\ first.client.listed /\ ~first.client.awaiting
    /\ Kept(sync.client, made.client)
    /\ Sends(sync.client, sync.change, sync.seek, msg.server, made)
    /\ answer \in StateUp /\ ~answer.change
    /\ answer.server = IF made.sent = <<>> THEN msg.server ELSE 0
    /\ client' = [client EXCEPT ![m] = made.client]
    /\ Obey(m, sync.order)
    /\ up' = [up EXCEPT ![m] = @ \o first.sent \o made.sent \o <<answer>>]

LEMMA QuietFacts ==
    ASSUME NEW c \in Client
    PROVE  Quiet(c) \in Outcome /\ Same(c, Quiet(c).client)
BY DEF Quiet, Outcome, Known, Same

LEMMA OnStateFacts ==
    ASSUME Clients, NEW m \in Members, NEW msg \in StateDown, OnState(m, msg)
    PROVE  \E first, sync, made, answer : Exchange(m, msg, first, sync, made, answer)
<1> DEFINE first  == Heard(client[m], msg)
           acts   == first.client.listed /\ ~first.client.awaiting
           sync   == IF acts THEN Room(first.client, msg.paused) ELSE Quiet(first.client)
           made   == SendChange(sync.client, sync.change, sync.seek, msg.server)
           owed   == IF made.sent = <<>> THEN msg.server ELSE 0
           here   == IF ~made.client.awaiting \/ owed # 0 THEN made.client.here ELSE Nothing
           answer == FromMember(here, FALSE, owed, made.client.awaiting, FALSE)
<1>1. client[m] \in Client /\ msg.paused \in BOOLEAN /\ msg.server \in Nat
  BY DEF Clients, StateDown
<1>2. /\ client' = [client EXCEPT ![m] = made.client]
      /\ Obey(m, sync.order)
      /\ up' = [up EXCEPT ![m] = @ \o first.sent \o made.sent \o <<answer>>]
  BY DEF OnState
<1>3. Kept(client[m], first.client) /\ Hears(client[m], msg, first)
  BY <1>1, HeardFacts
<1> HIDE DEF first
<1>4. first.client \in Client
  BY <1>3 DEF Kept
<1>5. /\ sync \in Outcome /\ Same(first.client, sync.client)
      /\ \/ sync = Quiet(first.client) /\ (first.client.listed => first.client.awaiting)
         \/ /\ sync = Room(first.client, msg.paused)
            /\ first.client.listed /\ ~first.client.awaiting
  <2>1. CASE acts
    BY <1>1, <1>4, <2>1, RoomFacts
  <2>2. CASE ~acts
    BY <1>4, <2>2, QuietFacts
  <2> QED BY <2>1, <2>2
<1> HIDE DEF sync
<1>6. Kept(sync.client, made.client) /\ Sends(sync.client, sync.change, sync.seek, msg.server, made)
  BY <1>1, <1>5, SendFacts DEF Outcome
<1> HIDE DEF made
<1>7. owed \in Nat /\ made.client.awaiting \in BOOLEAN /\ here \in Known
  BY <1>1, <1>6 DEF Kept, Client, Known
<1> HIDE DEF here
<1>8. answer \in StateUp /\ ~answer.change /\ answer.server = owed
  BY <1>7 DEF FromMember, StateUp
<1> HIDE DEF answer
<1>9. Exchange(m, msg, first, sync, made, answer)
  BY <1>2, <1>3, <1>5, <1>6, <1>8 DEF Exchange
<1> QED BY <1>9

LEMMA OneFits ==
    ASSUME NEW line, line = <<>> \/ \E x \in StateUp : line = <<x>>
    PROVE  line \in Seq(Up)
<1>1. <<>> \in Seq(Up)
  OBVIOUS
<1>2. \A x \in StateUp : <<x>> \in Seq(Up)
  BY DEF Up
<1> QED BY <1>1, <1>2, Zenon

(* What is sent fits the line. *)
LEMMA SentFits ==
    ASSUME NEW m \in Members, NEW msg, NEW first, NEW sync, NEW made, NEW answer,
           Exchange(m, msg, first, sync, made, answer)
    PROVE  /\ first.sent \in Seq(Up) /\ made.sent \in Seq(Up) /\ <<answer>> \in Seq(Up)
           /\ made.client \in Client /\ made.client.online = client[m].online
<1>1. first.sent \in Seq(Up)
  <2>1. first.sent = <<>> \/ \E x \in StateUp : first.sent = <<x>>
    BY DEF Exchange, Hears
  <2> QED BY <2>1, OneFits
<1>2. made.sent \in Seq(Up)
  <2>1. made.sent = <<>> \/ \E x \in StateUp : made.sent = <<x>>
    BY DEF Exchange, Sends
  <2> QED BY <2>1, OneFits
<1>3. <<answer>> \in Seq(Up)
  BY DEF Exchange, Up
<1>4. made.client \in Client /\ made.client.online = client[m].online
  BY DEF Exchange, Kept, Same
<1> QED BY <1>1, <1>2, <1>3, <1>4

(* A client that stays as connected as it was. *)
LEMMA StaysConnected ==
    ASSUME IInv, NEW m \in Members, NEW d \in Client, d.online = client[m].online,
           client' = [client EXCEPT ![m] = d]
    PROVE  Clients' /\ Online' = Online /\ \A j \in Members : client'[j].online = client[j].online
<1>1. client \in [Members -> Client]
  BY DEF IInv, Clients
<1>2. \A j \in Members : client'[j].online = client[j].online
  BY <1>1
<1> QED BY <1>1, <1>2 DEF Clients, Online

LEMMA HearInv == ASSUME IInv, NEW m \in Members, Hear(m) PROVE IInv'
<1> USE DEF IInv
<1>1. /\ down[m] \in Seq(Down) /\ down[m] # <<>> /\ Head(down[m]) \in Down
      /\ down' = [down EXCEPT ![m] = Tail(@)] /\ UNCHANGED <<report, room, file, deaf, ack, budget>>
      /\ Tail(down[m]) \in Seq(Down)
  BY StatesHeadTail DEF Hear, Wires, server
<1>2. client[m].online /\ m \in Online
  BY <1>1 DEF Connected, Online
<1>3. Serving' /\ Budget'
  BY <1>1, UnchangedParts
<1>4. down' \in [Members -> Seq(Down)] /\ \A j \in Members \ {m} : down'[j] = down[j]
  BY <1>1 DEF Wires
<1>5. CASE Head(down[m]).kind = "state"
  <2>1. Head(down[m]) \in StateDown
    BY <1>1, <1>5, Kinds
  <2>2. PICK first, sync, made, answer : Exchange(m, Head(down[m]), first, sync, made, answer)
    BY <1>5, <2>1, OnStateFacts DEF Hear
  <2>3. /\ first.sent \in Seq(Up) /\ made.sent \in Seq(Up) /\ <<answer>> \in Seq(Up)
        /\ made.client \in Client /\ made.client.online = client[m].online
    BY <2>2, SentFits
  <2>4. /\ client' = [client EXCEPT ![m] = made.client] /\ Obey(m, sync.order) /\ sync.order \in Known
        /\ up' = [up EXCEPT ![m] = @ \o first.sent \o made.sent \o <<answer>>]
    BY <2>2 DEF Exchange, Outcome
  <2>5. Clients' /\ Online' = Online /\ \A j \in Members : client'[j].online = client[j].online
    BY <2>3, <2>4, StaysConnected
  <2>6. up[m] \o first.sent \o made.sent \o <<answer>> \in Seq(Up)
    BY <2>3 DEF Wires
  <2>7. up' \in [Members -> Seq(Up)] /\ \A j \in Members \ {m} : up'[j] = up[j]
    BY <2>4, <2>6 DEF Wires
  <2>8. Players'
    BY <1>1, <2>4 DEF Players, Obey, Known
  <2>9. Connected'
    BY <1>1, <1>2, <1>4, <2>5, <2>7 DEF Connected
  <2> QED BY <1>3, <1>4, <2>5, <2>7, <2>8, <2>9 DEF Wires
<1>6. CASE Head(down[m]).kind # "state"
  <2> DEFINE msg == Head(down[m])
  <2>a. client[m] \in Client /\ OnMembers(m, msg)
    BY <1>6 DEF Hear, Clients
  <2>b. msg \in Down /\ msg.kind \in {"list", "file", "left"}
    BY <1>1, <1>6, Kinds
  <2> HIDE DEF msg
  <2>1. PICK d \in Client : client' = [client EXCEPT ![m] = d] /\ d.online = client[m].online
    <3>1. CASE msg.kind = "list"
      <4> DEFINE e == [client[m] EXCEPT !.listed = TRUE, !.others = msg.who \ {m}]
      <4>1. e \in Client /\ e.online = client[m].online
        BY <2>a, <2>b, <3>1, Kinds DEF Client
      <4>2. client' = [client EXCEPT ![m] = e]
        BY <2>a, <3>1 DEF OnMembers
      <4> QED BY <4>1, <4>2
    <3>2. CASE msg.kind = "file"
      <4> DEFINE e == [client[m] EXCEPT !.others = @ \cup {msg.who}]
      <4>1. e \in Client /\ e.online = client[m].online
        BY <2>a, <2>b, <3>2, Kinds DEF Client
      <4>2. client' = [client EXCEPT ![m] = e]
        BY <2>a, <3>2 DEF OnMembers
      <4> QED BY <4>1, <4>2
    <3>3. CASE msg.kind = "left"
      <4> DEFINE e == [client[m] EXCEPT !.others = @ \ {msg.who}]
      <4>1. e \in Client /\ e.online = client[m].online
        BY <2>a, <2>b, <3>3, Kinds DEF Client
      <4>2. client' = [client EXCEPT ![m] = e]
        BY <2>a, <3>3 DEF OnMembers
      <4> QED BY <4>1, <4>2
    <3> QED BY <2>b, <3>1, <3>2, <3>3
  <2>2. UNCHANGED <<paused, up>>
    BY <2>a DEF OnMembers
  <2>3. Clients' /\ Online' = Online /\ \A j \in Members : client'[j].online = client[j].online
    BY <2>1, StaysConnected
  <2>4. Players'
    BY <1>1, <2>2, UnchangedParts DEF watching
  <2>5. Connected'
    BY <1>1, <1>2, <1>4, <2>2, <2>3 DEF Connected
  <2> QED BY <1>3, <1>4, <2>2, <2>3, <2>4, <2>5 DEF Wires
<1> QED BY <1>5, <1>6

LEMMA TakeReportInv == ASSUME IInv, NEW m \in Members, TakeReport(m) PROVE IInv'
<1> USE DEF IInv
<1>1. /\ report[m] \in BOOLEAN /\ report' = [report EXCEPT ![m] = Nothing]
      /\ UNCHANGED <<down, room, file, deaf, ack, budget>> /\ client[m] \in Client
  BY DEF TakeReport, server, Players, Known, Clients
<1>2. Serving' /\ Budget'
  BY <1>1, UnchangedParts
<1>3. report' \in [Members -> Known]
  BY <1>1 DEF Players, Known
<1>4. CASE client[m].online
  <2> DEFINE sync == Sample(client[m], report[m])
             made == SendChange(sync.client, sync.change, sync.seek, 0)
  <2>1. client' = [client EXCEPT ![m] = made.client] /\ Obey(m, sync.order) /\ up' = [up EXCEPT ![m] = @ \o made.sent]
    BY <1>4 DEF TakeReport
  <2>2. sync \in Outcome /\ Same(client[m], sync.client)
    BY <1>1, SampleFacts
  <2> HIDE DEF sync
  <2>3. Kept(sync.client, made.client) /\ Sends(sync.client, sync.change, sync.seek, 0, made)
    BY <2>2, SendFacts DEF Outcome
  <2> HIDE DEF made
  <2>4. made.client \in Client /\ made.client.online = client[m].online
    BY <2>2, <2>3 DEF Same, Kept
  <2>5. Clients' /\ Online' = Online /\ \A j \in Members : client'[j].online = client[j].online
    BY <2>1, <2>4, StaysConnected
  <2>6. made.sent \in Seq(Up)
    <3>1. made.sent = <<>> \/ \E x \in StateUp : made.sent = <<x>>
      BY <2>3 DEF Sends
    <3> QED BY <3>1, OneFits
  <2>7. up' \in [Members -> Seq(Up)] /\ \A j \in Members \ {m} : up'[j] = up[j]
    BY <2>1, <2>6 DEF Wires
  <2>8. Players'
    BY <1>3, <2>1, <2>2 DEF Players, Obey, Outcome, Known
  <2>9. Connected'
    BY <1>1, <1>4, <2>5, <2>7 DEF Connected
  <2> QED BY <1>1, <1>2, <2>5, <2>7, <2>8, <2>9 DEF Wires
<1>5. CASE ~client[m].online
  <2> DEFINE lone  == [client[m] EXCEPT !.others = {}]
             alone == Sample(lone, report[m])
  <2>1. client' = [client EXCEPT ![m] = alone.client] /\ UNCHANGED <<paused, up>>
    BY <1>5 DEF TakeReport
  <2>2. lone \in Client /\ lone.online = client[m].online
    BY <1>1 DEF Client
  <2> HIDE DEF lone
  <2>3. alone \in Outcome /\ Same(lone, alone.client)
    BY <1>1, <2>2, SampleFacts
  <2> HIDE DEF alone
  <2>4. alone.client \in Client /\ alone.client.online = client[m].online
    BY <2>2, <2>3 DEF Outcome, Same
  <2>5. Clients' /\ Online' = Online /\ \A j \in Members : client'[j].online = client[j].online
    BY <2>1, <2>4, StaysConnected
  <2>6. Players'
    BY <1>3, <2>1 DEF Players
  <2>7. Wires'
    BY <1>1, <2>1, UnchangedParts DEF network
  <2>8. Connected'
    BY <1>1, <2>1, <2>5 DEF Connected
  <2> QED BY <1>2, <2>5, <2>6, <2>7, <2>8
<1> QED BY <1>4, <1>5

(* What the server does with a state: it is taken for the room's and forced on everyone, or
   noted. *)
Takes(m, msg, heard, acks) ==
    /\ heard \in [Members -> Nat] /\ acks \in [Members -> BOOLEAN]
    /\ heard = [deaf EXCEPT ![m] = IF msg.server = @ THEN 0 ELSE @]
    /\ acks = [ack EXCEPT ![m] = @ \/ msg.client]
    /\ \/ msg.paused \in BOOLEAN /\ room' = msg.paused /\ (msg.seek \/ msg.paused # room)
          /\ heard[m] = 0 /\ ForceState(heard, acks)
       \/ /\ msg.paused # Nothing /\ heard[m] = 0 => ~msg.seek /\ msg.paused = room
          /\ deaf' = heard /\ ack' = acks /\ UNCHANGED <<room, down>>

LEMMA TakeStateFacts ==
    ASSUME IInv, NEW m \in Members, NEW msg \in StateUp, TakeState(m, msg)
    PROVE  \E heard, acks : Takes(m, msg, heard, acks)
<1> DEFINE heard == [deaf EXCEPT ![m] = IF msg.server = @ THEN 0 ELSE @]
           acks  == [ack EXCEPT ![m] = @ \/ msg.client]
<1>1. deaf \in [Members -> Nat] /\ ack \in [Members -> BOOLEAN]
  BY DEF IInv, Serving
<1>2. heard \in [Members -> Nat]
  BY <1>1
<1>3. acks \in [Members -> BOOLEAN]
  BY <1>1
<1>4. IF msg.paused # Nothing /\ heard[m] = 0 /\ (msg.seek \/ msg.paused # room)
      THEN room' = msg.paused /\ ForceState(heard, acks)
      ELSE /\ msg.paused # Nothing /\ heard[m] = 0 => ~msg.seek /\ msg.paused = room
           /\ deaf' = heard /\ ack' = acks /\ UNCHANGED <<room, down>>
  BY DEF TakeState
<1>5. msg.paused # Nothing => msg.paused \in BOOLEAN
  BY DEF StateUp, Known
<1>6. Takes(m, msg, heard, acks)
  <2>1. heard = [deaf EXCEPT ![m] = IF msg.server = @ THEN 0 ELSE @] /\ acks = [ack EXCEPT ![m] = @ \/ msg.client]
    OBVIOUS
  <2> HIDE DEF heard, acks
  <2> QED BY <1>2, <1>3, <1>4, <1>5, <2>1 DEF Takes
<1> QED BY <1>6

LEMMA ForceType ==
    ASSUME IInv, NEW heard \in [Members -> Nat], NEW acks \in [Members -> BOOLEAN],
           room' \in BOOLEAN, ForceState(heard, acks)
    PROVE  /\ deaf' \in [Members -> Nat] /\ ack' \in [Members -> BOOLEAN]
           /\ down' \in [Members -> Seq(Down)]
           /\ \A j \in Members \ Online : down'[j] = down[j]
<1>1. deaf' \in [Members -> Nat]
  BY DEF ForceState
<1>2. ack' \in [Members -> BOOLEAN]
  BY DEF ForceState
<1>3. ASSUME NEW j \in Members
      PROVE  /\ FromServer(room', heard[j] + 1, acks[j]) \in Down
             /\ down[j] \in Seq(Down)
  BY DEF FromServer, Down, StateDown, IInv, Wires
<1>4. \A j \in Members : Append(down[j], FromServer(room', heard[j] + 1, acks[j])) \in Seq(Down)
  BY <1>3
<1>5. down' \in [Members -> Seq(Down)] /\ \A j \in Members \ Online : down'[j] = down[j]
  BY <1>3, <1>4 DEF ForceState
<1> QED BY <1>1, <1>2, <1>5

LEMMA ServeInv == ASSUME IInv, NEW m \in Members, Serve(m) PROVE IInv'
<1> USE DEF IInv
<1>1. /\ up[m] \in Seq(Up) /\ up[m] # <<>> /\ Head(up[m]) \in Up /\ Tail(up[m]) \in Seq(Up)
      /\ up' = [up EXCEPT ![m] = Tail(@)] /\ UNCHANGED <<watching, client, budget>>
  BY StatesHeadTail DEF Serve, Wires
<1>2. client[m].online /\ m \in Online
  BY <1>1 DEF Connected, Online
<1>3. Players' /\ Clients' /\ Budget'
  BY <1>1, UnchangedParts
<1>4. up' \in [Members -> Seq(Up)] /\ \A j \in Members \ {m} : up'[j] = up[j]
  BY <1>1 DEF Wires
<1>5. Online' = Online
  BY <1>1 DEF Online
<1>6. CASE Head(up[m]).kind = "meet" /\ TakeMeet(m) /\ UNCHANGED <<room, deaf, ack>>
  <2>1. Serving'
    BY <1>6, UnchangedParts
  <2>2. file' = file \cup {m} /\ file' \subseteq Online /\ file' \subseteq Members
    BY <1>2, <1>6 DEF TakeMeet, Connected, Online
  <2>3. ListOf(file \cup {m}) \in Down /\ Opened(m) \in Down
    BY <2>2 DEF ListOf, Opened, Down
  <2>4. \A j \in Members : /\ down[j] \in Seq(Down) /\ Append(down[j], ListOf(file \cup {m})) \in Seq(Down)
                          /\ Append(down[j], Opened(m)) \in Seq(Down)
    BY <2>3 DEF Wires
  <2>5. down' \in [Members -> Seq(Down)] /\ \A j \in Members \ Online : down'[j] = down[j]
    <3>1. down' = [j \in Members |->
                     CASE j = m -> Append(down[j], ListOf(file \cup {m}))
                       [] j \in Online \ {m} -> Append(down[j], Opened(m))
                       [] OTHER -> down[j]]
      BY <1>6 DEF TakeMeet
    <3>2. \A j \in Members : down'[j] \in {down[j], Append(down[j], ListOf(file \cup {m})), Append(down[j], Opened(m))}
      BY <3>1
    <3>3. \A j \in Members \ Online : down'[j] = down[j]
      BY <1>2, <3>1
    <3>4. down' \in [Members -> Seq(Down)]
      <4>1. \A j \in Members : down'[j] \in Seq(Down)
        BY <2>4, <3>2
      <4> QED BY <3>1, <4>1
    <3> QED BY <3>3, <3>4
  <2>6. Connected'
    BY <1>1, <1>2, <1>4, <1>5, <2>2, <2>5 DEF Connected, Online
  <2> QED BY <1>3, <1>4, <2>1, <2>5, <2>6 DEF Wires
<1>7. CASE Head(up[m]).kind = "state" /\ TakeState(m, Head(up[m])) /\ UNCHANGED file
  <2>1. Head(up[m]) \in StateUp
    BY <1>1, <1>7, Kinds
  <2>2. PICK heard, acks : Takes(m, Head(up[m]), heard, acks)
    BY <1>7, <2>1, TakeStateFacts
  <2>3. /\ Serving' /\ down' \in [Members -> Seq(Down)]
        /\ \A j \in Members \ Online : down'[j] = down[j]
    <3>1. CASE room' \in BOOLEAN /\ ForceState(heard, acks)
      BY <2>2, <3>1, ForceType DEF Takes, Serving
    <3>2. CASE deaf' = heard /\ ack' = acks /\ UNCHANGED <<room, down>>
      BY <2>2, <3>2 DEF Takes, Serving, Wires
    <3> QED BY <2>2, <3>1, <3>2 DEF Takes
  <2>4. Connected'
    BY <1>1, <1>2, <1>4, <1>5, <1>7, <2>3 DEF Connected, Online
  <2> QED BY <1>3, <1>4, <2>3, <2>4 DEF Wires
<1> QED BY <1>6, <1>7 DEF Serve

LEMMA TickInv == ASSUME IInv, NEW m \in Members, Tick(m) PROVE IInv'
<1> USE DEF IInv
<1>1. Players' /\ Clients' /\ Budget' /\ Online' = Online
  BY UnchangedParts DEF Tick, Online
<1>2. FromServer(room, 0, ack[m]) \in Down
  BY DEF Serving, FromServer, Down, StateDown
<1>3. Append(down[m], FromServer(room, 0, ack[m])) \in Seq(Down)
  BY <1>2 DEF Wires
<1>4. /\ down' \in [Members -> Seq(Down)] /\ up' \in [Members -> Seq(Up)]
      /\ \A j \in Members \ {m} : down'[j] = down[j]
  BY <1>3 DEF Tick, Wires
<1>5. Serving'
  BY DEF Tick, Serving
<1>6. Connected'
  BY <1>1, <1>4 DEF Tick, Connected, Online
<1> QED BY <1>1, <1>4, <1>5, <1>6 DEF Wires

LEMMA ConnectionInv == ASSUME IInv, NEW m \in Members, Connect(m) \/ Drop(m) PROVE IInv'
<1> USE DEF IInv
<1>1. Players'
  BY UnchangedParts DEF Connect, Drop
<1>2. client \in [Members -> Client] /\ client[m] \in Client
  BY DEF Clients
<1>3. CASE Connect(m)
  <2> DEFINE d == [client[m] EXCEPT !.online = TRUE, !.listed = FALSE, !.others = {},
                                    !.awaiting = FALSE, !.held = Nothing, !.room = Nothing,
                                    !.synced = FALSE]
  <2>1. d \in Client /\ d.online
    BY <1>2 DEF Client, Known
  <2>2. client' = [client EXCEPT ![m] = d]
    BY <1>3 DEF Connect
  <2> HIDE DEF d
  <2>3. client'[m].online /\ \A j \in Members \ {m} : client'[j] = client[j]
    BY <1>2, <2>1, <2>2
  <2>4. Clients'
    BY <1>2, <2>1, <2>2 DEF Clients
  <2>5. <<Meet>> \in Seq(Up)
    BY DEF Up
  <2>6. up' = [up EXCEPT ![m] = <<Meet>>] /\ UNCHANGED <<down, room, file, budget>>
    BY <1>3 DEF Connect
  <2>7. Wires'
    BY <2>5, <2>6 DEF Wires
  <2>8. Serving'
    BY <1>3 DEF Connect, Serving
  <2>9. Connected'
    BY <2>3, <2>6 DEF Connected, Online, Wires
  <2>10. Budget'
    BY <2>6, UnchangedParts
  <2> QED BY <1>1, <2>4, <2>7, <2>8, <2>9, <2>10
<1>4. CASE Drop(m)
  <2> DEFINE d == [client[m] EXCEPT !.online = FALSE]
  <2>1. d \in Client /\ d.online = FALSE
    BY <1>2 DEF Client
  <2>2. client' = [client EXCEPT ![m] = d]
    BY <1>4 DEF Drop
  <2> HIDE DEF d
  <2>3. client'[m].online = FALSE /\ \A j \in Members \ {m} : client'[j] = client[j]
    BY <1>2, <2>1, <2>2
  <2>4. Clients'
    BY <1>2, <2>1, <2>2 DEF Clients
  <2>5. Gone(m) \in Down
    BY DEF Gone, Down
  <2>6. \A j \in Members : down[j] \in Seq(Down) /\ Append(down[j], Gone(m)) \in Seq(Down) /\ <<>> \in Seq(Down)
    BY <2>5 DEF Wires
  <2>7. down' = [j \in Members |->
                  CASE j = m -> <<>>
                    [] j \in Online \ {m} -> Append(down[j], Gone(m))
                    [] OTHER -> down[j]]
    BY <1>4 DEF Drop
  <2>8. \A j \in Members : down'[j] \in {<<>>, Append(down[j], Gone(m)), down[j]}
    BY <2>7
  <2>9. down'[m] = <<>> /\ \A j \in Members \ Online : down'[j] \in {<<>>, down[j]}
    BY <2>7
  <2>10. down' \in [Members -> Seq(Down)]
    <3>1. \A j \in Members : down'[j] \in Seq(Down)
      BY <2>6, <2>8
    <3> QED BY <2>7, <3>1
  <2>11. up' = [up EXCEPT ![m] = <<>>] /\ file' = file \ {m} /\ UNCHANGED <<room, deaf, ack, changed>>
    BY <1>4 DEF Drop
  <2>12. up' \in [Members -> Seq(Up)] /\ up'[m] = <<>> /\ \A j \in Members \ {m} : up'[j] = up[j]
    <3>1. <<>> \in Seq(Up)
      OBVIOUS
    <3> QED BY <2>11, <3>1 DEF Wires
  <2>13. Connected'
    BY <2>3, <2>9, <2>11, <2>12 DEF Connected, Online
  <2>14. Serving' /\ Budget'
    BY <1>4, <2>11, UnchangedParts, PartyAssumption DEF Drop, Budget
  <2> QED BY <1>1, <2>4, <2>10, <2>12, <2>13, <2>14 DEF Wires
<1> QED BY <1>3, <1>4

LEMMA PlayerInv ==
    ASSUME IInv, NEW m \in Members, Expire(m) \/ Report(m) \/ Change(m)
    PROVE  IInv'
<1> USE DEF IInv
<1>1. Wires' /\ Serving'
  BY UnchangedParts DEF Expire, Report, Change, server
<1>2. CASE Expire(m)
  <2> DEFINE d == [client[m] EXCEPT !.want = Nothing]
  <2>1. d \in Client /\ d.online = client[m].online
    BY DEF Clients, Client, Known
  <2>2. client' = [client EXCEPT ![m] = d]
    BY <1>2 DEF Expire
  <2> HIDE DEF d
  <2>3. Clients' /\ Online' = Online /\ \A j \in Members : client'[j].online = client[j].online
    BY <2>1, <2>2, StaysConnected
  <2>4. Connected'
    BY <1>2, <2>3 DEF Expire, Connected, network, server
  <2> QED BY <1>1, <1>2, <2>3, <2>4, UnchangedParts DEF Expire
<1>3. CASE Report(m)
  <2>1. Players'
    BY <1>3 DEF Report, Players, Known
  <2> QED BY <1>1, <1>3, <2>1, UnchangedParts DEF Report, server
<1>4. CASE Change(m)
  <2>1. Players'
    BY <1>4 DEF Change, Players
  <2>2. Budget'
    BY <1>4, PartyAssumption DEF Change, Budget
  <2> QED BY <1>1, <1>4, <2>1, <2>2, UnchangedParts DEF Change, server
<1> QED BY <1>2, <1>3, <1>4

LEMMA InitInv == Init => IInv
<1> SUFFICES ASSUME Init PROVE IInv
  OBVIOUS
<1>1. PICK away \in SUBSET Members :
        /\ Cardinality(away) <= MaxEvents
        /\ room \in IF away = Members THEN {TRUE} ELSE BOOLEAN
        /\ paused \in [Members -> BOOLEAN]
        /\ client = [m \in Members |->
                       IF m \in away THEN NewClient
                       ELSE Watching(m, room, Members \ (away \cup {m}))]
        /\ file = Members \ away
        /\ report = [m \in Members |-> Nothing]
        /\ up = [m \in Members |-> <<>>]
        /\ down = [m \in Members |-> <<>>]
        /\ deaf = [m \in Members |-> 0]
        /\ ack = [m \in Members |-> FALSE]
        /\ changed = FALSE
        /\ events = Cardinality(away)
  BY DEF Init
<1>2. room \in BOOLEAN
  BY <1>1
<1>3. NewClient \in Client /\ NewClient.online = FALSE
  BY DEF NewClient, Client, Known
<1>4. ASSUME NEW m \in Members
      PROVE  /\ Watching(m, room, Members \ (away \cup {m})) \in Client
             /\ Watching(m, room, Members \ (away \cup {m})).online
  BY <1>2 DEF Watching, NewClient, Client, Known
<1>5. /\ client \in [Members -> Client] /\ \A m \in Members \ away : client[m].online
  BY <1>1, <1>3, <1>4
<1>6. Cardinality(away) \in Nat
  <2>1. IsFiniteSet(Members)
    BY PartyAssumption
  <2>2. IsFiniteSet(away)
    BY <2>1, FS_Subset
  <2> QED BY <2>2, FS_CardinalityType
<1>7. Budget
  <2>1. events = Cardinality(away) /\ Cardinality(away) <= MaxEvents /\ changed = FALSE
    BY <1>1
  <2>2. events \in Nat /\ events <= MaxEvents /\ MaxEvents \in Nat
    BY <1>6, <2>1, PartyAssumption
  <2>3. events \in 0..MaxEvents
    BY <2>2
  <2> QED BY <2>1, <2>3 DEF Budget
<1>8. Players /\ Serving
  BY <1>1, <1>2 DEF Players, Serving, Known
<1>9. Wires
  <2>1. <<>> \in Seq(Up) /\ <<>> \in Seq(Down)
    OBVIOUS
  <2> QED BY <1>1, <2>1 DEF Wires
<1>10. Connected
  BY <1>1, <1>5 DEF Connected, Online
<1> QED BY <1>5, <1>7, <1>8, <1>9, <1>10 DEF IInv, Clients

LEMMA NextInv == IInv /\ [Next]_vars => IInv'
<1> SUFFICES ASSUME IInv, [Next]_vars PROVE IInv'
  OBVIOUS
<1>1. CASE UNCHANGED vars
  BY <1>1, UnchangedParts DEF IInv, vars, server, network
<1>2. ASSUME NEW m \in Members, Runs(m) \/ Drop(m) \/ Change(m) PROVE IInv'
  BY <1>2, HearInv, TakeReportInv, ServeInv, TickInv, ConnectionInv, PlayerInv DEF Runs
<1> QED BY <1>1, <1>2 DEF Next

(* Every variable holds values of its type, and the server counts as watching only members
   it is connected to. *)
THEOREM TypeCorrect == Spec => []TypeOK
<1>1. IInv => TypeOK
  BY DEF IInv, TypeOK, Players, Clients, Serving, Budget, Connected
<1> QED BY <1>1, InitInv, NextInv, PTL DEF Spec

-----------------------------------------------------------------------------
(* Nobody is deaf for good. *)

(* A change on its way has an answer coming, one forced has an acknowledgement. *)
Waits(m)  == client[m].awaiting =>
               \/ ack[m]
               \/ \E msg \in States(up[m]) : msg.client
               \/ \E msg \in States(down[m]) : msg.client \/ msg.server > 0
Forced(m) == deaf[m] > 0 =>
               \E msg \in States(up[m]) \cup States(down[m]) : msg.server = deaf[m]

(* What a step leaves on the lines, or adds to them, still comes. *)
LEMMA GrowKeeps ==
    ASSUME NEW j \in Members, Waits(j), Forced(j), deaf'[j] = deaf[j],
           client'[j].awaiting => client[j].awaiting, ack[j] => ack'[j],
           States(up[j]) \subseteq States(up[j])', States(down[j]) \subseteq States(down[j])'
    PROVE  Waits(j)' /\ Forced(j)'
<1>1. Waits(j)'
  BY DEF Waits
<1>2. Forced(j)'
  BY DEF Forced
<1> QED BY <1>1, <1>2

LEMMA ExchangeStates ==
    ASSUME IInv, NEW m \in Members, NEW msg, NEW first, NEW sync, NEW made, NEW answer,
           Exchange(m, msg, first, sync, made, answer)
    PROVE  States(up[m])' = States(up[m]) \cup States(first.sent) \cup States(made.sent) \cup {answer}
<1>1. first.sent \in Seq(Up) /\ made.sent \in Seq(Up) /\ <<answer>> \in Seq(Up)
  BY SentFits
<1>2. up \in [Members -> Seq(Up)] /\ up[m] \in Seq(Up)
  BY DEF IInv, Wires
<1>3. up'[m] = up[m] \o first.sent \o made.sent \o <<answer>>
  BY <1>2 DEF Exchange
<1>4. up[m] \o first.sent \in Seq(Up) /\ up[m] \o first.sent \o made.sent \in Seq(Up)
  BY <1>1, <1>2
<1>5. /\ States(up[m] \o first.sent) = States(up[m]) \cup States(first.sent)
      /\ States(up[m] \o first.sent \o made.sent) = States(up[m] \o first.sent) \cup States(made.sent)
      /\ States(up'[m]) = States(up[m] \o first.sent \o made.sent) \cup States(<<answer>>)
  <2>1. States(up[m] \o first.sent) = States(up[m]) \cup States(first.sent)
    BY <1>1, <1>2, StatesConcat
  <2>2. States(up[m] \o first.sent \o made.sent) = States(up[m] \o first.sent) \cup States(made.sent)
    BY <1>1, <1>4, StatesConcat
  <2>3. States(up[m] \o first.sent \o made.sent \o <<answer>>)
          = States(up[m] \o first.sent \o made.sent) \cup States(<<answer>>)
    <3> DEFINE before == up[m] \o first.sent \o made.sent
               last   == <<answer>>
    <3>1. before \in Seq(Up) /\ last \in Seq(Up)
      BY <1>1, <1>4
    <3> HIDE DEF before, last
    <3>2. States(before \o last) = States(before) \cup States(last)
      BY <3>1, StatesConcat
    <3> QED BY <3>2 DEF before, last
  <2> QED BY <1>3, <2>1, <2>2, <2>3
<1>6. States(<<answer>>) = {answer}
  BY StatesOfOne DEF Exchange, StateUp, StateOf
<1>7. States(up[m])' = States(up'[m])
  BY DEF States
<1> QED BY <1>5, <1>6, <1>7

(* A change sent is on the line, for the other side to answer. *)
Carries(line, n) == \E x \in States(line) : x.client /\ x.server = n

LEMMA ChangeStates ==
    ASSUME NEW here, NEW seek, NEW n
    PROVE  Carries(<<FromMember(here, seek, n, TRUE, TRUE)>>, n)
<1> DEFINE msg == FromMember(here, seek, n, TRUE, TRUE)
<1>1. msg.kind = "state" /\ msg.client /\ msg.server = n
  BY DEF FromMember
<1> HIDE DEF msg
<1>2. States(<<msg>>) = {msg}
  BY <1>1, StatesOfOne DEF StateOf
<1>3. Carries(<<msg>>, n)
  BY <1>1, <1>2 DEF Carries
<1> QED BY <1>3 DEF msg

LEMMA SendCarries ==
    ASSUME NEW c, NEW change, NEW seek, NEW n, NEW made, Sends(c, change, seek, n, made)
    PROVE  \/ made.sent = <<>> /\ (made.client.awaiting => c.awaiting)
           \/ Carries(made.sent, n)
<1>1. CASE made.sent = <<>> /\ (made.client.awaiting => c.awaiting)
  BY <1>1
<1>2. CASE made.sent = <<FromMember(change, seek, n, TRUE, TRUE)>>
  <2>1. Carries(<<FromMember(change, seek, n, TRUE, TRUE)>>, n)
    BY ChangeStates
  <2> QED BY <1>2, <2>1
<1> QED BY <1>1, <1>2 DEF Sends

LEMMA HearCarries ==
    ASSUME NEW c, NEW msg, NEW first, Hears(c, msg, first), first.client.awaiting
    PROVE  \/ msg.server = 0 /\ ~msg.client /\ c.awaiting
           \/ Carries(first.sent, 0)
<1>1. CASE msg.server = 0 /\ ~msg.client /\ c.awaiting
  BY <1>1
<1>2. CASE first.sent = <<FromMember(c.held, FALSE, 0, TRUE, TRUE)>>
  <2>1. Carries(<<FromMember(c.held, FALSE, 0, TRUE, TRUE)>>, 0)
    BY ChangeStates
  <2> QED BY <1>2, <2>1
<1> QED BY <1>1, <1>2 DEF Hears

LEMMA HearDeaf ==
    ASSUME IInv, IInv', NobodyDeafForGood, NEW m \in Members, Hear(m)
    PROVE  NobodyDeafForGood'
<1>1. /\ down[m] \in Seq(Down) /\ down[m] # <<>> /\ Head(down[m]) \in Down
      /\ States(down[m]) = StateOf(Head(down[m])) \cup States(Tail(down[m]))
      /\ down' = [down EXCEPT ![m] = Tail(@)] /\ UNCHANGED <<deaf, ack>>
  BY StatesHeadTail DEF Hear, IInv, Wires, server
<1>2. client[m].online /\ m \in Online
  BY <1>1 DEF IInv, Connected, Online
<1>3. /\ client \in [Members -> Client] /\ down \in [Members -> Seq(Down)]
      /\ up \in [Members -> Seq(Up)] /\ deaf \in [Members -> Nat]
  BY DEF IInv, Clients, Wires, Serving
<1>4. States(down[m])' = States(Tail(down[m]))
  BY <1>1, <1>3 DEF States
<1>5. Waits(m) /\ Forced(m)
  BY <1>2 DEF NobodyDeafForGood, Waits, Forced
<1>6. CASE Head(down[m]).kind = "state"
  <2> DEFINE msg == Head(down[m])
  <2>1. msg \in StateDown /\ States(down[m]) = {msg} \cup States(Tail(down[m]))
    BY <1>1, <1>6, Kinds DEF StateOf
  <2>2. PICK first, sync, made, answer : Exchange(m, msg, first, sync, made, answer)
    BY <1>3, <1>6, <2>1, OnStateFacts DEF Hear, Clients
  <2> HIDE DEF msg
  <2>3. /\ States(up[m])' = States(up[m]) \cup States(first.sent) \cup States(made.sent) \cup {answer}
        /\ client' = [client EXCEPT ![m] = made.client] /\ client'[m] = made.client
        /\ \A j \in Members \ {m} : client'[j] = client[j] /\ up'[j] = up[j]
    <3>1. States(up[m])' = States(up[m]) \cup States(first.sent) \cup States(made.sent) \cup {answer}
      BY <2>2, ExchangeStates
    <3>2. /\ client' = [client EXCEPT ![m] = made.client]
          /\ up' = [up EXCEPT ![m] = @ \o first.sent \o made.sent \o <<answer>>]
      BY <2>2 DEF Exchange
    <3> QED BY <1>3, <3>1, <3>2
  <2>4. made.client.awaiting =>
          \/ \E x \in States(up[m])' : x.client
          \/ msg.server = 0 /\ ~msg.client /\ client[m].awaiting
    <3>1. ASSUME first.client.awaiting
          PROVE  \/ \E x \in States(first.sent) : x.client
                 \/ msg.server = 0 /\ ~msg.client /\ client[m].awaiting
      <4>1. Hears(client[m], msg, first)
        BY <2>2 DEF Exchange
      <4> QED BY <3>1, <4>1, HearCarries DEF Carries
    <3>2. ASSUME sync.client.awaiting PROVE first.client.awaiting
      BY <2>2, <3>2 DEF Exchange, Same
    <3>3. ASSUME made.client.awaiting
          PROVE  sync.client.awaiting \/ \E x \in States(made.sent) : x.client
      <4>1. Sends(sync.client, sync.change, sync.seek, msg.server, made)
        BY <2>2 DEF Exchange
      <4> QED BY <3>3, <4>1, SendCarries DEF Carries
    <3> QED BY <2>3, <3>1, <3>2, <3>3
  <2>5. Waits(m)'
    <3>1. CASE \E x \in States(up[m])' : x.client
      BY <3>1 DEF Waits
    <3>2. CASE msg.server = 0 /\ ~msg.client /\ client[m].awaiting
      <4>1. \/ ack[m] \/ \E x \in States(up[m]) : x.client
            \/ \E x \in States(Tail(down[m])) : x.client \/ x.server > 0
        BY <1>5, <2>1, <3>2 DEF Waits
      <4> QED BY <1>1, <1>4, <2>3, <4>1 DEF Waits
    <3> QED BY <2>3, <2>4, <3>1, <3>2 DEF Waits
  <2>6. \E x \in States(up[m])' : x.server = msg.server
    <3>1. CASE made.sent = <<>>
      BY <2>2, <2>3, <3>1 DEF Exchange
    <3>2. CASE made.sent # <<>>
      <4>1. Sends(sync.client, sync.change, sync.seek, msg.server, made)
        BY <2>2 DEF Exchange
      <4>2. Carries(made.sent, msg.server)
        BY <3>2, <4>1, SendCarries
      <4> QED BY <2>3, <4>2 DEF Carries
    <3> QED BY <3>1, <3>2
  <2>7. Forced(m)'
    BY <1>1, <1>4, <1>5, <2>1, <2>3, <2>6 DEF Forced
  <2>8. ASSUME NEW j \in Online, j # m PROVE Waits(j)' /\ Forced(j)'
    <3>1. Waits(j) /\ Forced(j) /\ j \in Members
      BY DEF NobodyDeafForGood, Waits, Forced, Online
    <3>2. client'[j] = client[j] /\ up'[j] = up[j] /\ down'[j] = down[j]
      BY <1>1, <1>3, <2>3, <2>8, <3>1
    <3> QED BY <1>1, <3>1, <3>2, GrowKeeps DEF States
  <2>9. Online' = Online
    BY <2>2, <2>3, SentFits DEF Online
  <2> QED BY <2>5, <2>7, <2>8, <2>9 DEF NobodyDeafForGood, Waits, Forced
<1>7. CASE Head(down[m]).kind # "state"
  <2>1. UNCHANGED <<paused, up>> /\ Head(down[m]).kind \in {"list", "file", "left"}
    BY <1>1, <1>7, Kinds DEF Hear, OnMembers
  <2>2. \A j \in Members : client'[j].awaiting = client[j].awaiting /\ client'[j].online = client[j].online
    <3> DEFINE msg == Head(down[m])
    <3>1. OnMembers(m, msg) /\ msg.kind \in {"list", "file", "left"}
      BY <1>7, <2>1 DEF Hear
    <3> HIDE DEF msg
    <3>2. CASE msg.kind = "list"
      BY <1>3, <3>1, <3>2 DEF OnMembers, Client
    <3>3. CASE msg.kind = "file"
      BY <1>3, <3>1, <3>3 DEF OnMembers, Client
    <3>4. CASE msg.kind = "left"
      BY <1>3, <3>1, <3>4 DEF OnMembers, Client
    <3> QED BY <3>1, <3>2, <3>3, <3>4
  <2>3. \A j \in Members : States(down[j])' = States(down[j])
    <3>1. States(down[m])' = States(down[m])
      BY <1>1, <1>4, <1>7 DEF StateOf
    <3>2. \A j \in Members \ {m} : down'[j] = down[j]
      BY <1>1, <1>3
    <3>3. \A j \in Members \ {m} : States(down[j])' = States(down[j])
      BY <3>2 DEF States
    <3> QED BY <3>1, <3>3
  <2>4. ASSUME NEW j \in Online PROVE Waits(j)' /\ Forced(j)'
    <3>1. Waits(j) /\ Forced(j) /\ j \in Members
      BY DEF NobodyDeafForGood, Waits, Forced, Online
    <3>2. States(up[j])' = States(up[j])
      BY <2>1 DEF States
    <3> QED BY <1>1, <2>2, <2>3, <3>1, <3>2, GrowKeeps
  <2>5. Online' = Online
    BY <2>2 DEF Online
  <2> QED BY <2>4, <2>5 DEF NobodyDeafForGood, Waits, Forced
<1> QED BY <1>6, <1>7

LEMMA TakeReportDeaf ==
    ASSUME IInv, NobodyDeafForGood, NEW m \in Members, TakeReport(m)
    PROVE  NobodyDeafForGood'
<1>1. /\ report[m] \in BOOLEAN /\ UNCHANGED <<down, deaf, ack>> /\ client[m] \in Client
      /\ client \in [Members -> Client] /\ up \in [Members -> Seq(Up)]
  BY DEF TakeReport, server, IInv, Players, Known, Clients, Wires
<1>2. \A j \in Members : States(down[j])' = States(down[j])
  BY <1>1 DEF States
<1>3. CASE client[m].online
  <2> DEFINE sync == Sample(client[m], report[m])
             made == SendChange(sync.client, sync.change, sync.seek, 0)
  <2>1. client' = [client EXCEPT ![m] = made.client] /\ up' = [up EXCEPT ![m] = @ \o made.sent]
    BY <1>3 DEF TakeReport
  <2>2. sync \in Outcome /\ Same(client[m], sync.client)
    BY <1>1, SampleFacts
  <2> HIDE DEF sync
  <2>3. Kept(sync.client, made.client) /\ Sends(sync.client, sync.change, sync.seek, 0, made)
    BY <2>2, SendFacts DEF Outcome
  <2> HIDE DEF made
  <2>4. made.client \in Client /\ made.client.online = client[m].online
    BY <2>2, <2>3 DEF Same, Kept
  <2>5. Online' = Online
    BY <2>1, <2>4, StaysConnected
  <2>6. States(up[m])' = States(up[m]) \cup States(made.sent)
    <3>1. made.sent = <<>> \/ \E x \in StateUp : made.sent = <<x>>
      BY <2>3 DEF Sends
    <3>2. made.sent \in Seq(Up) /\ up[m] \in Seq(Up)
      BY <1>1, <3>1, OneFits
    <3>3. States(up[m] \o made.sent) = States(up[m]) \cup States(made.sent)
      BY <3>2, StatesConcat
    <3>4. up'[m] = up[m] \o made.sent
      BY <1>1, <2>1
    <3>5. States(up[m])' = States(up'[m])
      BY DEF States
    <3> QED BY <3>3, <3>4, <3>5
  <2>7. client'[m] = made.client /\ \A j \in Members \ {m} : client'[j] = client[j] /\ up'[j] = up[j]
    BY <1>1, <2>1
  <2>8. ASSUME NEW j \in Online PROVE Waits(j)' /\ Forced(j)'
    <3>1. Waits(j) /\ Forced(j) /\ j \in Members
      BY DEF NobodyDeafForGood, Waits, Forced, Online
    <3>2. CASE j # m
      <4>1. client'[j] = client[j] /\ up'[j] = up[j]
        BY <2>7, <3>1, <3>2
      <4>2. States(up[j])' = States(up[j])
        BY <4>1 DEF States
      <4> QED BY <1>1, <1>2, <3>1, <4>1, <4>2, GrowKeeps
    <3>3. CASE j = m /\ Carries(made.sent, 0)
      <4>1. Waits(m)'
        BY <2>6, <3>3 DEF Carries, Waits
      <4>2. Forced(m)'
        BY <1>1, <1>2, <2>6, <3>1, <3>3 DEF Forced
      <4> QED BY <3>3, <4>1, <4>2
    <3>4. CASE j = m /\ made.sent = <<>> /\ (made.client.awaiting => sync.client.awaiting)
      <4>1. client'[m].awaiting => client[m].awaiting
        BY <2>2, <2>7, <3>4 DEF Same
      <4> QED BY <1>1, <1>2, <2>6, <3>1, <3>4, <4>1, GrowKeeps
    <3> QED BY <2>3, <3>2, <3>3, <3>4, SendCarries
  <2> QED BY <2>5, <2>8 DEF NobodyDeafForGood, Waits, Forced
<1>4. CASE ~client[m].online
  <2> DEFINE lone  == [client[m] EXCEPT !.others = {}]
             alone == Sample(lone, report[m])
  <2>1. client' = [client EXCEPT ![m] = alone.client] /\ UNCHANGED <<paused, up>>
    BY <1>4 DEF TakeReport
  <2>2. lone \in Client /\ lone.online = client[m].online
    BY <1>1 DEF Client
  <2> HIDE DEF lone
  <2>3. alone \in Outcome /\ Same(lone, alone.client)
    BY <1>1, <2>2, SampleFacts
  <2> HIDE DEF alone
  <2>4. alone.client \in Client /\ alone.client.online = client[m].online
    BY <2>2, <2>3 DEF Outcome, Same
  <2>5. Online' = Online
    BY <2>1, <2>4, StaysConnected
  <2>6. ASSUME NEW j \in Online PROVE Waits(j)' /\ Forced(j)'
    <3>1. Waits(j) /\ Forced(j) /\ j \in Members /\ j # m
      BY <1>4 DEF NobodyDeafForGood, Waits, Forced, Online
    <3>2. client'[j] = client[j]
      BY <1>1, <2>1, <3>1
    <3>3. States(up[j])' = States(up[j])
      BY <2>1 DEF States
    <3> QED BY <1>1, <1>2, <3>1, <3>2, <3>3, GrowKeeps
  <2> QED BY <2>5, <2>6 DEF NobodyDeafForGood, Waits, Forced
<1> QED BY <1>3, <1>4

(* A state appended to a member's line is on it; anything else leaves its states alone. *)
LEMMA DownAppend ==
    ASSUME IInv, NEW j \in Members, NEW msg, down'[j] = Append(down[j], msg)
    PROVE  States(down[j])' = States(down[j]) \cup StateOf(msg)
<1>1. down[j] \in Seq(Down)
  BY DEF IInv, Wires
<1>2. States(Append(down[j], msg)) = States(down[j]) \cup StateOf(msg)
  BY <1>1, StatesAppend
<1>3. States(down[j])' = States(down'[j])
  BY DEF States
<1> QED BY <1>2, <1>3

LEMMA ForceDeaf ==
    ASSUME IInv, NEW heard \in [Members -> Nat], NEW acks, ForceState(heard, acks),
           NEW j \in Online
    PROVE  Waits(j)' /\ Forced(j)'
<1> DEFINE msg == FromServer(room', heard[j] + 1, acks[j])
<1>1. j \in Members
  BY DEF Online
<1>2. down'[j] = Append(down[j], msg) /\ deaf'[j] = heard[j] + 1
  BY <1>1 DEF ForceState
<1>3. msg.kind = "state" /\ msg.server = heard[j] + 1 /\ heard[j] + 1 > 0
  <2>1. heard[j] \in Nat
    BY <1>1
  <2> QED BY <2>1 DEF FromServer
<1> HIDE DEF msg
<1>4. msg \in States(down[j])'
  BY <1>1, <1>2, <1>3, DownAppend DEF StateOf
<1>5. Waits(j)'
  BY <1>3, <1>4 DEF Waits
<1>6. Forced(j)'
  BY <1>2, <1>3, <1>4 DEF Forced
<1> QED BY <1>5, <1>6

LEMMA ServeDeaf ==
    ASSUME IInv, NobodyDeafForGood, NEW m \in Members, Serve(m)
    PROVE  NobodyDeafForGood'
<1>1. /\ up[m] \in Seq(Up) /\ up[m] # <<>> /\ Head(up[m]) \in Up
      /\ States(up[m]) = StateOf(Head(up[m])) \cup States(Tail(up[m]))
      /\ up' = [up EXCEPT ![m] = Tail(@)] /\ UNCHANGED client
      /\ up \in [Members -> Seq(Up)]
  BY StatesHeadTail DEF Serve, IInv, Wires
<1>2. Online' = Online
  BY <1>1 DEF Online
<1>3. States(up[m])' = States(Tail(up[m])) /\ \A j \in Members \ {m} : States(up[j])' = States(up[j])
  <2>1. up'[m] = Tail(up[m]) /\ \A j \in Members \ {m} : up'[j] = up[j]
    BY <1>1
  <2> QED BY <2>1 DEF States
<1>4. \A j \in Online : Waits(j) /\ Forced(j) /\ j \in Members
  BY DEF NobodyDeafForGood, Waits, Forced, Online
<1>5. CASE Head(up[m]).kind = "meet" /\ TakeMeet(m) /\ UNCHANGED <<room, deaf, ack>>
  <2>1. \A j \in Members : States(up[j])' = States(up[j])
    BY <1>1, <1>3, <1>5 DEF StateOf
  <2>2. ASSUME NEW j \in Members PROVE States(down[j]) \subseteq States(down[j])'
    <3>1. \/ down'[j] = Append(down[j], ListOf(file \cup {m}))
          \/ down'[j] = Append(down[j], Opened(m))
          \/ down'[j] = down[j]
      BY <1>5 DEF TakeMeet
    <3>2. CASE down'[j] = down[j]
      BY <3>2 DEF States
    <3> QED BY <3>1, <3>2, DownAppend
  <2>3. ASSUME NEW j \in Online PROVE Waits(j)' /\ Forced(j)'
    <3>1. j \in Members /\ Waits(j) /\ Forced(j)
      BY <1>4
    <3> QED BY <1>1, <1>5, <2>1, <2>2, <3>1, GrowKeeps
  <2> QED BY <1>2, <2>3 DEF NobodyDeafForGood, Waits, Forced
<1>6. CASE Head(up[m]).kind = "state" /\ TakeState(m, Head(up[m]))
  <2> DEFINE msg == Head(up[m])
  <2>1. msg \in StateUp /\ States(up[m]) = {msg} \cup States(Tail(up[m]))
    BY <1>1, <1>6, Kinds DEF StateOf
  <2>2. PICK heard, acks : Takes(m, msg, heard, acks)
    BY <1>6, <2>1, TakeStateFacts
  <2> HIDE DEF msg
  <2>3. CASE ForceState(heard, acks)
    <3>1. heard \in [Members -> Nat]
      BY <2>2 DEF Takes
    <3>2. \A j \in Online : Waits(j)' /\ Forced(j)'
      BY <2>3, <3>1, ForceDeaf
    <3> QED BY <1>2, <3>2 DEF NobodyDeafForGood, Waits, Forced
  <2>4. CASE deaf' = heard /\ ack' = acks /\ UNCHANGED <<room, down>>
    <3>1. /\ deaf'[m] = (IF msg.server = deaf[m] THEN 0 ELSE deaf[m])
          /\ ack'[m] <=> ack[m] \/ msg.client
          /\ \A j \in Members \ {m} : deaf'[j] = deaf[j] /\ ack'[j] = ack[j]
      <4>1. deaf \in [Members -> Nat] /\ ack \in [Members -> BOOLEAN]
        BY DEF IInv, Serving
      <4>2. /\ heard = [deaf EXCEPT ![m] = IF msg.server = @ THEN 0 ELSE @]
            /\ acks = [ack EXCEPT ![m] = @ \/ msg.client]
        BY <2>2 DEF Takes
      <4> QED BY <2>4, <4>1, <4>2
    <3>2. \A j \in Members : States(down[j])' = States(down[j])
      BY <2>4 DEF States
    <3>3. ASSUME m \in Online PROVE Waits(m)'
      <4>1. Waits(m)
        BY <1>4, <3>3
      <4> QED BY <1>1, <1>3, <2>1, <3>1, <3>2, <4>1 DEF Waits
    <3>4. ASSUME m \in Online PROVE Forced(m)'
      <4>1. Forced(m)
        BY <1>4, <3>4
      <4>2. deaf'[m] > 0 => deaf'[m] = deaf[m] /\ msg.server # deaf[m]
        BY <3>1
      <4> QED BY <1>3, <2>1, <3>2, <4>1, <4>2 DEF Forced
    <3>5. ASSUME NEW j \in Online, j # m PROVE Waits(j)' /\ Forced(j)'
      <4>1. j \in Members /\ Waits(j) /\ Forced(j)
        BY <1>4
      <4>2. deaf'[j] = deaf[j] /\ ack'[j] = ack[j] /\ States(up[j])' = States(up[j])
        BY <1>3, <3>1, <3>5, <4>1
      <4> QED BY <1>1, <3>2, <4>1, <4>2, GrowKeeps
    <3> QED BY <1>2, <3>3, <3>4, <3>5 DEF NobodyDeafForGood, Waits, Forced
  <2> QED BY <2>2, <2>3, <2>4 DEF Takes
<1> QED BY <1>5, <1>6 DEF Serve

LEMMA TickDeaf ==
    ASSUME IInv, NobodyDeafForGood, NEW m \in Members, Tick(m)
    PROVE  NobodyDeafForGood'
<1> DEFINE msg == FromServer(room, 0, ack[m])
<1>1. /\ down' = [down EXCEPT ![m] = Append(@, msg)] /\ ack' = [ack EXCEPT ![m] = FALSE]
      /\ UNCHANGED <<client, up, deaf>>
      /\ down \in [Members -> Seq(Down)] /\ ack \in [Members -> BOOLEAN]
  BY DEF Tick, IInv, Wires, Serving
<1>2. msg.kind = "state" /\ msg.client = ack[m]
  BY DEF FromServer
<1> HIDE DEF msg
<1>3. /\ down'[m] = Append(down[m], msg)
      /\ \A j \in Members \ {m} : down'[j] = down[j] /\ ack'[j] = ack[j]
  BY <1>1
<1>4. States(down[m])' = States(down[m]) \cup {msg}
  BY <1>2, <1>3, DownAppend DEF StateOf
<1>5. \A j \in Members : States(up[j])' = States(up[j])
  BY <1>1 DEF States
<1>6. \A j \in Online : Waits(j) /\ Forced(j) /\ j \in Members
  BY DEF NobodyDeafForGood, Waits, Forced, Online
<1>7. ASSUME NEW j \in Online PROVE Waits(j)' /\ Forced(j)'
  <2>1. j \in Members /\ Waits(j) /\ Forced(j)
    BY <1>6
  <2>2. CASE j # m
    <3>1. ack'[j] = ack[j] /\ down'[j] = down[j]
      BY <1>3, <2>1, <2>2
    <3>2. States(down[j])' = States(down[j])
      BY <3>1 DEF States
    <3> QED BY <1>1, <1>5, <2>1, <3>1, <3>2, GrowKeeps
  <2>3. CASE j = m
    <3>1. Waits(m)'
      <4>1. CASE ack[m]
        <5>1. msg \in States(down[m])' /\ msg.client
          BY <1>2, <1>4, <4>1
        <5> QED BY <5>1 DEF Waits
      <4>2. CASE ~ack[m]
        BY <1>1, <1>4, <1>5, <2>1, <2>3, <4>2 DEF Waits
      <4> QED BY <4>1, <4>2
    <3>2. Forced(m)'
      BY <1>1, <1>4, <1>5, <2>1, <2>3 DEF Forced
    <3> QED BY <2>3, <3>1, <3>2
  <2> QED BY <2>2, <2>3
<1>8. Online' = Online
  BY <1>1 DEF Online
<1> QED BY <1>7, <1>8 DEF NobodyDeafForGood, Waits, Forced

LEMMA ConnectionDeaf ==
    ASSUME IInv, NobodyDeafForGood, NEW m \in Members, Connect(m) \/ Drop(m)
    PROVE  NobodyDeafForGood'
<1>1. client \in [Members -> Client] /\ client[m] \in Client
  BY DEF IInv, Clients
<1>2. /\ \A j \in Members \ {m} : client'[j] = client[j]
      /\ Connect(m) => ~client'[m].awaiting
      /\ Drop(m) => ~client'[m].online
  <2>1. CASE Connect(m)
    <3> DEFINE d == [client[m] EXCEPT !.online = TRUE, !.listed = FALSE, !.others = {},
                                      !.awaiting = FALSE, !.held = Nothing, !.room = Nothing,
                                      !.synced = FALSE]
    <3>1. ~d.awaiting /\ d.online
      BY <1>1 DEF Client
    <3>2. client' = [client EXCEPT ![m] = d]
      BY <2>1 DEF Connect
    <3> HIDE DEF d
    <3>3. client'[m] = d /\ ~Drop(m)
      BY <1>1, <2>1, <3>2 DEF Connect, Drop
    <3> QED BY <1>1, <3>1, <3>2, <3>3
  <2>2. CASE Drop(m)
    <3> DEFINE d == [client[m] EXCEPT !.online = FALSE]
    <3>1. ~d.online
      BY <1>1 DEF Client
    <3>2. client' = [client EXCEPT ![m] = d]
      BY <2>2 DEF Drop
    <3> HIDE DEF d
    <3>3. client'[m] = d /\ ~Connect(m)
      BY <1>1, <2>2, <3>2 DEF Connect, Drop
    <3> QED BY <1>1, <3>1, <3>2, <3>3
  <2> QED BY <2>1, <2>2
<1>3. ASSUME NEW j \in Members, j # m
      PROVE  /\ deaf'[j] = deaf[j] /\ ack'[j] = ack[j]
             /\ States(up[j])' = States(up[j]) /\ States(down[j]) \subseteq States(down[j])'
  <2>1. deaf'[j] = deaf[j] /\ ack'[j] = ack[j] /\ up'[j] = up[j]
    BY <1>3 DEF Connect, Drop, IInv, Serving, Wires
  <2>2. down'[j] = down[j] \/ down'[j] = Append(down[j], Gone(m))
    BY <1>3 DEF Connect, Drop
  <2>3. CASE down'[j] = down[j]
    BY <2>1, <2>3 DEF States
  <2>4. CASE down'[j] = Append(down[j], Gone(m))
    <3>1. States(up[j])' = States(up[j])
      BY <2>1 DEF States
    <3> QED BY <2>1, <2>4, <3>1, DownAppend
  <2> QED BY <2>2, <2>3, <2>4
<1>4. ASSUME NEW j \in Members, j # m, j \in Online' PROVE Waits(j)' /\ Forced(j)'
  <2>1. client'[j] = client[j]
    BY <1>2, <1>4
  <2>2. j \in Online
    BY <1>4, <2>1 DEF Online
  <2>3. Waits(j) /\ Forced(j)
    BY <2>2 DEF NobodyDeafForGood, Waits, Forced
  <2> QED BY <1>3, <1>4, <2>1, <2>3, GrowKeeps
<1>5. ASSUME m \in Online' PROVE Waits(m)' /\ Forced(m)'
  <2>1. Connect(m)
    BY <1>2, <1>5 DEF Online
  <2>2. ~client'[m].awaiting /\ deaf'[m] = 0
    BY <1>2, <2>1 DEF Connect, IInv, Serving
  <2> QED BY <2>2 DEF Waits, Forced
<1>6. \A j \in Online' : j \in Members
  BY DEF Online
<1> QED BY <1>4, <1>5, <1>6 DEF NobodyDeafForGood, Waits, Forced

LEMMA PlayerDeaf ==
    ASSUME IInv, NobodyDeafForGood, NEW m \in Members, Expire(m) \/ Report(m) \/ Change(m)
    PROVE  NobodyDeafForGood'
<1>1. UNCHANGED <<up, down, deaf, ack>>
  BY DEF Expire, Report, Change, network, server
<1>2. \A j \in Members : client'[j].online = client[j].online /\ client'[j].awaiting = client[j].awaiting
  BY DEF Expire, Report, Change, IInv, Clients, Client
<1>3. Online' = Online
  BY <1>2 DEF Online
<1>4. \A j \in Members : States(up[j])' = States(up[j]) /\ States(down[j])' = States(down[j])
  BY <1>1 DEF States
<1>5. ASSUME NEW j \in Online PROVE Waits(j)' /\ Forced(j)'
  <2>1. j \in Members /\ Waits(j) /\ Forced(j)
    BY DEF NobodyDeafForGood, Waits, Forced, Online
  <2> QED BY <1>1, <1>2, <1>4, <2>1, GrowKeeps
<1> QED BY <1>3, <1>5 DEF NobodyDeafForGood, Waits, Forced

(* Neither side stops listening for good: a member with a change on its way has an answer
   coming and a server that forced a change on a member has an acknowledgement coming,
   however changes, answers, losses and connections cross (on_state, force, message). *)
THEOREM NobodyDeaf == Spec => []NobodyDeafForGood
<1>1. Init => NobodyDeafForGood
  <2>1. ASSUME Init, NEW m \in Members PROVE ~client[m].awaiting /\ deaf[m] = 0
    <3>1. \A other : ~Watching(m, room, other).awaiting
      BY DEF Watching, NewClient
    <3>2. ~NewClient.awaiting
      BY DEF NewClient
    <3> QED BY <2>1, <3>1, <3>2 DEF Init
  <2> QED BY <2>1 DEF NobodyDeafForGood, Online
<1>2. IInv /\ IInv' /\ NobodyDeafForGood /\ [Next]_vars => NobodyDeafForGood'
  <2> SUFFICES ASSUME IInv, IInv', NobodyDeafForGood, [Next]_vars PROVE NobodyDeafForGood'
    OBVIOUS
  <2>1. CASE UNCHANGED vars
    BY <2>1 DEF NobodyDeafForGood, Online, States, vars, server, network
  <2>2. ASSUME NEW m \in Members, Runs(m) \/ Drop(m) \/ Change(m) PROVE NobodyDeafForGood'
    BY <2>2, HearDeaf, TakeReportDeaf, ServeDeaf, TickDeaf, ConnectionDeaf, PlayerDeaf DEF Runs
  <2> QED BY <2>1, <2>2 DEF Next
<1>3. Spec => []IInv
  BY InitInv, NextInv, PTL DEF Spec
<1> QED BY <1>1, <1>2, <1>3, PTL DEF Spec

-----------------------------------------------------------------------------
(* Orders are not echoed. *)

Unforced(line) == \A msg \in States(line) : msg.change => msg.seek

(* Until a user pauses or resumes, every player does what it is told and no change but one
   that makes a room a player's goes out. *)
Calm == ~changed => \A m \in Members : /\ Obedient(client[m], paused[m], report[m])
                                       /\ Unforced(up[m])

(* With nothing of its own to say, what a member sends asks for nothing of the room. *)
LEMMA SendObeys ==
    ASSUME NEW c, NEW change, NEW seek, NEW n, NEW made, NEW p, NEW r,
           Kept(c, made.client), Sends(c, change, seek, n, made), Obedient(c, p, r),
           change # Nothing => seek /\ c.synced /\ ~c.awaiting
    PROVE  Obedient(made.client, p, r) /\ Unforced(made.sent)
<1>1. CASE made.sent = <<>> /\ made.client = c
  BY <1>1, StatesOfNone DEF Unforced
<1>2. CASE /\ made.sent = <<FromMember(change, seek, n, TRUE, TRUE)>>
           /\ change # Nothing /\ made.client.awaiting /\ made.client.held = c.held
  <2>1. Obedient(made.client, p, r)
    BY <1>2 DEF Obedient, Kept
  <2> DEFINE msg == FromMember(change, seek, n, TRUE, TRUE)
  <2>2. msg.seek
    BY <1>2 DEF FromMember
  <2> HIDE DEF msg
  <2>3. \A x \in States(<<msg>>) : x = msg
    BY StatesOfOne DEF StateOf
  <2>4. Unforced(<<msg>>)
    BY <2>2, <2>3 DEF Unforced
  <2> QED BY <1>2, <2>1, <2>4 DEF msg
<1> QED BY <1>1, <1>2 DEF Sends

LEMMA HearObeys ==
    ASSUME NEW c, NEW msg, NEW first, NEW p, NEW r,
           Kept(c, first.client), Hears(c, msg, first), Obedient(c, p, r)
    PROVE  Obedient(first.client, p, r) /\ first.sent = <<>>
BY DEF Obedient, Kept, Hears

(* With nobody else there, no report has the player told anything. *)
LEMMA LoneTold ==
    ASSUME NEW c \in Client, NEW says \in BOOLEAN, c.others = {}
    PROVE  Sample(c, says).order = Nothing
<1> DEFINE heard == Believed(c, says)
<1>1. heard.others = {} /\ heard \in Client
  BY DEF Believed, Client, Known
<1> HIDE DEF heard
<1>2. CASE c.here = Nothing \/ ~c.synced
  <2>1. Sample(c, says) = Together(heard)
    BY <1>2 DEF Sample, heard, Believed
  <2>2. CASE Nothing \in {heard.here, heard.room}
    <3>1. Together(heard) = Quiet(heard)
      BY <2>2 DEF Together
    <3> QED BY <2>1, <3>1 DEF Quiet
  <2>3. CASE Nothing \notin {heard.here, heard.room}
    <3> DEFINE met == [heard EXCEPT !.synced = TRUE, !.room = Nothing]
    <3>1. Together(heard) = Changed(met, TRUE)
      BY <1>1, <2>3 DEF Together
    <3> QED BY <2>1, <3>1 DEF Changed
  <2> QED BY <2>2, <2>3
<1>3. CASE c.here # Nothing /\ c.synced /\ heard.here # c.here
  BY <1>3 DEF Sample, Changed, heard, Believed
<1>4. CASE c.here # Nothing /\ c.synced /\ heard.here = c.here
  BY <1>4 DEF Sample, Quiet, heard, Believed
<1> QED BY <1>2, <1>3, <1>4

LEMMA HearCalm == ASSUME IInv, Calm, ~changed, NEW m \in Members, Hear(m) PROVE Calm'
<1>1. /\ down[m] \in Seq(Down) /\ down[m] # <<>> /\ Head(down[m]) \in Down
      /\ UNCHANGED <<report, changed>>
  BY StatesHeadTail DEF Hear, IInv, Wires, budget
<1>2. /\ client \in [Members -> Client] /\ up \in [Members -> Seq(Up)]
      /\ paused \in [Members -> BOOLEAN] /\ report \in [Members -> Known]
  BY DEF IInv, Clients, Wires, Players
<1>3. \A j \in Members : Obedient(client[j], paused[j], report[j]) /\ Unforced(up[j])
  BY DEF Calm
<1>4. CASE Head(down[m]).kind = "state"
  <2> DEFINE msg == Head(down[m])
  <2>1. msg \in StateDown
    BY <1>1, <1>4, Kinds
  <2>2. PICK first, sync, made, answer : Exchange(m, msg, first, sync, made, answer)
    BY <1>2, <1>4, <2>1, OnStateFacts DEF Hear, Clients
  <2>3. msg.paused \in BOOLEAN
    BY <2>1 DEF StateDown
  <2> HIDE DEF msg
  <2>4. Obedient(first.client, paused[m], report[m]) /\ first.sent = <<>>
    BY <1>3, <2>2, HearObeys DEF Exchange
  <2>5. first.client \in Client
    BY <2>2 DEF Exchange, Kept
  <2>6. /\ Obedient(sync.client, Does(sync.order, paused[m]), report[m])
        /\ sync.change # Nothing => sync.seek /\ sync.client.synced /\ ~sync.client.awaiting
    <3>1. CASE sync = Quiet(first.client)
      BY <2>4, <3>1 DEF Quiet, Does
    <3>2. CASE sync = Room(first.client, msg.paused)
      <4>1. sync.client.awaiting = first.client.awaiting
        BY <2>2 DEF Exchange, Same
      <4> QED BY <1>2, <2>3, <2>4, <2>5, <3>2, <4>1, RoomObeys
    <3> QED BY <2>2, <3>1, <3>2 DEF Exchange
  <2>7. Obedient(made.client, Does(sync.order, paused[m]), report[m]) /\ Unforced(made.sent)
    <3>1. Kept(sync.client, made.client) /\ Sends(sync.client, sync.change, sync.seek, msg.server, made)
      BY <2>2 DEF Exchange
    <3> QED BY <2>6, <3>1, SendObeys
  <2>8. Unforced(up[m])'
    <3>1. States(up[m])' = States(up[m]) \cup States(first.sent) \cup States(made.sent) \cup {answer}
      BY <2>2, ExchangeStates
    <3>2. States(first.sent) = {} /\ ~answer.change
      BY <2>2, <2>4, StatesOfNone DEF Exchange
    <3> QED BY <1>3, <2>7, <3>1, <3>2 DEF Unforced
  <2>9. /\ client'[m] = made.client /\ paused'[m] = Does(sync.order, paused[m])
        /\ \A j \in Members \ {m} : client'[j] = client[j] /\ paused'[j] = paused[j] /\ up'[j] = up[j]
    BY <1>2, <2>2 DEF Exchange, Obey, Does
  <2>10. Obedient(client[m], paused[m], report[m])'
    BY <1>1, <2>7, <2>9
  <2>11. ASSUME NEW j \in Members, j # m
         PROVE  Obedient(client[j], paused[j], report[j])' /\ Unforced(up[j])'
    <3>1. Obedient(client[j], paused[j], report[j])'
      BY <1>1, <1>3, <2>9, <2>11
    <3>2. Unforced(up[j])'
      BY <1>3, <2>9, <2>11 DEF Unforced, States
    <3> QED BY <3>1, <3>2
  <2> QED BY <2>8, <2>10, <2>11 DEF Calm
<1>5. CASE Head(down[m]).kind # "state"
  <2> DEFINE msg == Head(down[m])
  <2>1. OnMembers(m, msg) /\ msg.kind \in {"list", "file", "left"} /\ UNCHANGED <<paused, up>>
    BY <1>1, <1>5, Kinds DEF Hear, OnMembers
  <2> HIDE DEF msg
  <2>2. ASSUME NEW j \in Members PROVE Obedient(client[j], paused[j], report[j])'
    <3>1. /\ client'[j].want = client[j].want /\ client'[j].here = client[j].here
          /\ client'[j].held = client[j].held /\ client'[j].synced = client[j].synced
          /\ client'[j].awaiting = client[j].awaiting
      <4>1. CASE msg.kind = "list"
        BY <1>2, <2>1, <4>1 DEF OnMembers, Client
      <4>2. CASE msg.kind = "file"
        BY <1>2, <2>1, <4>2 DEF OnMembers, Client
      <4>3. CASE msg.kind = "left"
        BY <1>2, <2>1, <4>3 DEF OnMembers, Client
      <4> QED BY <2>1, <4>1, <4>2, <4>3
    <3>2. Obedient(client[j], paused[j], report[j])
      BY <1>3
    <3> QED BY <1>1, <2>1, <3>1, <3>2 DEF Obedient
  <2>3. \A j \in Members : Unforced(up[j])'
    BY <1>3, <2>1 DEF Unforced, States
  <2> QED BY <2>2, <2>3 DEF Calm
<1> QED BY <1>4, <1>5

LEMMA TakeReportCalm ==
    ASSUME IInv, Calm, ~changed, NEW m \in Members, TakeReport(m)
    PROVE  Calm'
<1>1. /\ report[m] \in BOOLEAN /\ report' = [report EXCEPT ![m] = Nothing]
      /\ client[m] \in Client /\ client \in [Members -> Client] /\ up \in [Members -> Seq(Up)]
      /\ paused \in [Members -> BOOLEAN] /\ report \in [Members -> Known]
  BY DEF TakeReport, IInv, Players, Known, Clients, Wires
<1>2. \A j \in Members : Obedient(client[j], paused[j], report[j]) /\ Unforced(up[j])
  BY DEF Calm
<1>3. report'[m] = Nothing /\ \A j \in Members \ {m} : report'[j] = report[j]
  BY <1>1
<1>4. CASE client[m].online
  <2> DEFINE sync == Sample(client[m], report[m])
             made == SendChange(sync.client, sync.change, sync.seek, 0)
  <2>1. /\ client' = [client EXCEPT ![m] = made.client] /\ Obey(m, sync.order)
        /\ up' = [up EXCEPT ![m] = @ \o made.sent]
    BY <1>4 DEF TakeReport
  <2>2. sync \in Outcome /\ Same(client[m], sync.client)
    BY <1>1, SampleFacts
  <2>3. /\ Obedient(sync.client, Does(sync.order, paused[m]), Nothing)
        /\ sync.change # Nothing => sync.seek /\ sync.client.synced /\ ~client[m].awaiting
    BY <1>1, <1>2, SampleObeys
  <2> HIDE DEF sync
  <2>4. Kept(sync.client, made.client) /\ Sends(sync.client, sync.change, sync.seek, 0, made)
    BY <2>2, SendFacts DEF Outcome
  <2> HIDE DEF made
  <2>5. sync.client.awaiting = client[m].awaiting
    BY <2>2 DEF Same
  <2>6. Obedient(made.client, Does(sync.order, paused[m]), Nothing) /\ Unforced(made.sent)
    BY <2>3, <2>4, <2>5, SendObeys
  <2>7. Unforced(up[m])'
    <3>1. made.sent = <<>> \/ \E x \in StateUp : made.sent = <<x>>
      BY <2>4 DEF Sends
    <3>2. made.sent \in Seq(Up) /\ up[m] \in Seq(Up)
      BY <1>1, <3>1, OneFits
    <3>3. States(up[m] \o made.sent) = States(up[m]) \cup States(made.sent)
      BY <3>2, StatesConcat
    <3>4. up'[m] = up[m] \o made.sent
      BY <1>1, <2>1
    <3>5. Unforced(up[m] \o made.sent)
      BY <1>2, <2>6, <3>3 DEF Unforced
    <3> QED BY <3>4, <3>5 DEF Unforced, States
  <2>8. /\ client'[m] = made.client /\ paused'[m] = Does(sync.order, paused[m])
        /\ \A j \in Members \ {m} : client'[j] = client[j] /\ paused'[j] = paused[j] /\ up'[j] = up[j]
    BY <1>1, <2>1 DEF Obey, Does
  <2>9. Obedient(client[m], paused[m], report[m])'
    BY <1>3, <2>6, <2>8
  <2>10. ASSUME NEW j \in Members, j # m
         PROVE  Obedient(client[j], paused[j], report[j])' /\ Unforced(up[j])'
    <3>1. Obedient(client[j], paused[j], report[j])'
      BY <1>2, <1>3, <2>8, <2>10
    <3>2. Unforced(up[j])'
      BY <1>2, <2>8, <2>10 DEF Unforced, States
    <3> QED BY <3>1, <3>2
  <2> QED BY <2>7, <2>9, <2>10 DEF Calm
<1>5. CASE ~client[m].online
  <2> DEFINE lone  == [client[m] EXCEPT !.others = {}]
             alone == Sample(lone, report[m])
  <2>1. client' = [client EXCEPT ![m] = alone.client] /\ UNCHANGED <<paused, up>>
    BY <1>5 DEF TakeReport
  <2>2. lone \in Client /\ lone.others = {}
    BY <1>1 DEF Client
  <2>3. Obedient(lone, paused[m], report[m])
    <3>1. /\ lone.want = client[m].want /\ lone.here = client[m].here /\ lone.held = client[m].held
          /\ lone.synced = client[m].synced /\ lone.awaiting = client[m].awaiting
      BY <1>1 DEF Client
    <3> HIDE DEF lone
    <3>2. Obedient(client[m], paused[m], report[m])
      BY <1>2
    <3> QED BY <3>1, <3>2 DEF Obedient
  <2> HIDE DEF lone
  <2>4. /\ Obedient(alone.client, Does(alone.order, paused[m]), Nothing)
        /\ alone.order = Nothing
    BY <1>1, <2>2, <2>3, SampleObeys, LoneTold
  <2> HIDE DEF alone
  <2>5. Obedient(alone.client, paused[m], Nothing)
    BY <2>4 DEF Does
  <2>6. client'[m] = alone.client /\ \A j \in Members \ {m} : client'[j] = client[j]
    BY <1>1, <2>1
  <2>7. ASSUME NEW j \in Members PROVE Obedient(client[j], paused[j], report[j])'
    BY <1>2, <1>3, <2>1, <2>5, <2>6
  <2>8. \A j \in Members : Unforced(up[j])'
    BY <1>2, <2>1 DEF Unforced, States
  <2> QED BY <2>7, <2>8 DEF Calm
<1> QED BY <1>4, <1>5

LEMMA ServerCalm ==
    ASSUME IInv, Calm, ~changed, NEW m \in Members, Serve(m) \/ Tick(m)
    PROVE  Calm'
<1>1. UNCHANGED <<paused, report, client>>
  BY DEF Serve, Tick, watching
<1>2. \A j \in Members : Obedient(client[j], paused[j], report[j]) /\ Unforced(up[j])
  BY DEF Calm
<1>3. ASSUME NEW j \in Members PROVE Unforced(up[j])'
  <2>1. up \in [Members -> Seq(Up)]
    BY DEF IInv, Wires
  <2>2. CASE up'[j] = up[j]
    BY <1>2, <2>2 DEF Unforced, States
  <2>3. CASE up[j] # <<>> /\ up'[j] = Tail(up[j])
    <3>1. States(Tail(up[j])) \subseteq States(up[j])
      BY <2>1, <2>3, StatesHeadTail
    <3>2. Unforced(Tail(up[j]))
      BY <1>2, <3>1 DEF Unforced
    <3> QED BY <2>3, <3>2 DEF Unforced, States
  <2>4. up'[j] = up[j] \/ (up[j] # <<>> /\ up'[j] = Tail(up[j]))
    BY <2>1 DEF Serve, Tick
  <2> QED BY <2>2, <2>3, <2>4
<1> QED BY <1>1, <1>2, <1>3 DEF Calm

LEMMA ConnectionCalm ==
    ASSUME IInv, Calm, ~changed, NEW m \in Members, Connect(m) \/ Drop(m)
    PROVE  Calm'
<1>1. /\ client \in [Members -> Client] /\ client[m] \in Client
      /\ up \in [Members -> Seq(Up)] /\ UNCHANGED <<paused, report>>
  BY DEF IInv, Clients, Wires, Connect, Drop, watching
<1>2. \A j \in Members : Obedient(client[j], paused[j], report[j]) /\ Unforced(up[j])
  BY DEF Calm
<1>3. /\ client'[m].want = client[m].want /\ client'[m].here = client[m].here
      /\ client'[m].held \in {Nothing, client[m].held}
      /\ client'[m].synced => client[m].synced
      /\ client'[m].awaiting => client[m].awaiting /\ client'[m].synced = client[m].synced
      /\ \A j \in Members \ {m} : client'[j] = client[j]
  <2>1. CASE Connect(m)
    <3> DEFINE d == [client[m] EXCEPT !.online = TRUE, !.listed = FALSE, !.others = {},
                                      !.awaiting = FALSE, !.held = Nothing, !.room = Nothing,
                                      !.synced = FALSE]
    <3>1. /\ d.want = client[m].want /\ d.here = client[m].here /\ d.held = Nothing
          /\ d.synced = FALSE /\ d.awaiting = FALSE
      BY <1>1 DEF Client
    <3>2. client' = [client EXCEPT ![m] = d]
      BY <2>1 DEF Connect
    <3> HIDE DEF d
    <3>3. client'[m] = d /\ \A j \in Members \ {m} : client'[j] = client[j]
      BY <1>1, <3>2
    <3> QED BY <3>1, <3>3
  <2>2. CASE Drop(m)
    <3> DEFINE d == [client[m] EXCEPT !.online = FALSE]
    <3>1. /\ d.want = client[m].want /\ d.here = client[m].here /\ d.held = client[m].held
          /\ d.synced = client[m].synced /\ d.awaiting = client[m].awaiting
      BY <1>1 DEF Client
    <3>2. client' = [client EXCEPT ![m] = d]
      BY <2>2 DEF Drop
    <3> HIDE DEF d
    <3>3. client'[m] = d /\ \A j \in Members \ {m} : client'[j] = client[j]
      BY <1>1, <3>2
    <3> QED BY <3>1, <3>3
  <2> QED BY <2>1, <2>2
<1>4. Obedient(client[m], paused[m], report[m])'
  <2>1. Obedient(client[m], paused[m], report[m])
    BY <1>2
  <2> QED BY <1>1, <1>3, <2>1 DEF Obedient
<1>5. Unforced(up[m])'
  <2>1. up'[m] = <<Meet>> \/ up'[m] = <<>>
    BY <1>1 DEF Connect, Drop
  <2>2. States(<<Meet>>) = {} /\ States(<<>>) = {}
    BY StatesOfOne, StatesOfNone DEF StateOf, Meet
  <2>3. States(up'[m]) = {}
    BY <2>1, <2>2
  <2> QED BY <2>3 DEF Unforced, States
<1>6. ASSUME NEW j \in Members, j # m
      PROVE  Obedient(client[j], paused[j], report[j])' /\ Unforced(up[j])'
  <2>1. up'[j] = up[j]
    BY <1>1, <1>6 DEF Connect, Drop
  <2>2. Unforced(up[j])'
    BY <1>2, <2>1 DEF Unforced, States
  <2> QED BY <1>1, <1>2, <1>3, <1>6, <2>2
<1> QED BY <1>4, <1>5, <1>6 DEF Calm

LEMMA PlayerCalm ==
    ASSUME IInv, Calm, ~changed, NEW m \in Members, Expire(m) \/ Report(m) \/ Change(m)
    PROVE  Calm'
<1>1. CASE Change(m)
  BY <1>1 DEF Change, Calm
<1>2. \A j \in Members : Obedient(client[j], paused[j], report[j]) /\ Unforced(up[j])
  BY DEF Calm
<1>3. ASSUME Expire(m) \/ Report(m), NEW j \in Members PROVE Unforced(up[j])'
  <2>1. up'[j] = up[j]
    BY <1>3 DEF Expire, Report, network
  <2> QED BY <1>2, <2>1 DEF Unforced, States
<1>4. CASE Expire(m)
  <2> DEFINE d == [client[m] EXCEPT !.want = Nothing]
  <2>1. client \in [Members -> Client] /\ client[m] \in Client
    BY DEF IInv, Clients
  <2>2. /\ d.want = Nothing /\ d.here = client[m].here /\ d.held = client[m].held
        /\ d.synced = client[m].synced /\ d.awaiting = client[m].awaiting
    BY <2>1 DEF Client
  <2>3. /\ client' = [client EXCEPT ![m] = d] /\ report[m] \in {Nothing, paused[m]}
        /\ UNCHANGED <<paused, report>>
    BY <1>4 DEF Expire, watching
  <2> HIDE DEF d
  <2>4. client'[m] = d /\ \A j \in Members \ {m} : client'[j] = client[j]
    BY <2>1, <2>3
  <2>5. Obedient(client[m], paused[m], report[m])'
    <3>1. Obedient(client[m], paused[m], report[m])
      BY <1>2
    <3> QED BY <2>2, <2>3, <2>4, <3>1 DEF Obedient
  <2> QED BY <1>2, <1>3, <1>4, <2>3, <2>4, <2>5 DEF Calm
<1>5. CASE Report(m)
  <2>1. report \in [Members -> Known]
    BY DEF IInv, Players
  <2>2. report' = [report EXCEPT ![m] = paused[m]] /\ UNCHANGED <<paused, client>>
    BY <1>5 DEF Report
  <2>3. report'[m] = paused[m] /\ \A j \in Members \ {m} : report'[j] = report[j]
    BY <2>1, <2>2
  <2>4. Obedient(client[m], paused[m], report[m])'
    <3>1. Obedient(client[m], paused[m], report[m])
      BY <1>2
    <3> QED BY <2>2, <2>3, <3>1 DEF Obedient
  <2> QED BY <1>2, <1>3, <1>5, <2>2, <2>3, <2>4 DEF Calm
<1> QED BY <1>1, <1>4, <1>5

(* What a player was told is never sent back as a change of its own: while no user pauses or
   resumes, nothing but what makes a room a player's asks the room for a change, however
   states, orders, stale reports, losses and connections cross (Sync::sample, want). *)
THEOREM NotEchoed == Spec => []OrdersAreNotEchoed
<1>1. Calm => OrdersAreNotEchoed
  BY DEF Calm, Unforced, OrdersAreNotEchoed
<1>2. Init => Calm
  <2>1. ASSUME Init, NEW m \in Members
        PROVE  Obedient(client[m], paused[m], report[m]) /\ Unforced(up[m])
    <3>1. PICK away \in SUBSET Members :
            /\ paused \in [Members -> BOOLEAN]
            /\ \A j \in Members \ away : paused[j] = room
            /\ client = [j \in Members |->
                           IF j \in away THEN NewClient
                           ELSE Watching(j, room, Members \ (away \cup {j}))]
            /\ report = [j \in Members |-> Nothing]
            /\ up = [j \in Members |-> <<>>]
      BY <2>1 DEF Init
    <3>2. Unforced(up[m])
      BY <3>1, StatesOfNone DEF Unforced
    <3>3. CASE m \in away
      <4>1. /\ NewClient.want = Nothing /\ NewClient.here = Nothing /\ NewClient.held = Nothing
            /\ NewClient.synced = FALSE /\ NewClient.awaiting = FALSE
        BY DEF NewClient
      <4>2. client[m] = NewClient /\ report[m] = Nothing
        BY <3>1, <3>3
      <4> QED BY <3>2, <4>1, <4>2 DEF Obedient
    <3>4. CASE m \notin away
      <4> DEFINE d == Watching(m, room, Members \ (away \cup {m}))
      <4>1. /\ d.want = Nothing /\ d.here = room /\ d.held = Nothing /\ d.synced = TRUE
            /\ d.awaiting = FALSE
        BY DEF Watching, NewClient
      <4> HIDE DEF d
      <4>2. client[m] = d /\ paused[m] = room /\ report[m] = Nothing
        BY <3>1, <3>4 DEF d
      <4>3. paused[m] \in BOOLEAN /\ Nothing \notin BOOLEAN
        BY <3>1, NothingIsNoTruth
      <4> QED BY <3>2, <4>1, <4>2, <4>3 DEF Obedient
    <3> QED BY <3>2, <3>3, <3>4
  <2> QED BY <2>1 DEF Calm
<1>3. IInv /\ Calm /\ [Next]_vars => Calm'
  <2> SUFFICES ASSUME IInv, Calm, [Next]_vars PROVE Calm'
    OBVIOUS
  <2>1. CASE UNCHANGED vars
    BY <2>1 DEF Calm, Unforced, States, vars, watching, network, budget
  <2>2. ASSUME NEW m \in Members, Runs(m) \/ Drop(m) \/ Change(m), ~changed PROVE Calm'
    BY <2>2, HearCalm, TakeReportCalm, ServerCalm, ConnectionCalm, PlayerCalm DEF Runs
  <2>3. ASSUME NEW m \in Members, Runs(m) \/ Drop(m) \/ Change(m), changed PROVE Calm'
    <3>1. changed'
      BY <2>3 DEF Runs, Hear, TakeReport, Expire, Serve, Tick, Connect, Report, Drop, Change, budget
    <3> QED BY <3>1 DEF Calm
  <2> QED BY <2>1, <2>2, <2>3 DEF Next
<1>4. Spec => []IInv
  BY InitInv, NextInv, PTL DEF Spec
<1> QED BY <1>1, <1>2, <1>3, <1>4, PTL DEF Spec


-----------------------------------------------------------------------------
(* Whoever has nothing on its way does what the room does.  A member that differs from the   *)
(* room has a forced state coming, has a state going to the server that will be taken for    *)
(* the room's, or holds one back that will be sent.                                          *)

Forcing(line) == \E msg \in States(line) : msg.server > 0

(* What is said of the room after the last forced state, and there, is how it is now. *)
Lasting(line, is) ==
    \A i \in 1..Len(line) :
        line[i].kind = "state" /\ line[i].paused # is =>
            \E k \in i + 1..Len(line) : line[k].kind = "state" /\ line[k].server > 0

(* A state on its way that the server, which waits for word of its change n, will take. *)
Heeded(line, n, is) ==
    \E i \in 1..Len(line) :
        /\ line[i].kind = "state" /\ line[i].paused \notin {Nothing, is}
        /\ n # 0 => \E k \in 1..i : line[k].kind = "state" /\ line[k].server = n

(* What the rules keep of a client: it acts on what it hears once it has met the room, and
   holds back no change but its last. *)
Met(c) ==
    /\ c.synced => c.listed /\ c.here # Nothing
    /\ c.awaiting => c.synced
    /\ c.held # Nothing => c.awaiting /\ c.held = c.here
    /\ ~c.synced /\ c.room # Nothing => c.listed

(* A client that has met the room does what the room does, or one will hear of the other;
   one that has not knows what the room does, or will hear of it. *)
Nears(c, coming, going, n, is) ==
    \/ c.here = is
    \/ Forcing(coming)
    \/ Heeded(going, n, is)
    \/ c.awaiting /\ c.held = c.here
Reaches(c, coming, going, n, is) ==
    /\ Met(c)
    /\ Lasting(coming, is)
    /\ c.synced => Nears(c, coming, going, n, is)
    /\ ~c.synced /\ c.room # Nothing => c.room = is \/ Forcing(coming)

Reaching(m) == Reaches(client[m], down[m], up[m], deaf[m], room)
AllReach    == \A m \in Online : Reaching(m)

(* Nothing is on its way to or from a member that has met the room, nor is there anything to
   say to it or of its player. *)
Settled(m) ==
    /\ m \in Online /\ client[m].synced /\ client[m].here = paused[m]
    /\ up[m] = <<>> /\ down[m] = <<>> /\ ~ack[m]

SettledAgree == \A m \in Members : Settled(m) => paused[m] = room

(* Lines that grow and shrink. *)
LEMMA ForcingStays ==
    ASSUME NEW coming \in Seq(Down), NEW msg, Forcing(coming)
    PROVE  Forcing(Append(coming, msg))
BY StatesAppend DEF Forcing

LEMMA ForcingPasses ==
    ASSUME NEW coming \in Seq(Down), coming # <<>>, Forcing(coming),
           Head(coming).kind = "state" => ~(Head(coming).server > 0)
    PROVE  Forcing(Tail(coming))
BY StatesHeadTail DEF Forcing, StateOf

LEMMA LastingStays ==
    ASSUME NEW coming \in Seq(Down), NEW msg, NEW is, Lasting(coming, is),
           msg.kind = "state" => msg.paused = is
    PROVE  Lasting(Append(coming, msg), is)
<1> DEFINE long == Append(coming, msg)
<1>1. /\ Len(long) = Len(coming) + 1 /\ Len(coming) \in Nat /\ long[Len(coming) + 1] = msg
      /\ \A i \in 1..Len(coming) : long[i] = coming[i]
  OBVIOUS
<1> HIDE DEF long
<1>2. ASSUME NEW i \in 1..Len(long), long[i].kind = "state", long[i].paused # is
      PROVE  \E k \in i + 1..Len(long) : long[k].kind = "state" /\ long[k].server > 0
  <2>1. i \in 1..Len(coming) /\ long[i] = coming[i]
    BY <1>1, <1>2
  <2>2. PICK k \in i + 1..Len(coming) : coming[k].kind = "state" /\ coming[k].server > 0
    BY <1>2, <2>1 DEF Lasting
  <2>3. k \in i + 1..Len(long) /\ k \in 1..Len(coming)
    BY <1>1, <2>1, <2>2
  <2> QED BY <1>1, <2>2, <2>3
<1> QED BY <1>2 DEF Lasting, long

LEMMA ForcedReaches ==
    ASSUME NEW coming \in Seq(Down), NEW msg, NEW is,
           msg.kind = "state", msg.server > 0, msg.paused = is
    PROVE  Lasting(Append(coming, msg), is) /\ Forcing(Append(coming, msg))
<1> DEFINE long == Append(coming, msg)
           n    == Len(coming) + 1
<1>1. Len(long) = n /\ n \in Nat \ {0} /\ long[n] = msg
  OBVIOUS
<1>2. Forcing(long)
  BY StatesAppend DEF Forcing, StateOf
<1> HIDE DEF long, n
<1>3. ASSUME NEW i \in 1..Len(long), long[i].paused # is
      PROVE  n \in i + 1..Len(long)
  BY <1>1, <1>3
<1>4. Lasting(long, is)
  BY <1>1, <1>3 DEF Lasting
<1> QED BY <1>2, <1>4 DEF long

LEMMA LastingPasses ==
    ASSUME NEW coming \in Seq(Down), coming # <<>>, NEW is, Lasting(coming, is)
    PROVE  /\ Lasting(Tail(coming), is)
           /\ Head(coming).kind = "state" =>
                Head(coming).paused = is \/ Forcing(Tail(coming))
<1> DEFINE rest == Tail(coming)
<1>1. /\ Len(coming) = Len(rest) + 1 /\ Len(rest) \in Nat /\ Head(coming) = coming[1]
      /\ \A i \in 1..Len(rest) : rest[i] = coming[i + 1]
  OBVIOUS
<1> HIDE DEF rest
<1>2. ASSUME NEW i \in Nat, i + 1 \in 1..Len(coming), coming[i + 1].kind = "state",
             coming[i + 1].paused # is
      PROVE  \E k \in i + 1..Len(rest) : rest[k].kind = "state" /\ rest[k].server > 0
  <2>1. PICK k \in i + 2..Len(coming) : coming[k].kind = "state" /\ coming[k].server > 0
    <3>1. \E k \in (i + 1) + 1..Len(coming) : coming[k].kind = "state" /\ coming[k].server > 0
      BY <1>2 DEF Lasting
    <3>2. (i + 1) + 1 = i + 2
      BY <1>2
    <3> QED BY <3>1, <3>2
  <2>2. k - 1 \in i + 1..Len(rest) /\ k - 1 \in 1..Len(rest) /\ (k - 1) + 1 = k
    BY <1>1, <1>2, <2>1
  <2>3. rest[k - 1] = coming[k]
    BY <1>1, <2>2
  <2> QED BY <2>1, <2>2, <2>3
<1>3. Lasting(rest, is)
  <2>1. ASSUME NEW i \in 1..Len(rest), rest[i].kind = "state", rest[i].paused # is
        PROVE  \E k \in i + 1..Len(rest) : rest[k].kind = "state" /\ rest[k].server > 0
    <3>1. i \in Nat /\ i + 1 \in 1..Len(coming) /\ rest[i] = coming[i + 1]
      BY <1>1
    <3> QED BY <1>2, <2>1, <3>1
  <2> QED BY <2>1 DEF Lasting
<1>4. ASSUME coming[1].kind = "state", coming[1].paused # is PROVE Forcing(rest)
  <2>1. 0 \in Nat /\ 0 + 1 \in 1..Len(coming) /\ 0 + 1 = 1
    BY <1>1
  <2>2. PICK k \in 0 + 1..Len(rest) : rest[k].kind = "state" /\ rest[k].server > 0
    BY <1>2, <1>4, <2>1
  <2> QED BY <2>2 DEF Forcing, States
<1> QED BY <1>1, <1>3, <1>4 DEF rest

LEMMA HeededStays ==
    ASSUME NEW going \in Seq(Up), NEW more \in Seq(Up), NEW n, NEW is, Heeded(going, n, is)
    PROVE  Heeded(going \o more, n, is)
<1> DEFINE long == going \o more
<1>1. /\ Len(long) = Len(going) + Len(more) /\ Len(going) \in Nat /\ Len(more) \in Nat
      /\ \A i \in 1..Len(going) : long[i] = going[i]
  OBVIOUS
<1> HIDE DEF long
<1>2. PICK i \in 1..Len(going) :
        /\ going[i].kind = "state" /\ going[i].paused \notin {Nothing, is}
        /\ n # 0 => \E k \in 1..i : going[k].kind = "state" /\ going[k].server = n
  BY DEF Heeded
<1>3. i \in 1..Len(long) /\ long[i] = going[i] /\ \A k \in 1..i : long[k] = going[k]
  BY <1>1
<1>4. Heeded(long, n, is)
  BY <1>2, <1>3 DEF Heeded
<1> QED BY <1>4 DEF long

LEMMA HeededNew ==
    ASSUME NEW going \in Seq(Up), NEW x \in StateUp, NEW n, NEW is,
           x.paused \notin {Nothing, is},
           n # 0 => x.server = n \/ \E y \in States(going) : y.server = n
    PROVE  Heeded(going \o <<x>>, n, is)
<1> DEFINE long == going \o <<x>>
           i    == Len(going) + 1
<1>1. /\ Len(long) = i /\ i \in Nat \ {0} /\ long[i] = x /\ Len(going) = i - 1
      /\ \A k \in 1..Len(going) : long[k] = going[k]
  BY DEF Up
<1>2. x.kind = "state"
  BY DEF StateUp
<1> HIDE DEF long, i
<1>3. i \in 1..Len(long)
  BY <1>1
<1>4. ASSUME n # 0 PROVE \E k \in 1..i : long[k].kind = "state" /\ long[k].server = n
  <2>1. CASE x.server = n
    BY <1>1, <1>2, <1>3, <2>1
  <2>2. CASE \E y \in States(going) : y.server = n
    <3>1. PICK k \in 1..Len(going) : going[k].kind = "state" /\ going[k].server = n
      BY <2>2 DEF States
    <3>2. k \in 1..i /\ long[k] = going[k]
      BY <1>1, <3>1
    <3> QED BY <3>1, <3>2
  <2> QED BY <1>4, <2>1, <2>2
<1>5. Heeded(long, n, is)
  BY <1>1, <1>2, <1>3, <1>4 DEF Heeded
<1> QED BY <1>5 DEF long

(* The server has read a state it did not take, or waits no more for what it read. *)
LEMMA HeededPasses ==
    ASSUME NEW going \in Seq(Up), going # <<>>, NEW n \in Nat, NEW k \in Nat, NEW is,
           Heeded(going, n, is),
           \/ Head(going).kind # "state" /\ k = n
           \/ /\ Head(going).kind = "state"
              /\ k = IF Head(going).server = n THEN 0 ELSE n
              /\ Head(going).paused # Nothing /\ k = 0 => Head(going).paused = is
    PROVE  Heeded(Tail(going), k, is)
<1> DEFINE rest == Tail(going)
<1>1. /\ Len(going) = Len(rest) + 1 /\ Len(rest) \in Nat /\ Head(going) = going[1]
      /\ \A i \in 1..Len(rest) : rest[i] = going[i + 1]
  OBVIOUS
<1> HIDE DEF rest
<1>2. PICK i \in 1..Len(going) :
        /\ going[i].kind = "state" /\ going[i].paused \notin {Nothing, is}
        /\ n # 0 => \E j \in 1..i : going[j].kind = "state" /\ going[j].server = n
  BY DEF Heeded
<1>3. i # 1
  <2> SUFFICES ASSUME i = 1 PROVE FALSE
    OBVIOUS
  <2>1. going[1].kind = "state" /\ going[1].paused # Nothing /\ going[1].paused # is
    BY <1>2
  <2>2. n # 0 => going[1].server = n
    BY <1>2
  <2>3. k = IF going[1].server = n THEN 0 ELSE n
    BY <1>1, <2>1
  <2>4. k = 0
    BY <2>2, <2>3
  <2> QED BY <1>1, <2>1, <2>4
<1>4. i - 1 \in 1..Len(rest) /\ rest[i - 1] = going[i]
  <2>1. i - 1 \in 1..Len(rest) /\ (i - 1) + 1 = i
    BY <1>1, <1>3
  <2> QED BY <1>1, <2>1
<1>5. ASSUME k # 0
      PROVE  \E j \in 1..i - 1 : rest[j].kind = "state" /\ rest[j].server = k
  <2>1. k = n /\ (going[1].kind = "state" => going[1].server # n)
    BY <1>1, <1>5
  <2>2. PICK j \in 1..i : going[j].kind = "state" /\ going[j].server = n
    BY <1>2, <1>5, <2>1
  <2>3. j # 1
    BY <2>1, <2>2
  <2>4. j - 1 \in 1..i - 1 /\ j - 1 \in 1..Len(rest) /\ (j - 1) + 1 = j
    BY <1>1, <1>2, <2>2, <2>3
  <2>5. rest[j - 1] = going[j]
    BY <1>1, <2>4
  <2> QED BY <2>1, <2>2, <2>4, <2>5
<1>6. Heeded(rest, k, is)
  BY <1>2, <1>4, <1>5 DEF Heeded
<1> QED BY <1>6 DEF rest

(* What the rules leave: the player as it was, or as the room was heard to be, or a change. *)
Meets(c, sync, is) ==
    /\ sync.client.synced =>
         \/ sync.client.here = is /\ sync.change = Nothing
         \/ sync.change = sync.client.here
    /\ ~sync.client.synced => sync.change = Nothing
    /\ sync.client.synced => sync.client.here # Nothing
    /\ c.synced => sync.client.synced

LEMMA TogetherMeets ==
    ASSUME NEW c \in Client, c.here # Nothing, ~c.synced
    PROVE  /\ Meets(c, Together(c), c.room)
           /\ c.room = Nothing => Together(c) = Quiet(c)
           /\ c.room # Nothing => Together(c).client.synced
<1> DEFINE met == [c EXCEPT !.synced = TRUE, !.room = Nothing]
<1>1. met \in Client /\ met.here = c.here /\ met.synced = TRUE
  BY DEF Client, Known
<1> HIDE DEF met
<1>2. CASE c.room = Nothing
  <2>1. Together(c) = Quiet(c)
    BY <1>2 DEF Together
  <2> QED BY <1>2, <2>1 DEF Meets, Quiet
<1>3. CASE c.room # Nothing /\ c.others = {}
  <2>1. Together(c) = [client |-> met, order |-> Nothing, change |-> met.here, seek |-> TRUE]
    BY <1>3 DEF Together, Changed, met
  <2> QED BY <1>1, <1>3, <2>1 DEF Meets
<1>4. CASE c.room # Nothing /\ c.others # {}
  <2>1. Together(c) = Follow(met, c.room)
    BY <1>4 DEF Together, met
  <2>2. CASE met.here = c.room
    BY <1>1, <1>4, <2>1, <2>2 DEF Follow, Quiet, Meets
  <2>3. CASE met.here # c.room
    <3> DEFINE d == [met EXCEPT !.here = c.room, !.want = c.room]
    <3>1. d.here = c.room /\ d.synced = TRUE
      BY <1>1 DEF Client
    <3> HIDE DEF d
    <3>2. Together(c) = [client |-> d, order |-> c.room, change |-> Nothing, seek |-> FALSE]
      BY <2>1, <2>3 DEF Follow, Quiet, d
    <3> QED BY <1>4, <3>1, <3>2 DEF Meets
  <2> QED BY <2>2, <2>3
<1> QED BY <1>2, <1>3, <1>4

LEMMA RoomMeets ==
    ASSUME NEW c \in Client, NEW is \in BOOLEAN, Met(c)
    PROVE  /\ Meets(c, Room(c, is), is)
           /\ ~Room(c, is).client.synced => Room(c, is).client.room = is
<1> DEFINE told == [c EXCEPT !.room = is]
<1>1. /\ told \in Client /\ told.here = c.here /\ told.synced = c.synced /\ told.room = is
      /\ is # Nothing
  BY NothingIsNoTruth DEF Client, Known
<1> HIDE DEF told
<1>2. CASE c.here = Nothing
  <2>1. Room(c, is) = Quiet(told)
    BY <1>2 DEF Room, told
  <2>2. ~c.synced
    BY <1>2 DEF Met
  <2> QED BY <1>1, <2>1, <2>2 DEF Quiet, Meets
<1>3. CASE c.here # Nothing /\ ~c.synced
  <2>1. Room(c, is) = Together(told)
    BY <1>3 DEF Room, told
  <2> QED BY <1>1, <1>3, <2>1, TogetherMeets DEF Meets
<1>4. CASE c.here # Nothing /\ c.synced
  <2>1. Room(c, is) = Follow(c, is)
    BY <1>4 DEF Room
  <2>2. CASE c.here = is
    BY <1>4, <2>1, <2>2 DEF Follow, Quiet, Meets
  <2>3. CASE c.here # is
    <3> DEFINE d == [c EXCEPT !.here = is, !.want = is]
    <3>1. d.here = is /\ d.synced = TRUE
      BY <1>4 DEF Client
    <3> HIDE DEF d
    <3>2. Room(c, is) = [client |-> d, order |-> is, change |-> Nothing, seek |-> FALSE]
      BY <2>1, <2>3 DEF Follow, Quiet, d
    <3> QED BY <1>1, <1>4, <3>1, <3>2 DEF Meets
  <2> QED BY <2>2, <2>3
<1> QED BY <1>2, <1>3, <1>4

LEMMA SampleMeets ==
    ASSUME NEW c \in Client, NEW says \in BOOLEAN, Met(c)
    PROVE  /\ Meets(c, Sample(c, says), IF c.synced THEN c.here ELSE c.room)
           /\ ~Sample(c, says).client.synced => Sample(c, says).client.room = c.room
           /\ ~c.synced /\ Sample(c, says).client.synced => c.room # Nothing
<1> DEFINE heard == Believed(c, says)
<1>1. /\ heard \in Client /\ heard.synced = c.synced /\ heard.room = c.room
      /\ heard.here # Nothing
  BY NothingIsNoTruth DEF Client, Known, Believed
<1> HIDE DEF heard
<1>2. CASE ~c.synced
  <2>1. Sample(c, says) = Together(heard)
    BY <1>2 DEF Sample, heard, Believed
  <2> QED BY <1>1, <1>2, <2>1, TogetherMeets DEF Meets, Quiet
<1>3. CASE c.synced
  <2>1. c.here # Nothing /\ heard.synced = TRUE
    BY <1>1, <1>3 DEF Met, Client
  <2>2. CASE heard.here # c.here
    <3>1. Sample(c, says) = [client |-> heard, order |-> Nothing, change |-> heard.here, seek |-> FALSE]
      BY <1>3, <2>1, <2>2 DEF Sample, Changed, heard, Believed
    <3>2. Sample(c, says).client = heard /\ Sample(c, says).change = heard.here
      BY <3>1
    <3> QED BY <1>1, <1>3, <2>1, <3>2, Zenon DEF Meets
  <2>3. CASE heard.here = c.here
    <3>1. Sample(c, says) = [client |-> heard, order |-> Nothing, change |-> Nothing, seek |-> FALSE]
      BY <1>3, <2>1, <2>3 DEF Sample, Quiet, heard, Believed
    <3>2. Sample(c, says).client = heard /\ Sample(c, says).change = Nothing
      BY <3>1
    <3>3. (IF c.synced THEN c.here ELSE c.room) = c.here
      BY <1>3
    <3> QED BY <1>1, <1>3, <2>1, <2>3, <3>2, <3>3, Zenon DEF Meets
  <2> QED BY <2>2, <2>3
<1> QED BY <1>2, <1>3

(* A change made is sent, or held until the one on its way is answered. *)
Leaves(sync, is, n, made) ==
    /\ Met(made.client)
    /\ made.client.synced = sync.client.synced /\ made.client.here = sync.client.here
    /\ made.client.room = sync.client.room
    /\ made.client.synced =>
         \/ made.client.here = is /\ made.client = sync.client /\ made.sent = <<>>
         \/ made.client.awaiting /\ made.client.held = made.client.here
         \/ \E x \in StateUp : /\ made.sent = <<x>> /\ x.server = n
                               /\ x.paused = made.client.here
    /\ ~made.client.synced => made.client = sync.client /\ made.sent = <<>>

LEMMA SendMeets ==
    ASSUME NEW c, NEW sync, NEW is, NEW n, NEW made, Met(c),
           Same(c, sync.client), Meets(c, sync, is),
           sync.client.synced \/ sync.client.room # Nothing => c.listed,
           Kept(sync.client, made.client), Sends(sync.client, sync.change, sync.seek, n, made),
           sync.change = Nothing /\ c.held # Nothing => sync.client.here = c.here
    PROVE  Leaves(sync, is, n, made)
<1>1. /\ made.client.synced = sync.client.synced /\ made.client.here = sync.client.here
      /\ made.client.room = sync.client.room /\ made.client.listed = c.listed
      /\ sync.client.awaiting = c.awaiting /\ sync.client.held = c.held
  BY DEF Kept, Same
<1>2. CASE made.sent = <<>> /\ made.client = sync.client /\ sync.change = Nothing
  <2>1. Met(made.client)
    BY <1>1, <1>2 DEF Met, Meets
  <2> QED BY <1>1, <1>2, <2>1 DEF Meets, Leaves
<1>3. CASE /\ made.sent = <<>> /\ sync.change # Nothing /\ sync.client.awaiting
           /\ made.client.awaiting /\ made.client.held = sync.change
  <2>1. sync.client.synced /\ sync.change = sync.client.here
    BY <1>3 DEF Meets
  <2>2. Met(made.client)
    BY <1>1, <1>3, <2>1 DEF Met, Meets
  <2> QED BY <1>1, <1>3, <2>1, <2>2 DEF Leaves
<1>4. CASE /\ made.sent = <<FromMember(sync.change, sync.seek, n, TRUE, TRUE)>>
           /\ FromMember(sync.change, sync.seek, n, TRUE, TRUE) \in StateUp
           /\ sync.change # Nothing /\ ~sync.client.awaiting
           /\ made.client.awaiting /\ made.client.held = sync.client.held
  <2>1. sync.client.synced /\ sync.change = sync.client.here
    BY <1>4 DEF Meets
  <2>2. Met(made.client)
    BY <1>1, <1>4, <2>1 DEF Met, Meets
  <2> DEFINE x == FromMember(sync.change, sync.seek, n, TRUE, TRUE)
  <2>3. x.server = n /\ x.paused = sync.change
    BY DEF FromMember
  <2>4. x \in StateUp /\ made.sent = <<x>>
    BY <1>4
  <2> HIDE DEF x
  <2> QED BY <1>1, <2>1, <2>2, <2>3, <2>4 DEF Leaves
<1> QED BY <1>2, <1>3, <1>4 DEF Sends

(* What is sent of a player goes for the room's, unless the room's is about to be forced. *)
LEMMA SentNears ==
    ASSUME NEW going \in Seq(Up), NEW x \in StateUp, NEW more \in Seq(Up), NEW rest, NEW n, NEW is,
           x.paused # Nothing,
           n # 0 => \/ x.server = n \/ Forcing(rest)
                    \/ \E y \in States(going) : y.server = n
    PROVE  x.paused = is \/ Forcing(rest) \/ Heeded(going \o <<x>> \o more, n, is)
<1> SUFFICES ASSUME x.paused # is, ~Forcing(rest) PROVE Heeded(going \o <<x>> \o more, n, is)
  OBVIOUS
<1>1. Heeded(going \o <<x>>, n, is)
  BY HeededNew
<1>2. going \o <<x>> \in Seq(Up)
  BY DEF Up
<1> QED BY <1>1, <1>2, HeededStays

(* What the server waits for is on the line to it, in what is heard, or in what follows. *)
LEMMA AwaitedComes ==
    ASSUME IInv, NEW m \in Members, Forced(m), NEW msg, NEW rest,
           States(down[m]) = {msg} \cup States(rest), deaf[m] # 0
    PROVE  \/ msg.server = deaf[m] \/ Forcing(rest)
           \/ \E y \in States(up[m]) : y.server = deaf[m]
<1>1. deaf[m] > 0
  BY DEF IInv, Serving
<1> QED BY <1>1 DEF Forced, Forcing

LEMMA ExchangeReaches ==
    ASSUME IInv, NEW m \in Members, Forced(m), Reaching(m), NEW msg \in StateDown,
           down[m] # <<>>, msg = Head(down[m]), down'[m] = Tail(down[m]), UNCHANGED <<deaf, room>>,
           NEW first, NEW sync, NEW made, NEW answer, Exchange(m, msg, first, sync, made, answer)
    PROVE  Reaching(m)'
<1> DEFINE rest  == Tail(down[m])
           going == up'[m]
           c     == client[m]
<1>1. /\ down[m] \in Seq(Down) /\ rest \in Seq(Down) /\ up[m] \in Seq(Up) /\ c \in Client
      /\ States(down[m]) = {msg} \cup States(rest) /\ msg.kind = "state"
      /\ msg.paused \in BOOLEAN /\ msg.server \in Nat
      /\ client \in [Members -> Client] /\ up \in [Members -> Seq(Up)]
  BY StatesHeadTail DEF IInv, Wires, Clients, StateOf, StateDown
<1>2. /\ Met(c) /\ Lasting(down[m], room)
      /\ c.synced => Nears(c, down[m], up[m], deaf[m], room)
      /\ ~c.synced /\ c.room # Nothing => c.room = room \/ Forcing(down[m])
  BY DEF Reaching, Reaches
<1>3. Lasting(rest, room) /\ (msg.paused = room \/ Forcing(rest))
  BY <1>1, <1>2, LastingPasses
<1>4. first.sent \in Seq(Up) /\ made.sent \in Seq(Up) /\ <<answer>> \in Seq(Up)
  BY SentFits
<1>5. client'[m] = made.client /\ going = up[m] \o first.sent \o made.sent \o <<answer>>
  BY <1>1 DEF Exchange
<1> HIDE DEF rest, going, c
<1>6. /\ Kept(c, first.client) /\ Hears(c, msg, first) /\ sync \in Outcome
      /\ Same(first.client, sync.client) /\ Kept(sync.client, made.client)
      /\ Sends(sync.client, sync.change, sync.seek, msg.server, made)
  BY DEF Exchange, c
<1>7. deaf[m] # 0 => \/ msg.server = deaf[m] \/ Forcing(rest)
                     \/ \E y \in States(up[m]) : y.server = deaf[m]
  BY <1>1, AwaitedComes
<1>8. Met(first.client)
  BY <1>2, <1>6 DEF Met, Hears, Kept
<1>9. Reaches(made.client, rest, going, deaf[m], room)
  <2>1. CASE /\ sync = Room(first.client, msg.paused)
             /\ first.client.listed /\ ~first.client.awaiting
    <3> DEFINE d == first.client
    <3>1. d \in Client /\ Met(d) /\ d.listed /\ d.held = Nothing
      BY <1>6, <1>8, <2>1 DEF Kept, Met
    <3>2. Meets(d, sync, msg.paused) /\ (~sync.client.synced => sync.client.room = msg.paused)
      BY <1>1, <2>1, <3>1, RoomMeets
    <3>3. first.sent = <<>>
      BY <1>6, <2>1 DEF Hears, Kept
    <3>a. Same(d, sync.client) /\ (sync.client.synced \/ sync.client.room # Nothing => d.listed)
      BY <1>6, <3>1
    <3> HIDE DEF d
    <3>b. Leaves(sync, msg.paused, msg.server, made)
      BY <1>6, <3>1, <3>2, <3>a, SendMeets, Zenon
    <3>4. /\ Met(made.client)
          /\ made.client.synced = sync.client.synced
          /\ made.client.room = sync.client.room
          /\ made.client.synced =>
               \/ made.client.here = msg.paused
               \/ made.client.awaiting /\ made.client.held = made.client.here
               \/ \E x \in StateUp : /\ made.sent = <<x>> /\ x.server = msg.server
                                     /\ x.paused = made.client.here
      BY <3>b DEF Leaves
    <3>5. ASSUME made.client.synced PROVE Nears(made.client, rest, going, deaf[m], room)
      <4>1. CASE made.client.here = msg.paused
        BY <1>3, <4>1 DEF Nears
      <4>2. CASE made.client.awaiting /\ made.client.held = made.client.here
        BY <4>2 DEF Nears
      <4>3. ASSUME NEW x \in StateUp, made.sent = <<x>>, x.server = msg.server,
                   x.paused = made.client.here
            PROVE  Nears(made.client, rest, going, deaf[m], room)
        <5>1. x.paused # Nothing
          BY <3>4, <3>5, <4>3 DEF Met
        <5>2. going = up[m] \o <<x>> \o <<answer>>
          BY <1>1, <1>5, <3>3, <4>3
        <5>3. x.paused = room \/ Forcing(rest) \/ Heeded(going, deaf[m], room)
          BY <1>1, <1>4, <1>7, <4>3, <5>1, <5>2, SentNears
        <5> QED BY <4>3, <5>3 DEF Nears
      <4> QED BY <3>4, <3>5, <4>1, <4>2, <4>3
    <3>6. ASSUME ~made.client.synced PROVE made.client.room = room \/ Forcing(rest)
      BY <1>3, <3>2, <3>4, <3>6
    <3> QED BY <1>3, <3>4, <3>5, <3>6 DEF Reaches
  <2>2. CASE sync = Quiet(first.client) /\ (first.client.listed => first.client.awaiting)
    <3>1. made.sent = <<>> /\ made.client = first.client
      <4>1. sync.change = Nothing /\ sync.client = first.client
        BY <2>2 DEF Quiet
      <4> QED BY <1>6, <4>1 DEF Sends
    <3>2. CASE ~first.client.awaiting
      <4>1. ~made.client.synced /\ made.client.room = Nothing
        BY <1>8, <2>2, <3>1, <3>2 DEF Met
      <4> QED BY <1>3, <1>8, <3>1, <4>1 DEF Reaches
    <3>3. CASE first.sent = <<>> /\ first.client = c /\ msg.server = 0
      <4>1. going = up[m] \o <<answer>>
        BY <1>1, <1>5, <3>1, <3>3
      <4>2. Heeded(up[m], deaf[m], room) => Heeded(going, deaf[m], room)
        BY <1>1, <1>4, <4>1, HeededStays
      <4>3. Forcing(down[m]) => Forcing(rest)
        BY <1>1, <3>3 DEF Forcing
      <4> QED BY <1>2, <1>3, <3>1, <3>3, <4>2, <4>3 DEF Reaches, Nears
    <3>4. CASE /\ first.sent = <<FromMember(c.held, FALSE, 0, TRUE, TRUE)>>
               /\ FromMember(c.held, FALSE, 0, TRUE, TRUE) \in StateUp
               /\ c.held # Nothing /\ msg.server = 0
      <4> DEFINE x == FromMember(c.held, FALSE, 0, TRUE, TRUE)
      <4>1. x.server = 0 /\ x.paused = c.held /\ x \in StateUp /\ first.sent = <<x>>
        BY <3>4 DEF FromMember
      <4> HIDE DEF x
      <4>2. going = up[m] \o <<x>> \o <<answer>>
        BY <1>1, <1>5, <3>1, <4>1
      <4>3. x.paused = room \/ Forcing(rest) \/ Heeded(going, deaf[m], room)
        BY <1>1, <1>4, <1>7, <3>4, <4>1, <4>2, SentNears
      <4>4. made.client.here = x.paused /\ made.client.synced
        BY <1>2, <1>6, <3>1, <3>4, <4>1 DEF Met, Kept
      <4> QED BY <1>3, <1>8, <3>1, <4>3, <4>4 DEF Reaches, Nears
    <3> QED BY <1>6, <3>2, <3>3, <3>4 DEF Hears
  <2> QED BY <2>1, <2>2 DEF Exchange
<1> QED BY <1>5, <1>9 DEF Reaching, rest, going

LEMMA ReachStays ==
    ASSUME IInv, NEW j \in Members, Reaching(j), client'[j] = client[j], up'[j] = up[j],
           deaf'[j] = deaf[j], room' = room, NEW msg,
           \/ down'[j] = down[j]
           \/ down'[j] = Append(down[j], msg) /\ (msg.kind = "state" => msg.paused = room)
    PROVE  Reaching(j)'
<1>1. CASE down'[j] = down[j]
  BY <1>1 DEF Reaching
<1>2. CASE down'[j] = Append(down[j], msg) /\ (msg.kind = "state" => msg.paused = room)
  <2>1. down[j] \in Seq(Down)
    BY DEF IInv, Wires
  <2>2. Lasting(down[j], room) => Lasting(down'[j], room)
    BY <1>2, <2>1, LastingStays
  <2>3. Forcing(down[j]) => Forcing(down'[j])
    BY <1>2, <2>1, ForcingStays
  <2> QED BY <2>2, <2>3 DEF Reaching, Reaches, Nears
<1> QED BY <1>1, <1>2

LEMMA HearReach ==
    ASSUME IInv, NobodyDeafForGood, AllReach, NEW m \in Members, Hear(m)
    PROVE  AllReach'
<1>1. /\ down[m] \in Seq(Down) /\ down[m] # <<>> /\ Head(down[m]) \in Down
      /\ down' = [down EXCEPT ![m] = Tail(@)] /\ UNCHANGED <<deaf, room>>
      /\ States(down[m]) = StateOf(Head(down[m])) \cup States(Tail(down[m]))
      /\ client \in [Members -> Client] /\ down \in [Members -> Seq(Down)]
      /\ up \in [Members -> Seq(Up)]
  BY StatesHeadTail DEF Hear, IInv, Wires, Clients, server
<1>2. client[m].online /\ m \in Online
  BY <1>1 DEF IInv, Connected, Online
<1>3. Reaching(m) /\ Forced(m)
  BY <1>2 DEF AllReach, NobodyDeafForGood, Forced
<1>4. down'[m] = Tail(down[m]) /\ \A j \in Members \ {m} : down'[j] = down[j]
  BY <1>1
<1>5. CASE Head(down[m]).kind = "state"
  <2> DEFINE msg == Head(down[m])
  <2>1. msg \in StateDown
    BY <1>1, <1>5, Kinds
  <2>2. PICK first, sync, made, answer : Exchange(m, msg, first, sync, made, answer)
    BY <1>1, <1>5, <2>1, OnStateFacts DEF Hear, Clients
  <2>3. Reaching(m)'
    BY <1>1, <1>3, <1>4, <2>1, <2>2, ExchangeReaches
  <2> HIDE DEF msg
  <2>4. /\ client'[m] = made.client
        /\ \A j \in Members \ {m} : client'[j] = client[j] /\ up'[j] = up[j]
    BY <1>1, <2>2 DEF Exchange
  <2>5. Online' = Online
    <3>1. made.client.online = client[m].online
      BY <2>2, SentFits
    <3>2. \A j \in Members : client'[j].online = client[j].online
      BY <2>4, <3>1
    <3> QED BY <3>2 DEF Online
  <2>6. ASSUME NEW j \in Online, j # m PROVE Reaching(j)'
    BY <1>1, <1>4, <2>4, <2>6, ReachStays DEF AllReach, Online
  <2> QED BY <2>3, <2>5, <2>6 DEF AllReach
<1>6. CASE Head(down[m]).kind # "state"
  <2> DEFINE msg == Head(down[m])
             c   == client[m]
             d   == client'[m]
  <2>1. /\ OnMembers(m, msg) /\ msg.kind \in {"list", "file", "left"} /\ UNCHANGED up
        /\ c \in Client
    BY <1>1, <1>6, Kinds DEF Hear, OnMembers
  <2> HIDE DEF msg
  <2>2. /\ d.synced = c.synced /\ d.here = c.here /\ d.room = c.room /\ d.online = c.online
        /\ d.awaiting = c.awaiting /\ d.held = c.held /\ (c.listed => d.listed)
        /\ \A j \in Members \ {m} : client'[j] = client[j]
    <3>1. CASE msg.kind = "list"
      BY <1>1, <2>1, <3>1 DEF OnMembers, Client
    <3>2. CASE msg.kind = "file"
      BY <1>1, <2>1, <3>2 DEF OnMembers, Client
    <3>3. CASE msg.kind = "left"
      BY <1>1, <2>1, <3>3 DEF OnMembers, Client
    <3> QED BY <2>1, <3>1, <3>2, <3>3
  <2>3. Reaching(m)'
    <3>1. Lasting(down[m], room) => Lasting(Tail(down[m]), room)
      BY <1>1, LastingPasses
    <3>2. Forcing(down[m]) => Forcing(Tail(down[m]))
      BY <1>1, <1>6, ForcingPasses
    <3>3. Reaches(c, down[m], up[m], deaf[m], room)
      BY <1>3 DEF Reaching
    <3> HIDE DEF c, d
    <3>4. Met(d)
      BY <2>2, <3>3 DEF Met, Reaches
    <3>5. Reaches(d, Tail(down[m]), up[m], deaf[m], room)
      BY <2>2, <3>1, <3>2, <3>3, <3>4 DEF Reaches, Nears
    <3> QED BY <1>1, <1>4, <2>1, <3>5 DEF Reaching, d
  <2>4. Online' = Online
    BY <2>2 DEF Online
  <2>5. ASSUME NEW j \in Online, j # m PROVE Reaching(j)'
    BY <1>1, <1>4, <2>1, <2>2, <2>5, ReachStays DEF AllReach, Online
  <2> QED BY <2>3, <2>4, <2>5 DEF AllReach
<1> QED BY <1>5, <1>6

LEMMA TakeReportReach ==
    ASSUME IInv, NobodyDeafForGood, AllReach, NEW m \in Members, TakeReport(m)
    PROVE  AllReach'
<1> DEFINE c == client[m]
<1>1. /\ report[m] \in BOOLEAN /\ UNCHANGED <<down, deaf, room>> /\ c \in Client
      /\ client \in [Members -> Client] /\ up \in [Members -> Seq(Up)] /\ up[m] \in Seq(Up)
  BY DEF TakeReport, server, IInv, Players, Known, Clients, Wires
<1>2. CASE c.online
  <2> DEFINE sync == Sample(c, report[m])
             made == SendChange(sync.client, sync.change, sync.seek, 0)
             is   == IF c.synced THEN c.here ELSE c.room
  <2>1. client' = [client EXCEPT ![m] = made.client] /\ up' = [up EXCEPT ![m] = @ \o made.sent]
    BY <1>2 DEF TakeReport
  <2>2. Reaches(c, down[m], up[m], deaf[m], room) /\ Forced(m)
    BY <1>2 DEF AllReach, Reaching, NobodyDeafForGood, Forced, Online
  <2>3. Met(c) /\ Lasting(down[m], room)
    BY <2>2 DEF Reaches
  <2>4. /\ sync \in Outcome /\ Same(c, sync.client) /\ Meets(c, sync, is)
        /\ ~sync.client.synced => sync.client.room = c.room
        /\ ~c.synced /\ sync.client.synced => c.room # Nothing
    BY <1>1, <2>3, SampleFacts, SampleMeets
  <2> HIDE DEF c, sync
  <2>5. Kept(sync.client, made.client) /\ Sends(sync.client, sync.change, sync.seek, 0, made)
    BY <2>4, SendFacts DEF Outcome
  <2> HIDE DEF made
  <2>6. Leaves(sync, is, 0, made)
    <3>1. sync.client.synced \/ sync.client.room # Nothing => c.listed
      BY <2>3, <2>4 DEF Met, Meets
    <3>2. sync.change = Nothing /\ c.held # Nothing => sync.client.here = c.here
      BY <2>3, <2>4 DEF Met, Meets
    <3> HIDE DEF is
    <3> QED BY <2>3, <2>4, <2>5, <3>1, <3>2, SendMeets, Zenon
  <2>7. /\ client'[m] = made.client /\ up'[m] = up[m] \o made.sent
        /\ \A j \in Members \ {m} : client'[j] = client[j] /\ up'[j] = up[j]
    BY <1>1, <2>1
  <2>8. made.sent = <<>> => up[m] \o made.sent = up[m]
    BY <1>1
  <2>9. Reaches(made.client, down[m], up[m] \o made.sent, deaf[m], room)
    <3>1. ASSUME made.client.synced
          PROVE  Nears(made.client, down[m], up[m] \o made.sent, deaf[m], room)
      <4>1. CASE made.client.here = is /\ made.client = sync.client /\ made.sent = <<>>
        <5>1. CASE c.synced
          <6>1. /\ made.client.here = c.here /\ made.client.awaiting = c.awaiting
                /\ made.client.held = c.held
            BY <2>4, <4>1, <5>1 DEF Same
          <6>2. Nears(c, down[m], up[m], deaf[m], room)
            BY <2>2, <5>1 DEF Reaches
          <6> QED BY <2>8, <4>1, <6>1, <6>2 DEF Nears
        <5>2. CASE ~c.synced
          <6>1. c.room # Nothing /\ made.client.here = c.room
            BY <2>4, <3>1, <4>1, <5>2
          <6> QED BY <2>2, <5>2, <6>1 DEF Reaches, Nears
        <5> QED BY <5>1, <5>2
      <4>2. CASE made.client.awaiting /\ made.client.held = made.client.here
        BY <4>2 DEF Nears
      <4>3. ASSUME NEW x \in StateUp, made.sent = <<x>>, x.server = 0,
                   x.paused = made.client.here
            PROVE  Nears(made.client, down[m], up[m] \o made.sent, deaf[m], room)
        <5>1. x.paused # Nothing
          BY <2>6, <3>1, <4>3 DEF Leaves, Met
        <5>2. deaf[m] # 0 => Forcing(down[m]) \/ \E y \in States(up[m]) : y.server = deaf[m]
          <6>1. deaf[m] # 0 => deaf[m] > 0
            BY DEF IInv, Serving
          <6> QED BY <2>2, <6>1 DEF Forced, Forcing
        <5>3. <<>> \in Seq(Up) /\ up[m] \o <<x>> \o <<>> = up[m] \o made.sent
          BY <1>1, <4>3 DEF Up
        <5>4. x.paused = room \/ Forcing(down[m]) \/ Heeded(up[m] \o made.sent, deaf[m], room)
          BY <1>1, <4>3, <5>1, <5>2, <5>3, SentNears
        <5> QED BY <4>3, <5>4 DEF Nears
      <4> QED BY <2>6, <3>1, <4>1, <4>2, <4>3 DEF Leaves
    <3>2. ASSUME ~made.client.synced, made.client.room # Nothing
          PROVE  made.client.room = room \/ Forcing(down[m])
      <4>1. ~c.synced /\ made.client.room = c.room
        BY <2>4, <2>6, <3>2 DEF Leaves, Meets
      <4> QED BY <2>2, <3>2, <4>1 DEF Reaches
    <3> QED BY <2>3, <2>6, <3>1, <3>2 DEF Reaches, Leaves
  <2>10. Reaching(m)'
    BY <1>1, <2>7, <2>9 DEF Reaching
  <2>11. Online' = Online
    <3>1. made.client.online = c.online
      BY <2>4, <2>5 DEF Kept, Same
    <3> QED BY <2>7, <3>1 DEF Online, c
  <2>12. ASSUME NEW j \in Online, j # m PROVE Reaching(j)'
    BY <1>1, <2>7, <2>12, ReachStays DEF AllReach, Online
  <2> QED BY <2>10, <2>11, <2>12 DEF AllReach
<1>3. CASE ~c.online
  <2> DEFINE lone  == [client[m] EXCEPT !.others = {}]
             alone == Sample(lone, report[m])
  <2>1. client' = [client EXCEPT ![m] = alone.client] /\ UNCHANGED <<paused, up>>
    BY <1>3 DEF TakeReport
  <2>2. lone \in Client /\ lone.online = c.online
    BY <1>1 DEF Client
  <2> HIDE DEF lone
  <2>3. alone \in Outcome /\ Same(lone, alone.client)
    BY <1>1, <2>2, SampleFacts
  <2> HIDE DEF alone
  <2>4. client'[m].online = c.online /\ \A j \in Members \ {m} : client'[j] = client[j]
    BY <1>1, <2>1, <2>2, <2>3 DEF Same
  <2>5. Online' = Online /\ m \notin Online
    BY <1>3, <2>4 DEF Online
  <2>6. ASSUME NEW j \in Online PROVE Reaching(j)'
    BY <1>1, <2>1, <2>4, <2>5, <2>6, ReachStays DEF AllReach, Online
  <2> QED BY <2>5, <2>6 DEF AllReach
<1> QED BY <1>2, <1>3

(* Whom the server forces a state on will hear of it. *)
LEMMA ForceReach ==
    ASSUME IInv, NEW heard \in [Members -> Nat], NEW acks, ForceState(heard, acks),
           UNCHANGED client, NEW j \in Online, Reaching(j)
    PROVE  Reaching(j)'
<1> DEFINE msg == FromServer(room', heard[j] + 1, acks[j])
<1>1. j \in Members /\ down[j] \in Seq(Down) /\ heard[j] \in Nat
  BY DEF Online, IInv, Wires
<1>2. down'[j] = Append(down[j], msg)
  BY <1>1 DEF ForceState
<1>3. msg.kind = "state" /\ msg.server > 0 /\ msg.paused = room'
  BY <1>1 DEF FromServer
<1> HIDE DEF msg
<1>4. Lasting(down'[j], room') /\ Forcing(down'[j])
  BY <1>1, <1>2, <1>3, ForcedReaches
<1>5. Met(client[j])
  BY DEF Reaching, Reaches
<1> QED BY <1>4, <1>5 DEF Reaching, Reaches, Nears

LEMMA ServeReach ==
    ASSUME IInv, AllReach, NEW m \in Members, Serve(m)
    PROVE  AllReach'
<1>1. /\ up[m] \in Seq(Up) /\ up[m] # <<>> /\ Head(up[m]) \in Up
      /\ up' = [up EXCEPT ![m] = Tail(@)] /\ UNCHANGED client
      /\ up \in [Members -> Seq(Up)] /\ deaf \in [Members -> Nat] /\ deaf[m] \in Nat
      /\ down[m] \in Seq(Down)
  BY StatesHeadTail DEF Serve, IInv, Wires, Serving
<1>2. Online' = Online /\ \A j \in Online : j \in Members /\ Reaching(j)
  BY <1>1 DEF AllReach, Online
<1>3. up'[m] = Tail(up[m]) /\ \A j \in Members \ {m} : up'[j] = up[j]
  BY <1>1
<1>4. CASE Head(up[m]).kind = "meet" /\ TakeMeet(m) /\ UNCHANGED <<room, deaf, ack>>
  <2>1. ASSUME NEW j \in Members
        PROVE  \/ down'[j] = down[j]
               \/ \E msg : down'[j] = Append(down[j], msg) /\ msg.kind # "state"
    <3>1. /\ ListOf(file \cup {m}).kind # "state"
          /\ Opened(m).kind # "state"
      BY DEF ListOf, Opened
    <3>2. \/ down'[j] = Append(down[j], ListOf(file \cup {m}))
          \/ down'[j] = Append(down[j], Opened(m))
          \/ down'[j] = down[j]
      BY <1>4 DEF TakeMeet
    <3> QED BY <3>1, <3>2
  <2>2. ASSUME NEW j \in Online, j # m PROVE Reaching(j)'
    BY <1>1, <1>2, <1>3, <1>4, <2>1, <2>2, ReachStays
  <2>3. ASSUME m \in Online PROVE Reaching(m)'
    <3>1. Heeded(up[m], deaf[m], room) => Heeded(Tail(up[m]), deaf[m], room)
      BY <1>1, <1>4, HeededPasses
    <3>2. Lasting(down[m], room) => Lasting(down'[m], room)
      BY <1>1, <2>1, LastingStays
    <3>3. Forcing(down[m]) => Forcing(down'[m])
      BY <1>1, <2>1, ForcingStays
    <3>4. Reaches(client[m], down[m], up[m], deaf[m], room)
      BY <1>2, <2>3 DEF Reaching
    <3>5. Reaches(client[m], down'[m], up'[m], deaf[m], room)
      BY <1>3, <3>1, <3>2, <3>3, <3>4 DEF Reaches, Nears
    <3> QED BY <1>1, <1>4, <3>5 DEF Reaching
  <2> QED BY <1>2, <2>2, <2>3 DEF AllReach
<1>5. CASE Head(up[m]).kind = "state" /\ TakeState(m, Head(up[m]))
  <2> DEFINE msg == Head(up[m])
  <2>1. msg \in StateUp
    BY <1>1, <1>5, Kinds
  <2>2. PICK heard, acks : Takes(m, msg, heard, acks)
    BY <1>5, <2>1, TakeStateFacts
  <2>3. heard \in [Members -> Nat]
    BY <2>2 DEF Takes
  <2>4. CASE ForceState(heard, acks)
    BY <1>1, <1>2, <2>3, <2>4, ForceReach DEF AllReach
  <2>5. CASE /\ msg.paused # Nothing /\ heard[m] = 0 => ~msg.seek /\ msg.paused = room
             /\ deaf' = heard /\ ack' = acks /\ UNCHANGED <<room, down>>
    <3>1. /\ deaf'[m] = IF msg.server = deaf[m] THEN 0 ELSE deaf[m]
          /\ \A j \in Members \ {m} : deaf'[j] = deaf[j]
      <4>1. heard = [deaf EXCEPT ![m] = IF msg.server = @ THEN 0 ELSE @]
        BY <2>2 DEF Takes
      <4> HIDE DEF msg
      <4> QED BY <1>1, <2>5, <4>1
    <3>2. ASSUME NEW j \in Online, j # m PROVE Reaching(j)'
      BY <1>1, <1>2, <1>3, <2>5, <3>1, <3>2, ReachStays
    <3>3. ASSUME m \in Online PROVE Reaching(m)'
      <4>1. deaf'[m] \in Nat
        BY <1>1, <3>1
      <4>2. msg.paused # Nothing /\ deaf'[m] = 0 => msg.paused = room
        BY <2>5
      <4>3. Heeded(up[m], deaf[m], room) => Heeded(Tail(up[m]), deaf'[m], room)
        BY <1>1, <1>5, <3>1, <4>1, <4>2, HeededPasses
      <4>4. Reaches(client[m], down[m], up[m], deaf[m], room)
        BY <1>2, <3>3 DEF Reaching
      <4>5. Reaches(client[m], down[m], up'[m], deaf'[m], room)
        BY <1>3, <4>3, <4>4 DEF Reaches, Nears
      <4> QED BY <1>1, <2>5, <4>5 DEF Reaching
    <3> QED BY <1>2, <3>2, <3>3 DEF AllReach
  <2> QED BY <2>2, <2>4, <2>5 DEF Takes
<1> QED BY <1>4, <1>5 DEF Serve

LEMMA TickReach ==
    ASSUME IInv, AllReach, NEW m \in Members, Tick(m)
    PROVE  AllReach'
<1> DEFINE msg == FromServer(room, 0, ack[m])
<1>1. msg.paused = room
  BY DEF FromServer
<1>2. /\ down' = [down EXCEPT ![m] = Append(@, msg)] /\ UNCHANGED <<client, up, deaf, room>>
      /\ down \in [Members -> Seq(Down)]
  BY DEF Tick, IInv, Wires
<1> HIDE DEF msg
<1>3. \A j \in Members : down'[j] \in {down[j], Append(down[j], msg)}
  BY <1>2
<1>4. \A j \in Online : j \in Members /\ Reaching(j)
  BY DEF AllReach, Online
<1>5. \A j \in Online : Reaching(j)'
  BY <1>1, <1>2, <1>3, <1>4, ReachStays
<1> QED BY <1>2, <1>5 DEF AllReach, Online

LEMMA ConnectReach ==
    ASSUME IInv, AllReach, NEW m \in Members, Connect(m)
    PROVE  AllReach'
<1> DEFINE d == [client[m] EXCEPT !.online = TRUE, !.listed = FALSE, !.others = {},
                                  !.awaiting = FALSE, !.held = Nothing, !.room = Nothing,
                                  !.synced = FALSE]
<1>1. /\ client \in [Members -> Client] /\ client[m] \in Client /\ down[m] = <<>>
      /\ up \in [Members -> Seq(Up)] /\ deaf \in [Members -> Nat]
  BY DEF IInv, Clients, Wires, Serving, Connected, Connect, Online
<1>2. d.synced = FALSE /\ d.awaiting = FALSE /\ d.held = Nothing /\ d.room = Nothing
  BY <1>1 DEF Client
<1>3. client' = [client EXCEPT ![m] = d] /\ UNCHANGED <<down, room>>
  BY DEF Connect
<1> HIDE DEF d
<1>4. client'[m] = d /\ \A j \in Members \ {m} : client'[j] = client[j]
  BY <1>1, <1>3
<1>5. Reaching(m)'
  <2>1. Lasting(<<>>, room)
    BY DEF Lasting
  <2> QED BY <1>1, <1>2, <1>3, <1>4, <2>1 DEF Reaching, Reaches, Met
<1>6. ASSUME NEW j \in Online', j # m PROVE Reaching(j)'
  <2>1. j \in Members /\ client'[j] = client[j] /\ up'[j] = up[j] /\ deaf'[j] = deaf[j]
    BY <1>1, <1>4, <1>6 DEF Online, Connect
  <2>2. Reaching(j)
    BY <1>6, <2>1 DEF Online, AllReach
  <2> QED BY <1>3, <2>1, <2>2, ReachStays
<1> QED BY <1>5, <1>6 DEF AllReach

LEMMA DropReach ==
    ASSUME IInv, AllReach, NEW m \in Members, Drop(m)
    PROVE  AllReach'
<1>1. /\ client \in [Members -> Client] /\ client[m] \in Client /\ up \in [Members -> Seq(Up)]
      /\ UNCHANGED <<room, deaf>>
  BY DEF IInv, Clients, Wires, Drop
<1>2. client'[m].online = FALSE /\ \A j \in Members \ {m} : client'[j] = client[j]
  BY <1>1 DEF Drop, Client
<1>3. ASSUME NEW j \in Online' PROVE Reaching(j)'
  <2>1. j \in Members /\ j # m /\ client'[j] = client[j] /\ up'[j] = up[j]
    BY <1>1, <1>2, <1>3 DEF Online, Drop
  <2>2. down'[j] = down[j] \/ down'[j] = Append(down[j], Gone(m))
    BY <2>1 DEF Drop
  <2>3. Reaching(j)
    BY <1>3, <2>1 DEF Online, AllReach
  <2>4. Gone(m).kind # "state"
    BY DEF Gone
  <2> QED BY <1>1, <2>1, <2>2, <2>3, <2>4, ReachStays
<1> QED BY <1>3 DEF AllReach

LEMMA PlayerReach ==
    ASSUME IInv, AllReach, NEW m \in Members, Expire(m) \/ Report(m) \/ Change(m)
    PROVE  AllReach'
<1>1. UNCHANGED <<up, down, deaf, room>>
  BY DEF Expire, Report, Change, network, server
<1>2. ASSUME NEW j \in Members
      PROVE  /\ client'[j].online = client[j].online /\ client'[j].listed = client[j].listed
             /\ client'[j].synced = client[j].synced /\ client'[j].here = client[j].here
             /\ client'[j].room = client[j].room /\ client'[j].held = client[j].held
             /\ client'[j].awaiting = client[j].awaiting
  BY DEF Expire, Report, Change, IInv, Clients, Client
<1>3. Online' = Online
  BY <1>2 DEF Online
<1>4. ASSUME NEW j \in Online PROVE Reaching(j)'
  <2>1. j \in Members /\ Reaches(client[j], down[j], up[j], deaf[j], room)
    BY DEF AllReach, Reaching, Online
  <2>2. Met(client'[j])
    BY <1>2, <2>1 DEF Met, Reaches
  <2> QED BY <1>1, <1>2, <2>1, <2>2 DEF Reaching, Reaches, Nears
<1> QED BY <1>3, <1>4 DEF AllReach

LEMMA InitReach == Init => AllReach
<1> SUFFICES ASSUME Init, NEW m \in Online PROVE Reaching(m)
  BY DEF AllReach
<1>1. PICK away \in SUBSET Members :
        /\ room \in IF away = Members THEN {TRUE} ELSE BOOLEAN
        /\ client = [j \in Members |->
                       IF j \in away THEN NewClient
                       ELSE Watching(j, room, Members \ (away \cup {j}))]
        /\ down = [j \in Members |-> <<>>]
  BY DEF Init
<1>2. m \in Members /\ m \notin away
  BY <1>1 DEF Online, NewClient
<1> DEFINE d == Watching(m, room, Members \ (away \cup {m}))
<1>3. d.listed /\ d.synced = TRUE /\ d.here = room /\ d.awaiting = FALSE /\ d.held = Nothing
  BY DEF Watching, NewClient
<1>4. client[m] = d /\ down[m] = <<>>
  BY <1>1, <1>2
<1>5. room # Nothing
  BY <1>1, NothingIsNoTruth
<1> HIDE DEF d
<1>6. Lasting(<<>>, room)
  BY DEF Lasting
<1> QED BY <1>3, <1>4, <1>5, <1>6 DEF Reaching, Reaches, Met, Nears

(* Nobody is left behind: a member that has met the room, with nothing on its way to it or
   from it and nothing to tell it, does what the room does, however changes were held,
   overtaken, ignored on either side and superseded, and connections lost before
   (on_state, send_change, message, force). *)
THEOREM QuietMembersAgree == Spec => []SettledAgree
<1>1. IInv /\ NobodyDeafForGood /\ AllReach => SettledAgree
  <2> SUFFICES ASSUME IInv, NobodyDeafForGood, AllReach, NEW m \in Members, Settled(m)
               PROVE  paused[m] = room
    BY DEF SettledAgree
  <2>1. /\ m \in Online /\ client[m].synced /\ client[m].here = paused[m]
        /\ up[m] = <<>> /\ down[m] = <<>> /\ ~ack[m]
    BY DEF Settled
  <2>2. States(up[m]) = {} /\ States(down[m]) = {}
    BY <2>1, StatesOfNone
  <2>3. ~client[m].awaiting
    BY <2>1, <2>2 DEF NobodyDeafForGood
  <2>4. ~Forcing(down[m]) /\ ~Heeded(up[m], deaf[m], room)
    BY <2>1, <2>2 DEF Forcing, Heeded
  <2>5. Nears(client[m], down[m], up[m], deaf[m], room)
    BY <2>1 DEF AllReach, Reaching, Reaches
  <2> QED BY <2>1, <2>3, <2>4, <2>5 DEF Nears
<1>2. IInv /\ NobodyDeafForGood /\ AllReach /\ [Next]_vars => AllReach'
  <2> SUFFICES ASSUME IInv, NobodyDeafForGood, AllReach, [Next]_vars PROVE AllReach'
    OBVIOUS
  <2>1. CASE UNCHANGED vars
    BY <2>1 DEF AllReach, Reaching, Online, vars, server, network
  <2>2. ASSUME NEW m \in Members, Runs(m) \/ Drop(m) \/ Change(m) PROVE AllReach'
    BY <2>2, HearReach, TakeReportReach, ServeReach, TickReach, ConnectReach, DropReach,
       PlayerReach DEF Runs
  <2> QED BY <2>1, <2>2 DEF Next
<1>3. Spec => []IInv
  BY InitInv, NextInv, PTL DEF Spec
<1>4. Spec => []NobodyDeafForGood
  BY NobodyDeaf
<1> QED BY <1>1, <1>2, <1>3, <1>4, InitReach, PTL DEF Spec
=============================================================================
