------------------------------ MODULE PartyRoom ------------------------------
(***************************************************************************)
(* A watch party: the members of one room, each with a player of its own,  *)
(* and the server that says whether the room is paused                     *)
(* (crates/anistream-party/src/client.rs, sync.rs).  The server is the one *)
(* the repository keeps for its tests and fixtures builds (fake.rs).       *)
(*                                                                         *)
(* Each side that makes a change stops listening until the other has said  *)
(* it heard: a client with a change on its way ignores the room's state,   *)
(* a server that forced a state on a member ignores that member's.  A      *)
(* player is told to pause or play, which lands at once, and says which it *)
(* does by reports, which an order may overtake.                           *)
(*                                                                         *)
(* Pausing and resuming are modelled; where in the episode each player is, *)
(* readiness, chat and notices are not.  Time is abstracted to whether an  *)
(* order is still expected to be heard of.                                 *)
(***************************************************************************)
EXTENDS Integers, Sequences, FiniteSets

CONSTANTS
    Members,     \* the members of the room
    Nothing,     \* not known, not expected
    MaxEvents,   \* bound: pauses and resumes by users, and connections missing, at first
                 \* or after a loss
    MaxFlight    \* bound: the server adds no tick to so many messages on their way

ASSUME PartyAssumption ==
    /\ MaxEvents \in Nat /\ MaxFlight \in Nat \ {0}
    /\ Nothing \notin Members \cup BOOLEAN
    /\ IsFiniteSet(Members)

VARIABLES
    paused,   \* [Members -> BOOLEAN]: what each player really does
    report,   \* [Members -> BOOLEAN or Nothing]: said, and not heard yet
    client,   \* [Members -> Client]: each member's side of the party
    up,       \* [Members -> Seq(message)]: from a member to the server
    down,     \* [Members -> Seq(message)]: from the server to a member
    room,     \* BOOLEAN: whether the server has the room paused
    file,     \* the members the server knows to have a file open
    deaf,     \* [Members -> Nat]: server_ignoring, changes forced and not acknowledged
    ack,      \* [Members -> BOOLEAN]: client_ack, a change of theirs to acknowledge
    changed,  \* whether a user paused or resumed yet
    events    \* how many of those events there were

watching == <<paused, report>>
network  == <<up, down>>
server   == <<room, file, deaf, ack>>
budget   == <<changed, events>>
vars     == <<watching, client, network, server, budget>>

-----------------------------------------------------------------------------
(* Data. *)

Known == BOOLEAN \cup {Nothing}

(* Membership and its Sync: the connection, who else has a file open, whether player and
   room have met and, until then, what the room does; what the player is taken to do and
   what it is expected to say; the change on its way (ignoring_client) and the one held. *)
Client == [online   : BOOLEAN,
           listed   : BOOLEAN,
           others   : SUBSET Members,
           synced   : BOOLEAN,
           here     : Known,
           room     : Known,
           want     : Known,
           awaiting : BOOLEAN,
           held     : Known]

(* What a member sends of its player: a change it made, or the answer to a state.  seek is
   set on the change that makes a room the player's; server and client are the two counts
   of ignoringOnTheFly; change is read by the properties only. *)
FromMember(here, seek, n, awaits, change) ==
    [kind |-> "state", paused |-> here, seek |-> seek, server |-> n, client |-> awaits,
     change |-> change]
Meet == [kind |-> "meet"]   \* set_file and list, said in one breath

(* What the server sends: the room's state, forced (n > 0) or not, or who has a file. *)
FromServer(is, n, acked) ==
    [kind |-> "state", paused |-> is, server |-> n, client |-> acked]
ListOf(who) == [kind |-> "list", who |-> who]
Opened(who) == [kind |-> "file", who |-> who]
Gone(who)   == [kind |-> "left", who |-> who]

Online == {m \in Members : client[m].online}

-----------------------------------------------------------------------------
(* Sync: one player kept with the room.  Each rule gives the client it leaves, the order
   for the player and the change for the room, if any. *)

Quiet(c)      == [client |-> c, order |-> Nothing, change |-> Nothing, seek |-> FALSE]
Changed(c, s) == [client |-> c, order |-> Nothing, change |-> c.here, seek |-> s]

(* Sync::pause: what is asked is taken as done, and expected to be heard. *)
Follow(c, is) ==
    IF c.here = is THEN Quiet(c)
    ELSE [Quiet([c EXCEPT !.here = is, !.want = is]) EXCEPT !.order = is]

(* Sync::together: the first time both are known, the player is brought to a room others
   watch; a room nobody else watches is made the player's. *)
Together(c) ==
    LET met == [c EXCEPT !.synced = TRUE, !.room = Nothing]
    IN CASE Nothing \in {c.here, c.room} -> Quiet(c)
         [] Nothing \notin {c.here, c.room} /\ c.others = {} -> Changed(met, TRUE)
         [] OTHER -> Follow(met, c.room)

(* Mutation: a report is believed, whatever the player was just told. *)
SampleBelieved(c, says) ==
    LET heard == [c EXCEPT !.here = says, !.want = IF says = @ THEN Nothing ELSE @]
    IN CASE c.here = Nothing \/ ~c.synced -> Together(heard)
         [] c.here # Nothing /\ c.synced /\ heard.here # c.here -> Changed(heard, FALSE)
         [] OTHER -> Quiet(heard)

(* Sync::sample: a report that disagrees with an order not yet heard of is read as what
   the player was told; what then differs from the last report is a change. *)
Sample(c, says) ==
    LET heard == [c EXCEPT !.here = IF c.want = Nothing THEN says ELSE c.want,
                           !.want = IF says = @ THEN Nothing ELSE @]
    IN CASE c.here = Nothing \/ ~c.synced -> Together(heard)
         [] c.here # Nothing /\ c.synced /\ heard.here # c.here -> Changed(heard, FALSE)
         [] OTHER -> Quiet(heard)

(* Sync::room, once what the room does is known. *)
Room(c, is) ==
    CASE c.here = Nothing -> Quiet([c EXCEPT !.room = is])
      [] c.here # Nothing /\ ~c.synced -> Together([c EXCEPT !.room = is])
      [] OTHER -> Follow(c, is)

-----------------------------------------------------------------------------
(* The client's side of the connection. *)

(* send_change: one change on its way at a time; a later one is held.  What it sends
   acknowledges the server's change n, if any. *)
SendChange(c, change, seek, n) ==
    CASE change = Nothing -> [client |-> c, sent |-> <<>>]
      [] change # Nothing /\ c.awaiting ->
           [client |-> [c EXCEPT !.held = change], sent |-> <<>>]
      [] OTHER ->
           [client |-> [c EXCEPT !.awaiting = TRUE],
            sent   |-> <<FromMember(change, seek, n, TRUE, TRUE)>>]

(* Mutation: the server's change drops what was held and leaves the member waiting. *)
HeardWaiting(c, msg) ==
    CASE msg.server > 0 -> [client |-> [c EXCEPT !.held = Nothing], sent |-> <<>>]
      [] msg.server = 0 /\ msg.client /\ c.awaiting ->
           SendChange([c EXCEPT !.awaiting = FALSE, !.held = Nothing], c.held, FALSE, 0)
      [] OTHER -> [client |-> c, sent |-> <<>>]

(* on_state, first: the server's change overtakes this member's; its word that a change was
   taken in lets the one held back go. *)
Heard(c, msg) ==
    LET over == [c EXCEPT !.awaiting = FALSE, !.held = Nothing]
    IN CASE msg.server > 0 -> [client |-> over, sent |-> <<>>]
         [] msg.server = 0 /\ msg.client /\ c.awaiting ->
              SendChange(over, c.held, FALSE, 0)
         [] OTHER -> [client |-> c, sent |-> <<>>]

(* The player does what it is told. *)
Obey(m, order) == paused' = IF order = Nothing THEN paused ELSE [paused EXCEPT ![m] = order]

(* on_state: the room's state is acted on once the members are known and no change is on
   its way; then it is answered, with what the player does. *)
OnState(m, msg) ==
    LET first == Heard(client[m], msg)
        acts  == first.client.listed /\ ~first.client.awaiting
        sync  == IF acts THEN Room(first.client, msg.paused) ELSE Quiet(first.client)
        made  == SendChange(sync.client, sync.change, sync.seek, msg.server)
        owed  == IF made.sent = <<>> THEN msg.server ELSE 0
        here  == IF ~made.client.awaiting \/ owed # 0 THEN made.client.here ELSE Nothing
    IN /\ client' = [client EXCEPT ![m] = made.client]
       /\ Obey(m, sync.order)
       /\ up' = [up EXCEPT ![m] = @ \o first.sent \o made.sent \o
                    <<FromMember(here, FALSE, owed, made.client.awaiting, FALSE)>>]

(* List and Set: who else has a file open. *)
OnMembers(m, msg) ==
    /\ client' =
         CASE msg.kind = "list" -> [client EXCEPT ![m].listed = TRUE, ![m].others = msg.who \ {m}]
           [] msg.kind = "file" -> [client EXCEPT ![m].others = @ \cup {msg.who}]
           [] msg.kind = "left" -> [client EXCEPT ![m].others = @ \ {msg.who}]
    /\ UNCHANGED <<paused, up>>

(* on_line: the next line from the server. *)
Hear(m) ==
    /\ down[m] # <<>>
    /\ down' = [down EXCEPT ![m] = Tail(@)]
    /\ IF Head(down[m]).kind = "state" THEN OnState(m, Head(down[m]))
                                       ELSE OnMembers(m, Head(down[m]))
    /\ UNCHANGED <<report, server, budget>>

(* Input::Sample: a report is heard.  With no connection nothing is sent and nothing is
   asked of the player. *)
TakeReport(m) ==
    LET sync   == Sample(client[m], report[m])
        made   == SendChange(sync.client, sync.change, sync.seek, 0)
        alone  == Sample([client[m] EXCEPT !.others = {}], report[m])
    IN /\ report[m] # Nothing
       /\ report' = [report EXCEPT ![m] = Nothing]
       /\ IF client[m].online
          THEN /\ client' = [client EXCEPT ![m] = made.client]
               /\ Obey(m, sync.order)
               /\ up' = [up EXCEPT ![m] = @ \o made.sent]
          ELSE /\ client' = [client EXCEPT ![m] = alone.client]
               /\ UNCHANGED <<paused, up>>
       /\ UNCHANGED <<down, server, budget>>

(* expire: what was expected is expected no more, by when what the player said before it
   was told has been heard. *)
Expire(m) ==
    /\ report[m] \in {Nothing, paused[m]}
    /\ client[m].want # Nothing
    /\ client' = [client EXCEPT ![m].want = Nothing]
    /\ UNCHANGED <<watching, network, server, budget>>

-----------------------------------------------------------------------------
(* The server. *)

(* force: every member takes the room's new state, and is not listened to until it has. *)
ForceState(heard, acks) ==
    /\ deaf' = [j \in Members |-> IF j \in Online THEN heard[j] + 1 ELSE heard[j]]
    /\ down' = [j \in Members |->
                  IF j \in Online
                  THEN Append(down[j], FromServer(room', heard[j] + 1, acks[j]))
                  ELSE down[j]]
    /\ ack' = [j \in Members |-> acks[j] /\ j \notin Online]

(* message, "State". *)
TakeState(m, msg) ==
    LET heard == [deaf EXCEPT ![m] = IF msg.server = @ THEN 0 ELSE @]
        acks  == [ack EXCEPT ![m] = @ \/ msg.client]
    IN IF msg.paused # Nothing /\ heard[m] = 0 /\ (msg.seek \/ msg.paused # room)
       THEN room' = msg.paused /\ ForceState(heard, acks)
       ELSE deaf' = heard /\ ack' = acks /\ UNCHANGED <<room, down>>

(* message, "Set" file then "List". *)
TakeMeet(m) ==
    /\ file' = file \cup {m}
    /\ down' = [j \in Members |->
                  CASE j = m -> Append(down[j], ListOf(file \cup {m}))
                    [] j \in Online \ {m} -> Append(down[j], Opened(m))
                    [] OTHER -> down[j]]

Serve(m) ==
    /\ up[m] # <<>>
    /\ up' = [up EXCEPT ![m] = Tail(@)]
    /\ \/ /\ Head(up[m]).kind = "meet"
          /\ TakeMeet(m)
          /\ UNCHANGED <<room, deaf, ack>>
       \/ /\ Head(up[m]).kind = "state"
          /\ TakeState(m, Head(up[m]))
          /\ UNCHANGED file
    /\ UNCHANGED <<watching, client, budget>>

(* The ticking task: where the room is, said to a member. *)
Tick(m) ==
    /\ m \in Online
    /\ Len(down[m]) + Len(up[m]) < MaxFlight
    /\ down' = [down EXCEPT ![m] = Append(@, FromServer(room, 0, ack[m]))]
    /\ ack' = [ack EXCEPT ![m] = FALSE]
    /\ UNCHANGED <<watching, client, up, room, file, deaf, budget>>

-----------------------------------------------------------------------------
(* The connection. *)

(* Mutation: what was on its way is not forgotten. *)
ConnectAwaiting(m) ==
    /\ m \notin Online
    /\ client' = [client EXCEPT ![m] =
         [@ EXCEPT !.online = TRUE, !.listed = FALSE, !.others = {},
                   !.room = Nothing, !.synced = FALSE]]
    /\ up' = [up EXCEPT ![m] = <<Meet>>]
    /\ deaf' = [deaf EXCEPT ![m] = 0]
    /\ ack' = [ack EXCEPT ![m] = FALSE]
    /\ UNCHANGED <<watching, down, room, file, budget>>

(* hello, and what connection() resets: the player meets the room afresh. *)
Connect(m) ==
    /\ m \notin Online
    /\ client' = [client EXCEPT ![m] =
         [@ EXCEPT !.online = TRUE, !.listed = FALSE, !.others = {}, !.awaiting = FALSE,
                   !.held = Nothing, !.room = Nothing, !.synced = FALSE]]
    /\ up' = [up EXCEPT ![m] = <<Meet>>]
    /\ deaf' = [deaf EXCEPT ![m] = 0]
    /\ ack' = [ack EXCEPT ![m] = FALSE]
    /\ UNCHANGED <<watching, down, room, file, budget>>

(* Mutation: the room still counts the member's file. *)
DropWatching(m) ==
    /\ m \in Online /\ events < MaxEvents
    /\ events' = events + 1
    /\ client' = [client EXCEPT ![m].online = FALSE]
    /\ up' = [up EXCEPT ![m] = <<>>]
    /\ down' = [j \in Members |-> IF j = m THEN <<>> ELSE down[j]]
    /\ UNCHANGED <<watching, room, file, deaf, ack, changed>>

(* A connection is lost, with all that was on its way; the others hear of it. *)
Drop(m) ==
    /\ m \in Online /\ events < MaxEvents
    /\ events' = events + 1
    /\ client' = [client EXCEPT ![m].online = FALSE]
    /\ up' = [up EXCEPT ![m] = <<>>]
    /\ down' = [j \in Members |->
                  CASE j = m -> <<>>
                    [] j \in Online \ {m} -> Append(down[j], Gone(m))
                    [] OTHER -> down[j]]
    /\ file' = file \ {m}
    /\ UNCHANGED <<watching, room, deaf, ack, changed>>

-----------------------------------------------------------------------------
(* The player and its user. *)

(* It reports what it does, over and over; what is known and expected already, and would
   change nothing, is left out. *)
Report(m) ==
    /\ report[m] = Nothing
    /\ paused[m] # client[m].here \/ client[m].want # Nothing
    /\ report' = [report EXCEPT ![m] = paused[m]]
    /\ UNCHANGED <<paused, client, network, server, budget>>

(* The user pauses or resumes. *)
Change(m) ==
    /\ events < MaxEvents
    /\ events' = events + 1
    /\ changed' = TRUE
    /\ paused' = [paused EXCEPT ![m] = ~@]
    /\ UNCHANGED <<report, client, network, server>>

-----------------------------------------------------------------------------
(* The specification. *)

NewClient == [online |-> FALSE, listed |-> FALSE, others |-> {}, synced |-> FALSE,
              here |-> Nothing, room |-> Nothing, want |-> Nothing, awaiting |-> FALSE,
              held |-> Nothing]
Watching(m, is, others) ==
    [NewClient EXCEPT !.online = TRUE, !.listed = TRUE, !.others = others,
                      !.synced = TRUE, !.here = is]

(* Some members watch together; the others are about to join.  A room nobody has been in
   is paused. *)
Init ==
    \E away \in SUBSET Members :
        /\ Cardinality(away) <= MaxEvents
        /\ room \in IF away = Members THEN {TRUE} ELSE BOOLEAN
        /\ paused \in [Members -> BOOLEAN]
        /\ \A m \in Members \ away : paused[m] = room
        /\ client = [m \in Members |->
                       IF m \in away THEN NewClient
                       ELSE Watching(m, room, Members \ (away \cup {m}))]
        /\ file = Members \ away
        /\ report = [m \in Members |-> Nothing]
        /\ up = [m \in Members |-> <<>>]
        /\ down = [m \in Members |-> <<>>]
        /\ deaf = [m \in Members |-> 0]
        /\ ack = [m \in Members |-> FALSE]
        /\ changed = FALSE
        /\ events = Cardinality(away)

Runs(m) ==
    \/ Hear(m) \/ TakeReport(m) \/ Expire(m)
    \/ Serve(m) \/ Tick(m) \/ Connect(m) \/ Report(m)

Next ==
    \E m \in Members : Runs(m) \/ Drop(m) \/ Change(m)

Spec == Init /\ [][Next]_vars

(* Lines are read and answered, the server ticks, the player reports and is heard, a lost
   connection is made again.  The users owe nothing.  Hear and Connect are never both
   enabled, nor are Report and TakeReport: fairness to either pair is fairness to each. *)
Fairness ==
    \A m \in Members :
        /\ WF_vars(Hear(m) \/ Connect(m))
        /\ WF_vars(Report(m) \/ TakeReport(m))
        /\ WF_vars(Expire(m))
        /\ WF_vars(Serve(m))
        /\ WF_vars(Tick(m))

FairSpec == Spec /\ Fairness

-----------------------------------------------------------------------------
(* Properties. *)

(* Every variable holds values of its type; the server counts as watching only those it has
   a connection to. *)
TypeOK ==
    /\ paused \in [Members -> BOOLEAN]
    /\ report \in [Members -> Known]
    /\ client \in [Members -> Client]
    /\ room \in BOOLEAN
    /\ file \subseteq Online
    /\ deaf \in [Members -> Nat]
    /\ ack \in [Members -> BOOLEAN]
    /\ changed \in BOOLEAN
    /\ events \in 0..MaxEvents

States(line) == {line[i] : i \in {k \in 1..Len(line) : line[k].kind = "state"}}

(* Neither side stops listening for good: a member with a change on its way has an answer
   coming, as does a server that forced a change on a member, though answers cross, changes
   are overtaken and a newer change supersedes one not yet acknowledged. *)
NobodyDeafForGood ==
    \A m \in Online :
        /\ client[m].awaiting =>
              \/ ack[m]
              \/ \E msg \in States(up[m]) : msg.client
              \/ \E msg \in States(down[m]) : msg.client \/ msg.server > 0
        /\ deaf[m] > 0 =>
              \E msg \in States(up[m]) \cup States(down[m]) : msg.server = deaf[m]

(* "What this side told the player to do comes back the same way, and is recognised as its
   own and not sent back": while no user pauses or resumes, no member says it changed its
   mind, however states, orders and stale reports cross. *)
OrdersAreNotEchoed ==
    ~changed => \A m \in Members : \A msg \in States(up[m]) : msg.change => msg.seek

(* Once the users rest and the connections hold, every player does what the room does. *)
Agree     == \A m \in Members : paused[m] = room
Converges == <>[]Agree

=============================================================================
