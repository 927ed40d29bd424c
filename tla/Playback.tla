------------------------------ MODULE Playback -------------------------------
(***************************************************************************)
(* The player window handed from one playback to the next, and what Now    *)
(* Playing shows meanwhile (crates/anistream-engine/src/playback: slot.rs, *)
(* handoff.rs, start.rs, autonext.rs and session).                         *)
(*                                                                         *)
(* Playbacks are numbered as the engine starts them; the one before p is   *)
(* p - 1, whose controls p takes when it starts and whose window it asks   *)
(* for once it has found something to play.  Each is a task of its own, and *)
(* says what becomes of it on a channel the engine reads in its own time.  *)
(*                                                                         *)
(* Streams, what is written down of the watch, parties, casts and the      *)
(* other controls are not modelled: an episode that falls over to another  *)
(* stream does so in the window it has.  A window is named by the playback *)
(* that opened it.                                                         *)
(***************************************************************************)
EXTENDS Integers, Sequences, FiniteSets

CONSTANTS
    MaxPlays,   \* bound: how many playbacks are started
    MaxActs     \* bound: the viewer's Stops, closed windows and downloaded episodes

ASSUME PlaybackAssumption == MaxPlays \in Nat \ {0} /\ MaxActs \in Nat

Plays == 1 .. MaxPlays

VARIABLES
    last,       \* engine.playbacks: the playback started last, 0 for none
    stage,      \* [Plays -> Stages]: how far each one's task is
    stopped,    \* the playbacks whose watch says Stop
    inbox,      \* [Plays -> Seq(Controls)]: each one's control channel
    holds,      \* [Plays -> window or 0]: the window each plays in
    slot,       \* the window parked for whichever playback comes next, or 0
    open,       \* the windows there are
    told,       \* those of them that have been told to close
    said,       \* Seq(Plays \X Words): on its way to the engine
    front,      \* Staging: the playback Now Playing is for, or 0
    over,       \* [Plays -> playback or 0]: Staging: the one each was staged over
    acts,       \* how many of those the viewer did
    gaveWay,    \* history: the playbacks that gave way to a newer one, and said nothing
    unwaited,   \* history: a playback went on without waiting for the one before it
    turnedDown  \* history: the newest playback when the viewer last asked to stop

screen  == <<front, over>>
windows == <<holds, slot, open, told>>
tasks   == <<last, stage, stopped, inbox>>
history == <<acts, gaveWay, unwaited, turnedDown>>
vars    == <<tasks, windows, said, screen, history>>

-----------------------------------------------------------------------------
(* Data. *)

Controls == {"stop", "handover"}
Words    == {"kept", "left", "ended", "next"}

\* Looking for its stream; found, and asking for the window; waiting for it; opening a player;
\* playing; what follows each end of an episode; and passing its controls on to the one before.
Stages == {"none", "finding", "found", "handing", "opening", "playing", "leaving",
           "rolled", "closed", "relaying", "over"}

\* Whether a playback's task still has its end of its control channel.
Live(p) == p # 0 /\ stage[p] \notin {"none", "over"}

\* Whether its task reads its watch: it has not come to opening a player.
Watching(p) == stage[p] \in {"finding", "found", "handing"}

\* A newer playback took this one's watch, and no Stop had reached it.
Superseded(p) == p # last /\ p \notin stopped

Overtaken(p) == p # last \/ p \in stopped

\* A control sent to a playback, which one that is over never gets.
Deliver(box, p, control) ==
    IF Live(p) THEN [box EXCEPT ![p] = Append(@, control)] ELSE box

\* Somebody can still send this playback controls: the engine, or the playback after it.
Held(p) == p = last \/ stage[p + 1] \in {"finding", "found", "handing", "relaying"}

Says(p, word) == said' = Append(said, <<p, word>>)

\* The playback's task is done, and its channel gone.
Over(p, box) ==
    /\ stage' = [stage EXCEPT ![p] = "over"]
    /\ inbox' = [box EXCEPT ![p] = <<>>]

Enter(p, at) == stage' = [stage EXCEPT ![p] = at]

\* Mutation: a window is told though it is gone.
TellAnyway(w) == told' = told \cup ({w} \ {0})

\* Told to close: a window that is gone already hears nothing.
Tell(w) == told' = told \cup ({w} \cap open)

\* PlayerSlot: a window kept, in place of one kept before; and the one kept closed.
Park(w) ==
    /\ slot' = w
    /\ Tell(slot)

\* Mutation: the window is let go of and nobody tells it to close.
ReleaseUntold ==
    /\ slot' = 0
    /\ UNCHANGED told

Release ==
    /\ slot' = 0
    /\ Tell(slot)

Init ==
    /\ last = 0 /\ stopped = {}
    /\ stage = [p \in Plays |-> "none"]
    /\ inbox = [p \in Plays |-> <<>>]
    /\ holds = [p \in Plays |-> 0]
    /\ slot = 0 /\ open = {} /\ told = {}
    /\ said = <<>>
    /\ front = 0 /\ over = [p \in Plays |-> 0]
    /\ acts = 0 /\ gaveWay = {} /\ unwaited = FALSE /\ turnedDown = 0

-----------------------------------------------------------------------------
(* The viewer. *)

Act ==
    /\ acts < MaxActs
    /\ acts' = acts + 1

\* A playback started and staged for Now Playing, over what it showed.
Start(at, behind, shown) ==
    /\ last < MaxPlays
    /\ last' = last + 1
    /\ Enter(last + 1, at)
    /\ front' = last + 1
    /\ over' = [behind EXCEPT ![last + 1] = shown]

Play ==
    /\ Start("finding", over, front)
    /\ UNCHANGED <<stopped, inbox, windows, said, history>>

\* A downloaded episode: nothing to find, so the window is asked for without waiting.
PlayLocal ==
    /\ Start("opening", over, front)
    /\ inbox' = Deliver(inbox, last, "handover")
    /\ unwaited' = (unwaited \/ Live(last))
    /\ Act
    /\ UNCHANGED <<stopped, windows, said, gaveWay, turnedDown>>

\* Stop, to the playback started last: its watch, and its controls.  At most one each.
Stop ==
    /\ last # 0 /\ turnedDown # last
    /\ stopped' = IF Watching(last) THEN stopped \cup {last} ELSE stopped
    /\ inbox' = Deliver(inbox, last, "stop")
    /\ turnedDown' = last
    /\ Act
    /\ UNCHANGED <<last, stage, windows, said, screen, gaveWay, unwaited>>

\* The viewer closes a window, whatever it shows.
CloseWindow(w) ==
    /\ w \in open
    /\ open' = open \ {w}
    /\ told' = told \ {w}
    /\ Act
    /\ UNCHANGED <<tasks, holds, slot, said, screen, gaveWay, unwaited, turnedDown>>

-----------------------------------------------------------------------------
(* A playback looks for its stream, and asks for the window. *)

\* Mutation: the playback is stopped alone, and not the episode it was to replace.
StopFoundAlone(p) ==
    /\ stage[p] = "finding" /\ p \in stopped
    /\ Over(p, inbox)
    /\ Release
    /\ Says(p, "ended")
    /\ unwaited' = (unwaited \/ Live(p - 1))
    /\ UNCHANGED <<last, stopped, holds, open, screen, acts, gaveWay, turnedDown>>

\* Stopped while it looks: what the viewer stopped is the episode in the window.
StopFound(p) ==
    /\ stage[p] = "finding" /\ p \in stopped
    /\ Over(p, Deliver(inbox, p - 1, "stop"))
    /\ Release
    /\ Says(p, "ended")
    /\ unwaited' = (unwaited \/ Live(p - 1))
    /\ UNCHANGED <<last, stopped, holds, open, screen, acts, gaveWay, turnedDown>>

\* Asked past while it looks: its controls go on to the playback before, and it says nothing.
GiveWay(p) ==
    /\ stage[p] = "finding" /\ Superseded(p)
    /\ Enter(p, "relaying")
    /\ gaveWay' = gaveWay \cup {p}
    /\ UNCHANGED <<last, stopped, inbox, windows, said, screen, acts, unwaited, turnedDown>>

Found(p) ==
    /\ stage[p] = "finding" /\ ~Overtaken(p)
    /\ Enter(p, "found")
    /\ UNCHANGED <<last, stopped, inbox, windows, said, screen, history>>

\* Nothing to play: the episode in the window keeps it, and gets the controls.
Keep(p) ==
    /\ stage[p] = "finding" /\ ~Overtaken(p) /\ Live(p - 1)
    /\ Enter(p, "relaying")
    /\ Says(p, "kept")
    /\ UNCHANGED <<last, stopped, inbox, windows, screen, history>>

\* Nothing to play, and nothing playing.
Fail(p) ==
    /\ stage[p] = "finding" /\ ~Overtaken(p) /\ ~Live(p - 1)
    /\ Over(p, inbox)
    /\ Release
    /\ Says(p, "ended")
    /\ UNCHANGED <<last, stopped, holds, open, screen, history>>

\* Asks for the window, whether or not it was stopped while its shaders were written.
Hand(p) ==
    /\ stage[p] = "found"
    /\ Enter(p, "handing")
    /\ inbox' = Deliver(inbox, p - 1, "handover")
    /\ UNCHANGED <<last, stopped, windows, said, screen, history>>

\* The playback before is over, or HANDOVER_WAIT is.  Stopped meanwhile, or nothing the player
\* can play (a link, which the system opens), it ends here; asked past, it leaves the window.
Handed(p) ==
    /\ stage[p] = "handing"
    /\ unwaited' = (unwaited \/ Live(p - 1))
    /\ \/ /\ p \in stopped \/ ~Overtaken(p)
          /\ Over(p, inbox)
          /\ Release
          /\ Says(p, "ended")
          /\ UNCHANGED gaveWay
       \/ /\ Superseded(p)
          /\ Over(p, inbox)
          /\ gaveWay' = gaveWay \cup {p}
          /\ UNCHANGED <<slot, told, said>>
       \/ /\ ~Overtaken(p)
          /\ Enter(p, "opening")
          /\ UNCHANGED <<inbox, slot, told, said, gaveWay>>
    /\ UNCHANGED <<last, stopped, holds, open, screen, acts, turnedDown>>

\* Passes a control on to the playback before, until that one is over or nobody sends any.
Relay(p) ==
    /\ stage[p] = "relaying" /\ Live(p - 1) /\ inbox[p] # <<>>
    /\ inbox' = [Deliver(inbox, p - 1, Head(inbox[p])) EXCEPT ![p] = Tail(@)]
    /\ UNCHANGED <<last, stage, stopped, windows, said, screen, history>>

RelayEnds(p) ==
    /\ stage[p] = "relaying"
    /\ \/ ~Live(p - 1)
       \/ inbox[p] = <<>> /\ ~Held(p)
    /\ Over(p, inbox)
    /\ UNCHANGED <<last, stopped, windows, said, screen, history>>

-----------------------------------------------------------------------------
(* A playback in its window. *)

\* The window the last episode left.
TakeWindow(p) ==
    /\ stage[p] = "opening" /\ slot \in open
    /\ Enter(p, "playing")
    /\ holds' = [holds EXCEPT ![p] = slot]
    /\ slot' = 0
    /\ UNCHANGED <<last, stopped, inbox, open, told, said, screen, history>>

OpenWindow(p) ==
    /\ stage[p] = "opening" /\ slot \notin open
    /\ Enter(p, "playing")
    /\ holds' = [holds EXCEPT ![p] = p]
    /\ open' = open \cup {p}
    /\ slot' = 0
    /\ UNCHANGED <<last, stopped, inbox, told, said, screen, history>>

OpenFails(p) ==
    /\ stage[p] = "opening" /\ slot \notin open
    /\ Over(p, inbox)
    /\ slot' = 0
    /\ Says(p, "ended")
    /\ UNCHANGED <<last, stopped, holds, open, told, screen, history>>

\* Stop: the player is asked to quit, and plays until it does.
ReadStop(p) ==
    /\ stage[p] = "playing" /\ inbox[p] # <<>> /\ Head(inbox[p]) = "stop"
    /\ Tell(holds[p])
    /\ inbox' = [inbox EXCEPT ![p] = Tail(@)]
    /\ UNCHANGED <<last, stage, stopped, holds, slot, open, said, screen, history>>

\* Handover: says so, then leaves its window to the playback that asked.
ReadHandover(p) ==
    /\ stage[p] = "playing" /\ inbox[p] # <<>> /\ Head(inbox[p]) = "handover"
    /\ Enter(p, "leaving")
    /\ inbox' = [inbox EXCEPT ![p] = Tail(@)]
    /\ Says(p, "left")
    /\ UNCHANGED <<last, stopped, windows, screen, history>>

Leave(p) ==
    /\ stage[p] = "leaving"
    /\ Over(p, inbox)
    /\ Park(holds[p])
    /\ holds' = [holds EXCEPT ![p] = 0]
    /\ UNCHANGED <<last, stopped, open, said, screen, history>>

\* The episode ends and its window is kept for the next one, which is coming.  Not asked here:
\* whether a Stop was read, and the player not gone yet.
EndRolling(p) ==
    /\ stage[p] = "playing" /\ holds[p] \in open
    /\ Enter(p, "rolled")
    /\ Park(holds[p])
    /\ holds' = [holds EXCEPT ![p] = 0]
    /\ UNCHANGED <<last, stopped, inbox, open, said, screen, history>>

\* Its stream fails, or nothing comes next, or its window is gone.
End(p) ==
    /\ stage[p] = "playing"
    /\ Enter(p, "closed")
    /\ Tell(holds[p])
    /\ holds' = [holds EXCEPT ![p] = 0]
    /\ UNCHANGED <<last, stopped, inbox, slot, open, said, screen, history>>

Gone(p) == holds[p] \notin open /\ End(p)

SayEnding(p) ==
    /\ \/ stage[p] = "rolled" /\ Says(p, "next")
       \/ stage[p] = "closed" /\ Says(p, "ended")
    /\ Over(p, inbox)
    /\ UNCHANGED <<last, stopped, windows, screen, history>>

\* A window told to close does.
WindowQuits(w) ==
    /\ w \in told
    /\ open' = open \ {w}
    /\ told' = told \ {w}
    /\ UNCHANGED <<tasks, holds, slot, said, screen, history>>

\* Nobody claimed the window within PARK_LIMIT.
Expire ==
    /\ slot # 0
    /\ Release
    /\ UNCHANGED <<tasks, holds, open, said, screen, history>>

-----------------------------------------------------------------------------
(* The engine takes in what a playback said of itself. *)

\* Mutation: only the entry of the playback itself.
LetGoOwn(p) == [over EXCEPT ![p] = 0]

\* Staging::let_go, and the entry of the playback itself.
LetGo(p) == [q \in Plays |-> IF q = p \/ over[q] = p THEN 0 ELSE over[q]]

\* Now Playing lets go of the playback it shows, and goes back to none.
TakeDown(p) ==
    /\ over' = LetGo(p)
    /\ front' = IF front = p THEN 0 ELSE front
    /\ UNCHANGED <<last, stage>>

\* The playback that found nothing is no longer shown, nor goes one staged over it back to it.
GoBack(p) ==
    /\ front' = IF front = p THEN over[p] ELSE front
    /\ over' = [q \in Plays |-> IF q = p THEN 0
                                ELSE IF over[q] = p /\ front # p THEN over[p] ELSE over[q]]
    /\ UNCHANGED <<last, stage>>

\* The episode on screen rolls on to the next, which starts here; none does at the bound.
RollOn(p) ==
    \/ front = p /\ Start("finding", LetGo(p), 0)
    \/ (front # p \/ last = MaxPlays) /\ TakeDown(p)

Observe ==
    /\ said # <<>>
    /\ said' = Tail(said)
    /\ LET p == Head(said)[1]
       IN CASE Head(said)[2] = "next" -> RollOn(p)
            [] Head(said)[2] = "kept" -> GoBack(p)
            [] OTHER                  -> TakeDown(p)
    /\ UNCHANGED <<stopped, inbox, windows, history>>

-----------------------------------------------------------------------------

\* What the task of a playback does of itself.
Task(p) ==
    \/ StopFound(p) \/ GiveWay(p) \/ Found(p) \/ Keep(p) \/ Fail(p)
    \/ Hand(p) \/ Handed(p) \/ Relay(p) \/ RelayEnds(p)
    \/ TakeWindow(p) \/ OpenWindow(p) \/ OpenFails(p)
    \/ ReadStop(p) \/ ReadHandover(p) \/ Leave(p)
    \/ Gone(p) \/ SayEnding(p)

Next ==
    \/ Play \/ PlayLocal \/ Stop
    \/ \E w \in Plays : CloseWindow(w) \/ WindowQuits(w)
    \/ \E p \in Plays : Task(p) \/ EndRolling(p) \/ End(p)
    \/ Expire
    \/ Observe

Spec == Init /\ [][Next]_vars

\* Tasks run, lookups end (each request has a timeout), windows told to close do, and the
\* engine reads what is said.  An episode may be paused for ever, and the viewer owes nothing.
FairSpec ==
    /\ Spec
    /\ \A p \in Plays : WF_vars(Task(p))
    /\ \A w \in Plays : WF_vars(WindowQuits(w))
    /\ WF_vars(Expire)
    /\ WF_vars(Observe)

-----------------------------------------------------------------------------
(* Properties. *)

\* Types, and what is one of its kind: a window is held by whoever opened it or took it.
TypeOK ==
    /\ last \in 0 .. MaxPlays
    /\ stopped \subseteq Plays
    /\ stage \in [Plays -> Stages]
    /\ inbox \in [Plays -> Seq(Controls)]
    /\ holds \in [Plays -> 0 .. MaxPlays]
    /\ slot \in 0 .. MaxPlays
    /\ open \subseteq Plays /\ told \subseteq open
    /\ said \in Seq(Plays \X Words)
    /\ front \in 0 .. MaxPlays
    /\ over \in [Plays -> 0 .. MaxPlays]
    /\ acts \in 0 .. MaxActs
    /\ gaveWay \subseteq Plays
    /\ unwaited \in BOOLEAN
    /\ turnedDown \in 0 .. MaxPlays

\* A binge is one window: unless a playback went on without waiting for the one before it (a
\* handover that timed out, a downloaded episode, or a Stop of one still looking that leaves
\* another to close), there are never two windows nobody has told to close.
OneWindow ==
    ~unwaited => \A v, w \in open \ told : v = w

\* Nothing is under way: what was said is taken in, and whoever runs plays, or passes on.
AtRest ==
    /\ said = <<>>
    /\ \A p \in Plays : Live(p) =>
         /\ stage[p] \in {"playing", "relaying"} /\ inbox[p] = <<>>
         /\ stage[p] = "playing" => holds[p] \in open \ told
         /\ stage[p] = "relaying" => Live(p - 1)

\* When nothing is under way, Now Playing shows what plays, or nothing if nothing does: unless
\* it went back to a playback that had given way to a newer one without a word.
ShowsWhatPlays ==
    AtRest /\ front \notin gaveWay =>
        /\ \A p \in Plays : stage[p] = "playing" => front = p
        /\ front # 0 => stage[front] = "playing"

\* "the one it was to replace keeps playing: Now Playing goes back to that one" (event.rs).
KeptIsShown ==
    AtRest => \A p \in Plays : stage[p] = "playing" => front = p

\* A viewer who asks to stop is left with no window in the end, unless a playback starts since,
\* whatever of the playbacks asked for was looking, handing over, opening or passing on.
StopEndsIt ==
    (last # 0 /\ turnedDown = last) ~> (open = {} \/ turnedDown # last)

=============================================================================
