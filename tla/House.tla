------------------------------- MODULE House -------------------------------
(***************************************************************************)
(* The world callers walk through: Location and Room of                    *)
(* src/actor-v3/location.py, Caller of protocol.py and Villa of villa.py.  *)
(*                                                                         *)
(* Each caller is in one room, is told what the molecules it is sent say,  *)
(* and has data there: timers, the digits of a shortcut, the recording it  *)
(* makes.  Its keys do all the rest; the handler of a key is one step.     *)
(* An exception in a handler leaves data_received, so asyncio closes the   *)
(* connection and the server hangs up every call; `run' connects anew.     *)
(*                                                                         *)
(* Left out: files and the wording of what is told; the dialogs, which     *)
(* nothing constructs; the lists iterators stand in (it_callers is None    *)
(* everywhere, see module Spares); events no class has a handler for       *)
(* (molecule_done, dtmf_end), which change nothing.                        *)
(***************************************************************************)
EXTENDS Integers, SequencesExt

CONSTANTS
    Callers,      \* ids of calls; one that is over stands for a new one
    Rooms, Nowhere,
    Entry,        \* the room Villa.enter puts a caller in
    Background,   \* the rooms that have a background
    Connects,     \* the calls of connect, in order: from, to, direction
    Shortcuts,    \* the sequences of digits that Villa.shortcuts knows
    Keys,
    MaxDigits,    \* BOUND: digits all callers together have dialled
    MaxTalks      \* BOUND: recordings made in all rooms together

ASSUME HouseAssumption == /\ Entry \in Rooms
                          /\ Background \subseteq Rooms
                          /\ Nowhere \notin Rooms
                          /\ MaxDigits \in Nat /\ MaxTalks \in Nat

Compass == [k \in {"1", "2", "3", "4", "6", "7", "8", "9"} |->
               CASE k = "1" -> "northwest" [] k = "2" -> "north" [] k = "3" -> "northeast"
                 [] k = "4" -> "west"      [] k = "6" -> "east"
                 [] k = "7" -> "southwest" [] k = "8" -> "south" [] k = "9" -> "southeast"]

\* _mirror: opposite keys of the telephone lie opposite.
Mirror == [north |-> "south", northeast |-> "southwest", east |-> "west", southeast |-> "northwest",
           south |-> "north", southwest |-> "northeast", west |-> "east", northwest |-> "southeast"]

\* connect: the door and its copy for the way back.
Connect(doors, d) == [doors EXCEPT ![d.from][d.direction] = d.to,
                                   ![d.to][Mirror[d.direction]] = d.from]

\* Where the doors of the rooms lead; a later connect replaces a door.
Doors == FoldLeft(Connect, [r \in Rooms |-> [d \in DOMAIN Mirror |-> Nowhere]], Connects)

ASSUME DoorsAssumption == Doors \in [Rooms -> [DOMAIN Mirror -> Rooms \cup {Nowhere}]]

-----------------------------------------------------------------------------
(* State.                                                                  *)

VARIABLES
    world,   \* the objects of the actor, see World
    up       \* the accepted calls that have not ended

vars == <<world, up>>

Timers == {"orientation", "move", "starhash"}
Modes  == {"move", "starhash"}
Digits == Keys \ {"*", "#"}

\* LocationData: armed are the entries of timers, due counts the handles of
\* the loop that will still fire, which an entry that is replaced leaves
\* behind.  talk numbers the file of tid_talk, 0 is None.
LocationData == [armed : SUBSET Timers, due : [Timers -> Nat], digits : Seq(Digits), talk : Nat]

NewData == [armed |-> {}, due |-> [t \in Timers |-> 0], digits |-> <<>>, talk |-> 0]

\* What the molecules say: the transition, the door, that there is nothing
\* in this direction, how many others are here (nine are many), and so on.
Molecule == {<<"transition">>, <<"door out">>, <<"door in">>, <<"nothing there">>, <<"orientation">>, <<"beep">>}
            \cup ({"background"} \X Rooms) \cup ({"others"} \X Int)
            \cup ({"record"} \X Rooms \X Nat)

\* inside: Location.callers.  loops: the backgrounds a caller was sent, which
\* the server repeats until they are discarded.  told: what the last step sent
\* to each.
World == [connected : BOOLEAN, inside : [Rooms -> Seq(Callers)],
          location : [Callers -> Rooms \cup {Nowhere}], data : [Callers -> LocationData],
          talks : [Rooms -> Nat], loops : [Callers -> Seq(Rooms)],
          told : [Callers -> Seq(Molecule)]]

NewWorld == [connected |-> TRUE, inside |-> [r \in Rooms |-> <<>>],
             location |-> [c \in Callers |-> Nowhere], data |-> [c \in Callers |-> NewData],
             talks |-> [r \in Rooms |-> 0], loops |-> [c \in Callers |-> <<>>],
             told |-> [c \in Callers |-> <<>>]]

\* An exception that nobody catches: what was sent is sent, and the objects
\* that are left are those of a lost connection, which no event reaches.
Raise(w) == [NewWorld EXCEPT !.connected = FALSE, !.told = w.told]

-----------------------------------------------------------------------------
(* Timers of LocationData.                                                 *)

Arm(d, t) == [d EXCEPT !.armed = @ \cup {t}, !.due[t] = @ + 1]

Cancel(d, t) == IF t \in d.armed
                THEN [d EXCEPT !.armed = @ \ {t}, !.due[t] = IF @ > 0 THEN @ - 1 ELSE 0]
                ELSE d

-----------------------------------------------------------------------------
(* Entering, leaving, moving.                                              *)

\* To each of these callers once: nobody is in a list twice
\* (EveryoneIsSomewhere).
Tell(w, to, say) == [w EXCEPT !.told = [c \in Callers |-> IF c \in to THEN Append(@[c], say) ELSE @[c]]]

\* The callers of a room but for c.
Others(w, r, c) == Range(w.inside[r]) \ {c}

Enter(w, c, r) ==
    LET entered == [w EXCEPT !.location[c] = r, !.inside[r] = Append(@, c),
                             !.data[c] = Arm(NewData, "orientation")]
    IN  IF r \in Background
        THEN Tell([entered EXCEPT !.loops[c] = Append(@, r)], {c}, <<"background", r>>)
        ELSE entered

\* Mutants of Leave: the caller stays in the list; discard_range is sent,
\* without the background it should name; the loop over the callers of the room
\* takes the data of each.
LeaveInList(w, c) ==
    LET r == w.location[c]
    IN  IF r \in Background THEN Raise(w) ELSE [w EXCEPT !.location[c] = Nowhere, !.data[c] = NewData]
LeaveQuietly(w, c) ==
    LET r == w.location[c]
    IN  [w EXCEPT !.location[c] = Nowhere, !.inside[r] = RemoveFirst(@, c), !.data[c] = NewData]

LeaveAll(w, c) ==
    LET r == w.location[c]
    IN  IF r \in Background
        THEN Raise(w)
        ELSE [w EXCEPT !.location[c] = Nowhere, !.inside[r] = RemoveFirst(@, c),
                       !.data = [d \in Callers |-> IF d \in Range(w.inside[r]) THEN NewData ELSE @[d]]]

\* After leaving a room with a background discard_range is called with two
\* policies, which json.dumps refuses.  The handles that are due keep the data
\* that is dropped alive (wrap_callback is bound to it), so __del__ does not
\* cancel them: they fire later and raise without any effect, and are left out.
Leave(w, c) ==
    LET r == w.location[c]
    IN  IF r \in Background
        THEN Raise(w)
        ELSE [w EXCEPT !.location[c] = Nowhere, !.inside[r] = RemoveFirst(@, c), !.data[c] = NewData]

\* Mutant of Move: the list of the room is read after leaving it, and the
\* new room's before it is entered.
MoveQuietly(w, c, dest) ==
    LET r == w.location[c]
        out == Tell(Tell(w, {c}, <<"transition">>), Range(w.inside[r]), <<"door out">>)
        left == Leave(out, c)
    IN  IF left.connected THEN Enter(Tell(left, Range(left.inside[dest]), <<"door in">>), c, dest) ELSE left

\* move: those who stay hear the door, those in the new room too, unless
\* leaving raises.
Move(w, c, dest) ==
    LET r == w.location[c]
        left == Leave(Tell(Tell(w, {c}, <<"transition">>), Others(w, r, c), <<"door out">>), c)
        entered == Enter(left, c, dest)
    IN  IF left.connected THEN Tell(entered, Others(entered, dest, c), <<"door in">>) ELSE left

-----------------------------------------------------------------------------
(* Calls.                                                                  *)

\* Mutant of Becomes: the calls survive the connection.
BecomesOnly(w) == world' = w /\ UNCHANGED up

\* A step of the actor ends in w.  The server hangs up whoever is up when the
\* connection is closed.
Becomes(w) == world' = w /\ up' = IF w.connected THEN up ELSE {}

Quiet == [world EXCEPT !.told = [c \in Callers |-> <<>>]]

\* The response to answer: Caller.call_accepted, Villa.enter.
CallAccepted(c) ==
    /\ world.connected /\ world.location[c] = Nowhere
    /\ world' = Enter(Quiet, c, Entry)
    /\ up' = up \cup {c}

\* call_closed is looked up on the Caller, which has no such handler: the
\* caller stays where it is.
PeerHangsUp(c) ==
    /\ c \in up
    /\ up' = up \ {c}
    /\ world' = Quiet

\* The server goes, or a message of somebody else cannot be handled.
ConnectionLost == world.connected /\ Becomes(Raise(Quiet))

\* run connects again; Villa.connection_made builds new rooms.
Reconnect == ~world.connected /\ world' = NewWorld /\ UNCHANGED up

\* call_later passes self twice, so wrap_callback calls the name of the timer
\* and raises in the loop, which logs it: the entry stays.
TimerFires(c, t) ==
    /\ world.connected /\ world.data[c].due[t] > 0
    /\ world' = [Quiet EXCEPT !.data[c].due[t] = @ - 1]
    /\ UNCHANGED up

-----------------------------------------------------------------------------
(* Keys: event_dtmf_begin of Caller, Location and Room.                    *)

\* A key of c arrives while c is in this mode; any key cancels orientation.
Dials(c, inMode) == /\ world.connected /\ c \in up
                    /\ inMode <=> world.data[c].armed \cap Modes # {}

Begun(c) == [Quiet EXCEPT !.data[c] = Cancel(@, "orientation")]

Without(c, t) == [Begun(c) EXCEPT !.data[c] = Cancel(@, t)]

DoorOf(c, k) == IF k \in DOMAIN Compass THEN Doors[world.location[c]][Compass[k]] ELSE Nowhere

\* After 5: the next key is a direction, or ends the mode.
MoveKey(c, k) ==
    /\ Dials(c, TRUE) /\ "move" \in world.data[c].armed
    /\ Becomes(IF DoorOf(c, k) # Nowhere
               THEN Move(Without(c, "move"), c, DoorOf(c, k))
               ELSE Tell(Without(c, "move"), {c}, <<"nothing there">>))

StarhashMode(c) == Dials(c, TRUE) /\ "move" \notin world.data[c].armed

\* What the bounds are on.
Dialled  == MapThenSumSet(LAMBDA d : Len(world.data[d].digits), Callers)
Recorded == MapThenSumSet(LAMBDA r : world.talks[r], Rooms)

\* A digit after *.  The timer is armed anew; the handle of the entry it
\* replaces stays.
DigitKey(c, k) ==
    LET armed == Arm(Begun(c).data[c], "starhash")
    IN  /\ StarhashMode(c) /\ k \in Digits
        /\ Dialled < MaxDigits
        /\ Becomes([Begun(c) EXCEPT !.data[c] = [armed EXCEPT !.digits = Append(@, k)]])

\* starhash: Teleporter takes no room, so a shortcut that is known raises.
\* The digits are never cleared.
Lookup(c) ==
    /\ StarhashMode(c)
    /\ Becomes(IF world.data[c].digits \in Shortcuts THEN Raise(Without(c, "starhash"))
                                                     ELSE Without(c, "starhash"))

GiveUp(c) ==
    /\ StarhashMode(c)
    /\ Becomes(Tell(Without(c, "starhash"), {c}, <<"beep">>))

\* 5 and * begin a mode, which a timer should end.
BeginMode(c, k) ==
    /\ Dials(c, FALSE) /\ k \in {"5", "*"}
    /\ Becomes([Begun(c) EXCEPT !.data[c] = Arm(@, IF k = "5" THEN "move" ELSE "starhash")])

\* Mutant of CountOthers: the caller counts itself.
CountAll(c) == Len(world.inside[world.location[c]])

\* announce_others counts the list of the room.
CountOthers(c) == Len(world.inside[world.location[c]]) - 1

AnnounceOthers(c) ==
    /\ Dials(c, FALSE)
    /\ Becomes(Tell(Begun(c), {c}, <<"others", CountOthers(c)>>))

Help(c) == Dials(c, FALSE) /\ Becomes(Tell(Begun(c), {c}, <<"orientation">>))

\* Mutant of Talk: gen_talk_id does not keep the number.
TalkAgain(c) ==
    LET r == world.location[c]
        n == world.talks[r] + 1
    IN  /\ Dials(c, FALSE)
        /\ world.data[c].talk # 0 \/ Recorded < MaxTalks
        /\ Becomes(IF world.data[c].talk # 0
                   THEN Raise(Begun(c))
                   ELSE Tell([Begun(c) EXCEPT !.data[c].talk = n], {c}, <<"record", r, n>>))

\* 4 records into a new file of the room.  tid_talk is never reset in the
\* room, as molecule_done is not handled: the second 4 calls Caller.stop,
\* which does not exist.
Talk(c) ==
    LET r == world.location[c]
        n == world.talks[r] + 1
    IN  /\ Dials(c, FALSE)
        /\ world.data[c].talk # 0 \/ Recorded < MaxTalks
        /\ Becomes(IF world.data[c].talk # 0
                   THEN Raise(Begun(c))
                   ELSE Tell([Begun(c) EXCEPT !.talks[r] = n, !.data[c].talk = n],
                             {c}, <<"record", r, n>>))

\* Other keys only end the orientation.
OtherKey(c) == Dials(c, FALSE) /\ Becomes(Begun(c))

Key(c, k) == \/ MoveKey(c, k)
             \/ DigitKey(c, k)
             \/ k = "#" /\ (Lookup(c) \/ Help(c))
             \/ k = "*" /\ GiveUp(c)
             \/ BeginMode(c, k)
             \/ k = "6" /\ AnnounceOthers(c)
             \/ k = "4" /\ Talk(c)
             \/ k \notin {"4", "5", "6", "*", "#"} /\ OtherKey(c)

Init == world = NewWorld /\ up = {}

Next == \/ \E c \in Callers : CallAccepted(c) \/ PeerHangsUp(c)
        \/ \E c \in Callers, k \in Keys : Key(c, k)
        \/ \E c \in Callers, t \in Timers : TimerFires(c, t)
        \/ ConnectionLost
        \/ Reconnect

Spec == Init /\ [][Next]_vars

\* The event loop fires every timer that is due.
LiveSpec == Spec /\ WF_vars(\E c \in Callers, t \in Timers : TimerFires(c, t))

-----------------------------------------------------------------------------
(* Properties.                                                             *)

\* Every variable has its type, and calls are up on an open connection only.
TypeOK == /\ world \in World
          /\ up \subseteq Callers
          /\ ~world.connected => up = {}

\* The callers in the list of a room are those that believe to be there, each
\* once; and who is in no room has no call.
EveryoneIsSomewhere ==
    /\ \A r \in Rooms : /\ IsInjective(world.inside[r])
                        /\ Range(world.inside[r]) = {c \in Callers : world.location[c] = r}
    /\ \A c \in up : world.location[c] # Nowhere

\* Whatever way a caller took, the background that repeats in its queue is
\* that of the room it is in.  It holds as leaving a room that has one fails:
\* no discard_range of the actor ever ends a background.
BackgroundFits ==
    \A c \in Callers :
        world.loops[c] = IF world.location[c] \in Background THEN <<world.location[c]>> ELSE <<>>

\* Key 6 says how many others are here: those whose call is up, and those
\* whose call is over, since nobody removes them.
AnnouncedAreThere ==
    \A c \in Callers :
        LET others == {d \in Callers \ {c} : world.location[d] = world.location[c]}
        IN  \A i \in DOMAIN world.told[c] :
               world.told[c][i][1] = "others" => world.told[c][i][2] = Cardinality(others)

\* Two callers of a room never record into the same file.
TalksAreOwn ==
    \A c, d \in Callers :
        /\ c # d
        /\ world.location[c] = world.location[d]
        /\ world.data[c].talk = world.data[d].talk
        => world.data[c].talk = 0

\* What d hears of it when c goes to dest.
Heard(d, c, dest) ==
    IF d = c
    THEN <<<<"transition">>>> \o (IF dest \in Background THEN <<<<"background", dest>>>> ELSE <<>>)
    ELSE CASE world.location[d] = world.location[c] -> <<<<"door out">>>>
           [] world.location[d] = dest -> <<<<"door in">>>>
           [] OTHER -> <<>>

\* When a caller comes to another room, everyone in the room it left, and
\* everyone in the room it came to, hears one door, and nobody else anything;
\* the caller hears the transition before the background of the new room.
DoorsAreHeard ==
    [][\A c, d \in Callers :
          LET dest == world'.location[c] IN
          /\ world.location[c] \in Rooms
          /\ world'.connected /\ dest # world.location[c]
          => dest \in Rooms /\ world'.told[d] = Heard(d, c, dest)]_vars

\* While a caller stays in a room, its timers, the digits it dials and the
\* recording it makes change by its own keys and its own timers only, whatever
\* the others in the room do, and whoever comes, goes or hangs up.
DataIsOwn ==
    [][\A c \in Callers :
          /\ world'.connected /\ world'.location[c] = world.location[c]
          /\ world'.data[c] # world.data[c]
          => \/ \E k \in Keys : Key(c, k)
             \/ \E t \in Timers : TimerFires(c, t)]_vars

-----------------------------------------------------------------------------
(* What comments of the repository say, and the code does not do.          *)

\* location.py:255 has an "inter digit timer": a mode ends when no key
\* follows.  Keys may follow for ever.
ModesTimeOut ==
    \A c \in Callers, m \in Modes :
        m \in world.data[c].armed
            ~> \/ m \notin world.data[c].armed
               \/ c \notin up
=============================================================================
