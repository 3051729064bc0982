# Verification of baresip-villa

baresip-villa lets callers walk through a house by telephone. A C++ module in
the baresip SIP client answers calls and plays, records and mixes in what it is
told to; a Python process, the world, decides what every caller hears. The two
talk over one TCP connection. This directory models both in TLA+, checks small
instances with TLC and proves the central invariants with TLAPS.

## The system

| Part | Code | State | Operations |
| --- | --- | --- | --- |
| Audio queue of a call | `src/src/villa.cpp`, `villa.h`: `VQueue`, `Molecule`, `Play`, `Record` | one vector of molecules per priority, `_active` (a raw pointer into one), per molecule `_current` and two clocks, per atom `_audio`, two timers per `Record` | `enqueue`, `discard`, `discard_range`; end of file, DTMF, voice activity, timers; `schedule`, which they all end in |
| Calls | `villa.cpp`: `Sessions`, `PendingCalls`, `UserAgents` | a `Session` per answered call, a pointer per ringing one | `listen`, `answer`, `hangup`; incoming, closed, DTMF |
| Control connection | `villa_module.c`: `ctrl_st` | the open connection and its framing | accept (replaces the previous one), close, relay of events |
| JSON framing | `json_tcp.c` | receive buffer | send, receive, hello |
| VillaProtocol | `actor-v3/protocol.py` | `current_message`, `call_data`, `callers` | `data_received`, `connection_lost`, reconnection with a growing delay |
| Locations | `actor-v3/location.py` | callers of a room; per caller its location, timers, digits | enter, leave, move, DTMF, timers |
| CallerIterator | `location.py` | a position in a list that shrinks | next, prev, invalidate |
| Molecules, policies | `actor-v3/molecule.py` | none | build the arguments of `enqueue` |
| Elevator | `actor-v3/elevator.py` | stops, floor, direction | call, start, arrived |
| World | `actor-v3/villa.py` | map of rooms, callers | enter, leave, dialogs |

**Interaction.** baresip calls the module back in its main loop: when a call
comes in, ends, or a key is pressed, when a file ends, when a timer elapses,
when the connection has data. Every callback runs to its end, so one callback is
one step. The module answers each command with one response and sends events
unasked. The world runs an asyncio loop; one call of `data_received` handles any
number of messages, and is one step too.

**What is hard.** Pointers that outlive what they point to (`_active` when a
vector grows or shrinks, `PendingCalls` when a peer gives up, `Session::_jt`
when a connection is replaced, the timer of a destroyed `Record`); events that
arrive for something that is no longer current (an end of file after an
interruption); partial failures (a file that cannot be opened, a call that
cannot be answered, a discard of which only one result is kept); the world and
the server losing each other at any moment; a handler that returns early and
forgets the messages behind; a message that comes in two reads; an exception in
the handler of one caller's key, which closes the connection and so ends the
calls of all. `PROJECT.json` lists each at its line.

**What makes each part correct.**

* Queue: the active molecule is the first of the highest priority, and it is
  heard; a molecule leaves only when it is done, interrupted or discarded; its
  atoms are heard in order; nothing records for a molecule that is gone; the
  queue empties.
* Calls: a call is up exactly while it has a `Session`, nobody is left on the
  line when the world is gone, the world knows every `Session`, hears of an
  answer before anything else of that call, and every announced call is decided.
* Framing: every message arrives once, whole and in order, however it is cut.
* Locations: a caller is in exactly one room, and in its list; who moves is heard
  by those it leaves and those it joins; the background heard is that of the room;
  what a caller does at a place stays its own affair. A mode that a key began should
  end by its timer, too; it does not.
* CallerIterator: it keeps its place while others leave. That it visits everybody who
  stays, as its docstring has it, it does not. Elevator: it stops where it
  passes, in the order in which it passes.

## Modules

### VQueue

`session` is the `Session` object with its `VQueue`; each action is one command
(`Enqueue`, `DiscardRange`, `Discard`) or event (`EndOfFile`, `DtmfBegin`,
`VoiceActivity`, `RecordTimer`), with everything the code does for it, up to the
end of `schedule`.

* A molecule is named by the number of its `enqueue`. `Vector(q, p)` is the
  vector of a priority; `Address` gives the heap block and the slot of a
  molecule, `Target` what a pointer points to. `Push` moves a full vector to a
  free block, an erasure moves later elements down: `_active` then means another
  molecule or none, as it does in the code. Reading through a dangling pointer
  has every outcome the build can produce, a crash among them.
* `Unchecked` lets clients send what the commands fail to refuse: a negative priority
  or begin of a range, which indexes in front of the vectors (only `max_priority` is
  compared, `villa.cpp:897`), and an atom without a type, of which a string is made
  (`villa.cpp:933`). `Accepted` has -1 for all negative numbers. What is used unchecked
  is undefined (`Wild`), and the model takes it for a crash.
* `Schedule` returns the set of outcomes of `VQueue::schedule`. The code calls
  itself until a molecule starts; `Proceed` says the same in closed form, without
  recursion, so that it can be proved about. `VQueueMC!Recursive` is the literal
  recursion, and `ScheduleIsRecursive` compares the two in every reachable state.
* Playing times are left out. Where the code computes an atom from the clock,
  every atom the arithmetic can reach is an outcome (`Positions`, `Seekable`). The
  position is a remainder by the length of all files. That is 0 if there is no file
  (`DividesByZero`) or, when files may fail, if all are empty (`Divisor`, `Misread`).
* `open` are the atoms whose `_audio` is set; `source` and `player` what baresip
  plays from and records into.
* `pin`, `done` and `faults` exist for the properties only. `faults` names what
  puts the queue out of step, so that a property can say "unless". The exceptions are
  defects of the code, and the properties with "unless" say nothing of what follows
  them; `CrashNeedsFault` says that the process does not die of anything else that is
  modelled.
* `OwnEnd` and `StrayEnd` are the two ways in which an atom comes to its end: its own
  file, key or timer, or that of another that `schedule`, which is not told whose end
  it is, takes for its own. A stray end is the file of a discarded molecule that
  nobody stopped (the run `end_is_of_active`), or the timer of a `Record` that was
  interrupted. `AtomsInOrder` admits no third way, and no stray end for a file by
  another file.

### Player

`Player` is what a queue promises, without vectors, pointers, files and timers: items
with priorities, of which the earliest of the highest priority is heard, part by part.
Its actions are `Add` (a lower priority is interrupted, and leaves if it discards),
`End` (the next part, or the item is done), `RemoveRange`, `Remove` and `Pass` (nothing
the player cares about). `done` are the names a step reports, `inStep`
says for how long the promise is made. Two of its definitions are as weak as the code
is wrong. `Heirs`: the end of an item is reported under the name of the item behind it
in its priority and, if there is none, under its own or not at all, because
`molecule_done` is called with a slot that was erased. `End`: the player is told that
a part has ended, not which, and takes it for the part that is heard.

VQueue implements it (`QueueIsPlayer`) under this mapping: `items` are the queued
molecules with their atoms counted (`Items`), `heard` the current atoms of the
molecule at `_active` that baresip plays or records (`Audible`, which looks at the
pointer and at baresip, not at priorities), `done` the tokens that `molecule_done` sends
(`Told`; an empty one, `NoName`, is not sent), `inStep` that none of the named faults happened and no `Record` took the
player away. So `Next` asks more than that the right molecule is due: that
exactly the right ones leave, that one report is made where one is due, under no other
name than those above, and that all
others go on where they were. Two more things are as weak as the code: an item that seeks
(a loop with `m_mute` or `m_pause`) may go on anywhere when its turn comes, as its place
depends on the time; and an item without parts of a higher priority makes the item
that is heard seek without being interrupted.

### Calls

The life of a call between the server, the world and the peers. `call` is
baresip's view; `pending`, `sessions`, `tc` and `jt` the server's; `world` the
world's; `toServer` and `toWorld` the messages between. `Answer`, `Hangup` and
`Listen` are the branches of `villa_command_handler`; `Accept` and `Disconnected`
the two handlers of the listening socket and the connection, in any order;
`PeerCalls`, `PeerHangsUp` and `PeerDials` the event handlers. `WorldReads` is one
call of `data_received` with any number of messages: the recursive function in
`Handled` is the loop over them, and `left` its early `return`. `WorldIsLost` is a broken connection, an
exception in a handler (asyncio then closes the connection) or a restart of the
world; commands sent last may be lost.

baresip is not in the repository. Assumed of it, and marked external in the map:
before `answer` installs handlers a call that ends is freed without telling the
module; freed memory that is used crashes the process or goes unnoticed. A
message sent on a closed connection is lost.

### Framing and Channel

`Framing` is the connection as a stream: a message is three units (its JSON,
which can be cut in two, and the line end), a read takes any number of units off
the wire. `ServerReads` is `json_tcp_recv_handler`, `WorldReads` is
`data_received`, both loops as recursive functions over the
lines (`Split`, `Served`, `Handled`), with `rcvbuf` and
`current_message` kept as the code keeps them. The copy in `json_tcp.c:90`
between overlapping buffers (`memcpy`) is taken to be right.

`Channel` is what a connection promises: while it is open every message sent is
delivered once and in order, and what is sent is delivered at last. `Framing`
instantiates it for both directions, with `open` saying for how long the
promise is made. The server keeps it until the world fails. The world keeps it
while every read ends with a message and nothing follows, in the same read, the
hello or an event of an unknown call: `current_message` is never reset, so the
next message after a cut one cannot be decoded, and the two `return`s of the loop
skip what is behind. `HandledInOrder` says that even then nothing is handled
twice, unless both happened to one connection; the model checker found that
case.

### House and Villa

`world` is all objects of the actor: who is in the list of which room, where each
caller believes to be, its timers and digits there, the numbers of the rooms'
recordings, the backgrounds that repeat for it, and what the last step told each
caller. `Enter`, `Leave` and `Move` are the methods of `Location` and `Room`; the
handler of a key is one action (`MoveKey`, `DigitKey`, `Lookup`, `GiveUp`,
`BeginMode`, `AnnounceOthers`, `Help`, `Talk`, `OtherKey`), as are an answered
call, a hangup, a timer, the loss of the connection and its renewal. A method
that raises ends in `Raise`: nobody catches the exception, asyncio closes the
connection, and the server hangs up every call.

Four calls of the code always raise, and the model says so where they are:

* `Room.leave` calls `discard_range` with two policies, which `json.dumps`
  refuses. Leaving a room that has a background therefore ends all calls; as the
  Diele, where callers start, has one, nobody gets past its doors.
* `Location.starhash` gives `Teleporter` an argument it does not take.
* The second `4` in a room calls `Caller.stop`, which does not exist: only
  `molecule_done` would reset `tid_talk`, and no caller handles it.
* `LocationData.call_later` passes `self` twice, so that a timer calls its name.
  This one raises in the event loop, which logs it and goes on.

The event loop's handles of these timers keep a `LocationData` alive after its caller
has left, so that `__del__` does not cancel them: they fire later, raise as well, and
change nothing. `Leave` therefore drops them. `DataIsOwn` is about what a room keeps of
each caller (digits, mode, timers): nobody else's key, move, call or timer touches it.

`Villa` has the rooms, doors, backgrounds and shortcuts of `villa.py`, as values
for the constants of `House`. `Doors` folds the calls of `connect` in order: the
door from the terasse back to the flur is replaced by the one to the salon, and
none leads to the bibliothek.

### CallerIterator and Elevator

Two classes that are written but not used: nothing creates an iterator
(`it_callers` is `None` everywhere), and the line that builds the elevator is
commented out. `CallerIterator` models `next`, `prev` and `invalidate` over a list
that callers enter and leave, with the two exceptions it can raise. The docstring
(`location.py:8-10`) wants a cyclic walk that supports deletion. `next` is not that:
after one of the last two callers was removed the comparison in `location.py:25` takes
it over a caller who is still there, and with one caller left it raises. As the
class is used nowhere the model shows this as it is, and `PlaceIsKept` says what does
hold: whoever leaves, the iterator's position is still that of the caller it returned
last or, after that one left, that of who followed. `Elevator`
models `call`, `start` and the timer, which never reaches `arrived`.

### Molecules

The policies and classes of `molecule.py`, as the shapes that `VQueueMC` gives to
the queue.

### MC and proof modules

`VQueueMC`, `CallsMC`, `HouseMC` and `SparesMC` hold what the runs instantiate
(`SparesMC` puts the two unused classes side by side). The theorems are in
`VQueueProofs`, `VQueueDue` and `VQueueSteps`, each of which extends the one before,
`CallsProofs`, `HouseProofs`, `SparesProofs` and `FramingProofs`; `Lemmas` has the
induction and the facts about lists that several of them need.

## Runs

| Run | Shows |
| --- | --- |
| `queue_any` | Everything a client may enqueue, with files that fail to open: types, ownership of recorder and timers, what it takes to crash (a stale pointer, a failed start, missing or empty files, a loop without a file, a parameter nobody checks), and that the closed form of `schedule` is the code's recursion. |
| `queue_actor` | With the shapes the actor enqueues: the active molecule is the one that is due and is heard, order within a priority, when a molecule may leave, that atoms are heard in order and move on only at their own end or at one of the two stray ones, and that every step is one of `Player`. |
| `queue_drains` | Once the client stops, everything queued gets its turn and leaves. |
| `calls` | Two calls, three connections: sessions, calls, connection and the world's callers agree, under every order of events, lost connections and late closes; an announced call is answered, rejected or over, eventually. |
| `house` | Two callers in a hall, a garden and a salon with a background: lists and locations agree, what is announced is so, moves are heard, recordings do not collide, and what is kept of a caller is changed by nobody else. |
| `framing` | Two commands and three events, cut and joined in every way: the server's side implements the channel, the world's does under the conditions above. |
| `spares` | The iterator keeps its place while callers enter and leave, the elevator's stops are in order. |
| `done_names_finished` (violation) | `molecule_done` is called with the slot of a molecule already erased, and names its successor, or nobody. |
| `end_is_of_active` (violation) | An end of file of a molecule that was discarded without being stopped moves the active one on. |
| `all_are_hung_up` (violation) | "hangup all calls": ringing ones are not. |
| `closed_is_handled` (violation) | `event_call_closed` is never called, so callers of closed calls stay. |
| `villa_timers` (violation) | In the Villa itself, a mode that 5 or * began does not end, although the timer fires. |

**Bounds.** Queue: two priorities are what preemption takes. Three molecules in
`queue_actor` give one active, one interrupted and one waiting, two of them of
one priority, so that a vector grows under `_active` (capacity 1 to 2) and an
erasure moves a successor. Three heap blocks for two vectors: a growing vector
always finds one, and may find the one another gave up. The run reaches every
action of `Player`; no item of the actor wraps, which only the theorem covers. `queue_any`
takes two molecules, but of all shapes, lets every start fail, and is the one run in
which parameters are `Unchecked`: after these the queue is lost, and the other runs
are about what it does while it lasts. Blocks are symmetric,
and symmetry is used only where no liveness is checked.
Calls: two calls give one that is up and one that rings, which is what losing the
world and replacing a connection treat differently. Three connections let a
`Session` survive a replacement and the one that replaced it close. `MaxWire`
bounds only what is sent unasked (keys, hangups of the world); responses and
calls are never held back, so that the bound cannot hide a lost answer. Both
modules stop when commands, calls and connections are used up, hence
`CHECK_DEADLOCK FALSE`.
House: two callers are one who acts and one who hears; of the rooms one can be
left, one cannot and one is for both ways between. The instance is not the Villa,
as there every move fails; `villa_timers` takes the Villa. Keys stand for their
kinds: 6 and 4 are directions too. `MaxDigits` and `MaxTalks` end what would grow
for ever; two recordings are what two callers, or one that comes back, need. An
id of a call stands for a new call once it is over, so that the run needs no
bound on calls, and never deadlocks.
Framing: three events are a hello, one that may make the loop return, and one
behind it; a cut, and what the next read makes of the part that is kept, take two.
Spares: four callers, as what `next` does after its caller left depends on whether
that was among the last two; two floors in each direction.

**Fairness.** Queue: a file that plays ends (`EndOfFile`), and the timer of a
maximal length elapses (`LengthTimer`); silence, keys and commands may never
come. That is why `Drains` is about molecules that do not loop and Records with a
maximal length, which the actor always gives. Calls: each process runs an event
loop, so what has arrived is handled (`ServerHandles`, `WorldReads`); no peer has
to hang up, and the world need not come back. House: the event loop fires the timers
that are due; callers need not press anything. Framing: both event loops read what
has arrived; nobody has to send.
`Drains` assumes nothing about when the client stops; it starts from "no command
from some point on".

## Proofs

All for any number of priorities, molecules, ids, shapes, blocks, calls,
connections, callers, rooms, floors and messages, from the named assumptions on the
constants only. Every invariant and every action property of the runs that pass is
proved, but for `ScheduleIsRecursive`; so is the refinement of `Player`, and that of
`Channel` up to its fairness.

### The queue

* `VQueueProofs`: `SessionStaysConsistent`, `TypesAreKept`, `RecordingsAreOwned`.
  Neither types nor the ownership of the recorder are inductive: types do not say
  which molecule an atom belongs to, so an erasure could leave an open atom behind.
  `Consistent` adds that the atoms of a molecule carry its serial, that only atoms of
  queued molecules are open, and that what is recorded into is an open `Record`.
  There is one lemma per helper (`StopRecordsKeeps`, `DestroyKeeps`,
  `FinishKeeps`, ...), one per part of `schedule` (`BeginKeeps`, `ProceedKeeps`,
  `SettleKeeps`, `LeaveKeeps`), one per action. The theorem about the recorder holds
  even when pointers dangle and files fail.
* `VQueueDue`: `ActiveStaysDue`, the scheduling promise. Within a step the active
  molecule need not be the one that is due; the molecule that preempts it may
  just have been pushed. `Ready` is what `schedule` needs of its input: the active
  molecule is the first of its own priority. From `Ready`, `ScheduleIsDue` shows
  that every outcome is `Due`. `Kept` says that no part of `schedule` moves a vector
  or ends a fault, `Apart` that two vectors never share a block, so that addresses
  name molecules (`AddressInjective`). Commands and events that do not call
  `schedule` are shown to change nothing the order depends on (`Mirrors`). The
  invariant between steps is `Steady`, together with serials not exceeding the
  count of commands.
* `VQueueSteps`: four invariants, two action properties and the refinement of `Player`
  from one invariant.
  `Good` is `Steady` and, for a queue no pointer or file put out of step (`Sound`),
  three parts that need each other. `Heard`: the molecule at `_active` is at an atom,
  that atom is open, and unless another `Record` stopped the player it is what is
  heard. `Entire`: every molecule with atoms is at one of them. `Tidy`: nobody started
  before an earlier molecule of its priority, timers are of open Records, open atoms
  are of their molecules. Within a step `schedule` may have left the molecule it is
  about, which is why `EntireBut` excepts it. `Went` says what one run of `schedule`
  does to molecules and positions, and each action is shown to be one `Went` and its
  own change (`Occurs`, `Discards`, `Enqueues`). Of these follow `ActiveStaysHeard`,
  `StartsStayInOrder` and `TimersStayOwned`, and the action properties
  `LeavingStaysDone` and `AtomsStayInOrder`. `AtomsStayInOrder` needs of
  each event whose end it is: `Aired` says that a file plays only while the active
  molecule is at it, or at a Record, `EventEnds` that every event that moves a molecule
  on is then an `OwnEnd` or a `StrayEnd`. `CrashesStayExplained` takes a second
  invariant (`Explained`): a crashed queue has one of the faults it names, or a
  loop without a sound; the lemmas follow each place where the model crashes back
  to what put it there, which for a sound queue is never a pointer.

* The refinement, `QueueStaysPlayer`, in the last part of `VQueueSteps`. It needs to
  know of a step not only what it may do to molecules (`Went`) but what exactly it does.
  `Played` says so of one run of `schedule`: who is in the queue afterwards
  (`Onward` is where the molecule that ended goes on, or nowhere), that each is the same
  molecule (`Same`) and at its place unless it seeks and is due (`Stays`), and
  `Reports` which tokens are sent: one of the `SlotIds` of the one who left, which
  `HeirsAreSlotIds` shows to be the `Heirs` of its item; `Recounts` and `DoneReports`
  carry that from `done` to `Told`. An event that
  does not come to `schedule` is `Rested`; a discard is `Cleared` of exactly the range or
  of `Firsts`, the first molecule of that id of each priority; an enqueue first
  `Grows` and then waits or interrupts (`Joins`). That the new
  molecule begins with its first atom, even if it loops, is `Fresh`. Each of these is then
  a step of the player (`EventPlays`, `RangePlays`, `RemovePlays`, `EnqueuePlays`);
  `HeardIsDue` is the conjunct about what is heard, from `Due` and `Heard`; and
  `NextFaultless` says that faults do not go away, so that a queue in step after a
  command was so before.

### Calls

* The server's part of `CallsProofs`: `SessionsStayUp`, `NobodyStays`,
  `SessionsStayConnected` and `CrashesNeedFaults` follow from `ServerIsConsistent`,
  which adds to them that a pending call was never answered, that whatever is up has
  a `Session`, and that there is none without an open connection. Nothing is assumed
  about the world: any commands may arrive, in any order.
* The messages: `TypesStay`, `SessionsStayKnown`, `AnswersStayExpected` and
  `EventsStayBehindAnswer` follow from `WireIsConsistent`, which is inductive together
  with `ServerIsConsistent`. The last three say what is true of the messages as
  they arrive; to keep them, the invariant says where a call is between the server and
  the world (`StagesAreOrdered`): announced once, asked for once after that, answered
  once after that, and never two of these on the wire. Otherwise a second `answer`
  could find its call no longer in `call_data`. `HelloIsFirst` is there because
  `data_received` returns at the hello: were anything known before it, a response
  behind it could be lost. One read handles any number of messages; `MadeOf` is the
  invariant of that loop, what is true after k messages of what the world knows and
  sent.

### The house

* `HouseProofs`: six theorems from one invariant, `HouseIsOrderly`, about any house.
  `Orderly` says of any world a handler may be at, and not only of the one between
  steps, that lists and locations agree (`Placed`), that backgrounds fit
  (`Looping`), that recordings have one of the numbers their room gave (`Numbered`,
  without which `TalksAreOwn` is not inductive) and that nobody is anywhere without
  a connection (`Emptied`). There is one lemma per helper (`EnterKeeps`,
  `LeaveKeeps`, `MoveKeeps`, `TellKeeps`, ...), which also say what was told;
  `AppendToList` and `RemoveFromList` are about the lists, `ListCounts` that the
  length of a list without repetition is the number of who is there. One lemma per
  action shows the step `Fair`: it keeps the invariant, what it announces is so,
  and it lets moves be heard. From that follow `CallersAreSomewhere`,
  `BackgroundsFit`, `TalksStayOwn`, `AnnouncementsAreTrue` and the action property
  `DoorsStayHeard`. That the doors lead to rooms is assumed (`DoorsAssumption`) and
  evaluated for both houses.
* `DataStaysOwn`, an action property: `Spares(v, w, c)` says that a handler on
  behalf of c leaves the data of all others as it was, or raised and so ended all
  calls; it is shown of every helper, and of every handler with them (`DataStep`,
  `StepSparesData`). A timer is the timer of one caller, and nothing is armed without a
  connection (`Stopped`).

### Framing

* `FramingProofs`: the wire is described by a position. `Piece(ms, p)` is unit p of
  the messages ms, one after the other, `Following(w, ms, p)` says that w is what
  comes from there, `Begun(m, o)` the first o units of m. `SplitPasses`,
  `ServedPasses` and `HandledPasses` unfold the three recursive functions;
  `SplitAligned`, `ServedAligned` and `HandledAligned` are the loop invariants when what
  is read begins with a message, `HandledBroken` when it does not. The invariant
  `Steady` says that `rcvbuf` is `Begun` of the next command. On the world's side there
  are two cases, as `current_message` is never reset: `Healthy`, where it is what was
  read of the next event, and `Broken`, where it is longer than that, so that the next
  line is no message and raises. Without the second case the invariant is not
  inductive: the read that completes a cut event leaves the part of it that was
  kept before, and from then on the world is `Broken`.
* From that `ServerKeepsChannel` and `WorldKeepsChannel`: the refinements of `Channel`,
  initial states and every step (sending is `Send`, a read delivers some messages or
  none, a failure closes the channel), and `HandledStaysInOrder`, which needs in
  addition what is true when only one of the two faults happened (`UpTo`, and what
  was handled being the first of what was sent).

### Iterator and elevator

* `SparesProofs`: `StopsStayOrdered` from `ElevatorIsSteady` (a standing elevator has no
  stops, else an insertion would take its direction from nothing); `Inserted` and
  `Removed` say what that does to any list. `PlaceStaysKept`,
  that the iterator keeps its place, from `WalkIsSteady`: `Behind(k, s, r)` says that
  those yet to come are the callers behind the first k of the list, with k the position
  or, while the caller returned last is still there, one more. `BehindIsPart` makes of
  that a part of the list.

### Lemmas

Induction is over sets, not over operators: `SetInduction` is applied to the set of
the numbers of passes after which a loop invariant holds. `Iteration` shows that a
loop has an outcome, and `OneOutcome` that it has one only, so that a function
defined by recursion (`at[i] == IF i = 0 THEN ... ELSE ... at[i - 1] ...`) can be
replaced by its equations. This is what the proofs about reads rest on, in Calls and
in Framing.

### Only model-checked

* All liveness, which is out of the prover's reach: `Drains`, `CallsAreDecided`, and the
  fairness in `ServerIsChannel` and `WorldIsChannel` (that what was sent is delivered
  at last). The theorems state the rest of these two.
* `ScheduleIsRecursive`: it compares with a RECURSIVE operator, which the prover does
  not accept; as a function it would have the states of a queue as its domain, which
  is not what the code's recursion is over.
* The properties of the five runs that expect a violation, which the code does not have.

## Not modelled, and why

* Bytes of JSON and wording of responses: they carry nothing but what `Command`,
  `Event` and `Response` have. Of the commands with missing or wrongly typed
  parameters, those that are answered with an error change nothing and are left out;
  those that are not refused although they should be are in VQueue (`Unchecked`).
* `m_dont_interrupt` and `m_dtmf_stop`: parsed, but no code asks for them.
* `DBEntryDialog`, `EntryDialog`, `Schreibtisch`: they use attributes no class has
  (`mailbox`, `startDialog`, `details`), and nothing constructs them.
* `Location.event_molecule_done` and `event_dtmf_end`: events are looked up on the
  `Caller`, which has neither.
* `fahrstuhl.py`: imported nowhere, and no Python, as its indentation mixes tabs and
  blanks.
* The growing delay between attempts to connect: time is not modelled, a
  disconnected world comes back at any moment.
* Files and database: what callers recorded is never read back.
* `message_handler` of `villa_module.c`: registered nowhere.
* `CMakeLists.txt`, `create.sql`: no behaviour.

## Plan

Done: **VQueue** against **Player**, **Calls**, **House**, **Framing** against **Channel**, **CallerIterator**,
**Elevator**, **Molecules**, **Villa**, and the proofs of all their invariants and action
properties. What is left, in this order:

1. **Walk**, composing House with Player: what is heard after a
   move to a room, transition and background together.
2. **MoleculeClock**: positions and lengths in milliseconds with unsigned
   arithmetic, against the set of atoms `Positions` allows.
