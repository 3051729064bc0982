------------------------------- MODULE Calls -------------------------------
(***************************************************************************)
(* The life of a phone call, from ringing to its end, between three        *)
(* parties: the villa module in the baresip process (`Sessions' and        *)
(* `PendingCalls' of src/src/villa.cpp, the control connection of          *)
(* src/src/villa_module.c), the world that decides about calls             *)
(* (VillaProtocol of src/actor-v3/protocol.py) and the peers that call.    *)
(*                                                                         *)
(* Server and world talk over one TCP connection at a time.  The world can *)
(* lose it, or die, at any moment, and comes back with a new connection,   *)
(* which the server may accept before or after it notices that the old one *)
(* is closed: the two are events of different sockets.                     *)
(*                                                                         *)
(* baresip is not part of the repository.  What is assumed of it: until a  *)
(* call is answered its events go to baresip itself, which frees a call    *)
(* that ends; afterwards they go to the handler that `answer' installs.    *)
(*                                                                         *)
(* Left out: the audio queue of a session (module VQueue), which no step   *)
(* of this module depends on, and how messages are cut into segments.      *)
(***************************************************************************)
EXTENDS Integers, SequencesExt

CONSTANTS
    CallIds,     \* the calls that peers make
    MaxConns,    \* BOUND: number of connections of the world
    MaxWire      \* BOUND: messages on the wire at which nobody sends unasked

Conns == 1 .. MaxConns

ASSUME BoundsAssumption == MaxConns \in Nat /\ MaxWire \in Nat

VARIABLES
    call,       \* state of each call in baresip
    agents,     \* whether a user agent listens for calls (UserAgents)
    pending,    \* PendingCalls: calls the server holds a pointer to
    sessions,   \* Sessions: the connection each Session sends its events on
    tc, jt,     \* ctrl_st: the open connection and its framing, 0 for null
    crashed,    \* the server used memory it does not own
    world,      \* the world's side, see World
    toServer,   \* commands on the wire
    toWorld,    \* responses and events on the wire
    faults      \* for the properties: what went wrong so far, see Faults

vars == <<call, agents, pending, sessions, tc, jt, crashed, world, toServer, toWorld, faults>>

\* "gone"      the server answered or rejected a call that had already ended
\* "replaced"  a connection was accepted while sessions used the previous one
\* "refused"   baresip could not answer a call
Faults == {"gone", "replaced", "refused"}

Command == [type : {"listen"}] \cup [type : {"answer", "hangup"}, id : CallIds]
Event   == [type : {"version"}] \cup [type : {"call_incoming", "call_closed", "dtmf"}, id : CallIds]
Response == [type : {"response"}, to : Command, ok : BOOLEAN]

\* conn is the connection of the VillaProtocol object, 0 if it lost it,
\* data and callers are its call_data and callers.
World == [conn : 0 .. MaxConns, data : SUBSET CallIds, callers : SUBSET CallIds]

Live == DOMAIN sessions

-----------------------------------------------------------------------------
(* The server sends.                                                       *)

\* json_tcp_send on st->jt: lost if the world has closed the connection.
Sent(messages) == IF world.conn = jt THEN toWorld \o messages ELSE toWorld

\* An event of the Session of c, and the response to the command that caused
\* it, if one did.  If its _jt was freed the process may crash,
\* or the event may be lost, or go to the connection whose framing was
\* allocated in the freed block.
EmitFor(c, event, response) ==
    \/ toWorld' = Sent(<<event>> \o response) /\ UNCHANGED crashed
    \/ sessions[c] # jt /\ toWorld' = Sent(response) /\ crashed' \in BOOLEAN

Closed(c) == [type |-> "call_closed", id |-> c]

\* Mutant of Erased: the session is erased, but its call goes on.
ErasedOnly(C) == call' = call /\ sessions' = Restrict(sessions, Live \ C)

\* Session::hangup and erasure of the sessions of C.
Erased(C) == /\ call' = [c \in CallIds |-> IF c \in C THEN "over" ELSE call[c]]
             /\ sessions' = Restrict(sessions, Live \ C)

-----------------------------------------------------------------------------
(* Commands: villa_command_handler.                                        *)

Receive(m) ==
    /\ ~crashed /\ tc # 0 /\ toServer # <<>>
    /\ m = Head(toServer)
    /\ toServer' = Tail(toServer)
    /\ UNCHANGED <<tc, jt, world>>

Reply(m, ok) == [type |-> "response", to |-> m, ok |-> ok]

Listen ==
    \E m \in {[type |-> "listen"]}, ok \in BOOLEAN :
        /\ Receive(m)
        /\ agents' = (agents \/ ok)
        /\ toWorld' = Sent(<<Reply(m, ok)>>)
        /\ UNCHANGED <<call, pending, sessions, crashed, faults>>

\* Mutant of Opened: the move forgets the connection.
OpenedNull(c) == [x \in Live \cup {c} |-> IF x = c THEN 0 ELSE sessions[x]]

\* The Session that is moved into Sessions.
Opened(c) == [x \in Live \cup {c} |-> IF x = c THEN jt ELSE sessions[x]]

\* A call that ended while it was pending is answered through a pointer to
\* memory that was freed: a crash, or either result.
Answer(c) ==
    \E m \in {[type |-> "answer", id |-> c]}, ok \in BOOLEAN :
        LET gone == c \in pending /\ call[c] = "over"
        IN  /\ Receive(m)
            /\ ok => c \in pending
            /\ call' = [call EXCEPT ![c] = IF ok /\ ~gone THEN "up" ELSE @]
            /\ sessions' = IF ok THEN Opened(c) ELSE sessions
            /\ pending' = pending \ {c}
            /\ crashed' \in {FALSE, gone}
            /\ toWorld' = Sent(<<Reply(m, ok)>>)
            /\ faults' = faults \cup {f \in Faults : \/ f = "gone" /\ gone
                                                     \/ f = "refused" /\ c \in pending /\ ~ok}
            /\ UNCHANGED agents

\* Mutant of Hangup: only sessions are hung up.
HangupSessions(c) ==
    \E m \in {[type |-> "hangup", id |-> c]} :
        /\ Receive(m)
        /\ \/ /\ c \in Live
              /\ Erased({c})
              /\ EmitFor(c, Closed(c), <<Reply(m, TRUE)>>)
           \/ /\ c \notin Live
              /\ toWorld' = Sent(<<Reply(m, TRUE)>>)
              /\ UNCHANGED <<call, sessions, crashed>>
        /\ UNCHANGED <<agents, pending, faults>>

\* A pending call that is rejected stays in PendingCalls.  The response is
\* the same when no such call is known.
Hangup(c) ==
    \E m \in {[type |-> "hangup", id |-> c]} :
        /\ Receive(m)
        /\ \/ /\ c \in Live
              /\ Erased({c})
              /\ EmitFor(c, Closed(c), <<Reply(m, TRUE)>>)
              /\ UNCHANGED faults
           \/ LET gone == c \in pending /\ call[c] = "over"
              IN  /\ c \notin Live
                  /\ call' = [call EXCEPT ![c] = IF c \in pending THEN "over" ELSE @]
                  /\ crashed' \in {FALSE, gone}
                  /\ toWorld' = Sent(<<Reply(m, TRUE)>>)
                  /\ faults' = IF gone THEN faults \cup {"gone"} ELSE faults
                  /\ UNCHANGED sessions
        /\ UNCHANGED <<agents, pending>>

-----------------------------------------------------------------------------
(* The control connection: tcp_conn_handler, tcp_close_handler.            *)

\* A new connection.  A previous one that is still open is dropped without
\* a call of tcp_close_handler.  The world gets a new VillaProtocol.
Accept ==
    /\ world.conn = 0 /\ ~crashed /\ jt < MaxConns
    /\ tc' = jt + 1 /\ jt' = jt + 1
    /\ world' = [conn |-> jt', data |-> {}, callers |-> {}]
    /\ toWorld' = <<[type |-> "version"]>>
    /\ toServer' = <<[type |-> "listen"]>>
    /\ faults' = IF tc # 0 /\ Live # {} THEN faults \cup {"replaced"} ELSE faults
    /\ UNCHANGED <<call, agents, pending, sessions, crashed>>

\* Mutant of Disconnected: the sessions stay.
DisconnectedOnly ==
    /\ ~crashed /\ tc # 0 /\ world.conn # tc /\ toServer = <<>>
    /\ tc' = 0
    /\ UNCHANGED <<call, agents, pending, sessions, jt, crashed, world, toServer, toWorld, faults>>

\* The server notices that the connection is closed: villa_tcp_disconnected.
Disconnected ==
    /\ ~crashed /\ tc # 0 /\ world.conn # tc /\ toServer = <<>>
    /\ Erased(Live)
    /\ tc' = 0
    /\ crashed' \in {FALSE, \E c \in Live : sessions[c] # jt}
    /\ UNCHANGED <<agents, pending, jt, world, toServer, toWorld, faults>>

-----------------------------------------------------------------------------
(* Peers and their calls: villa_event_handler, villa_call_event_handler,   *)
(* villa_dtmf_handler.                                                     *)

PeerCalls(c) ==
    /\ ~crashed /\ agents /\ call[c] = "new"
    /\ call' = [call EXCEPT ![c] = "ringing"]
    /\ pending' = pending \cup {c}
    /\ toWorld' = Sent(<<[type |-> "call_incoming", id |-> c]>>)
    /\ UNCHANGED <<agents, sessions, tc, jt, crashed, world, toServer, faults>>

\* The peer gives up before it was answered: baresip frees the call, and
\* nobody tells the server's PendingCalls.
PeerGivesUp(c) ==
    /\ ~crashed /\ call[c] = "ringing"
    /\ call' = [call EXCEPT ![c] = "over"]
    /\ UNCHANGED <<agents, pending, sessions, tc, jt, crashed, world, toServer, toWorld, faults>>

\* CALL_EVENT_CLOSED of an answered call.
PeerHangsUp(c) ==
    /\ ~crashed /\ call[c] = "up"
    /\ Erased({c})
    /\ EmitFor(c, Closed(c), <<>>)
    /\ UNCHANGED <<agents, pending, tc, jt, world, toServer, faults>>

PeerDials(c) ==
    /\ ~crashed /\ call[c] = "up"
    /\ Len(toWorld) < MaxWire
    /\ EmitFor(c, [type |-> "dtmf", id |-> c], <<>>)
    /\ UNCHANGED <<call, agents, pending, sessions, tc, jt, world, toServer, faults>>

-----------------------------------------------------------------------------
(* The world: VillaProtocol.                                               *)

\* Mutant of Handle: the details of an incoming call are not kept.
HandleNoData(yes, at, m) ==
    IF at.left THEN at ELSE
    CASE m.type = "call_incoming" ->
            [at EXCEPT !.out = Append(@, [type |-> "answer", id |-> m.id])]
      [] OTHER -> [at EXCEPT !.left = m.type = "version"]

\* Mutant of Handle: an accepted caller is not remembered.
HandleNoCaller(yes, at, m) ==
    IF at.left THEN at ELSE
    CASE m.type = "call_incoming" ->
            [at EXCEPT !.world.data = @ \cup {m.id},
                       !.out = Append(@, [type |-> "answer", id |-> m.id])]
      [] OTHER -> [at EXCEPT !.left = m.type = "version"]

\* What data_received makes of one message of a read: `yes' are the calls
\* that accept_incoming accepts, `out' the commands that are sent, `left'
\* that the function has returned and the rest of the read is forgotten.
Handle(yes, at, m) ==
    IF at.left THEN at ELSE
    CASE m.type = "version" -> [at EXCEPT !.left = TRUE]
      [] m.type = "call_incoming" ->
            [at EXCEPT !.world.data = @ \cup {m.id},
                       !.out = Append(@, [type |-> IF m.id \in yes THEN "answer" ELSE "hangup",
                                          id   |-> m.id])]
      [] m.type = "response" ->
            IF m.to.type = "answer" /\ m.ok
            THEN [at EXCEPT !.world.data = @ \ {m.to.id},
                            !.world.callers = @ \cup {m.to.id}]
            ELSE at
      [] m.type \in {"dtmf", "call_closed"} ->
            [at EXCEPT !.left = m.id \notin at.world.callers]

\* The loop of data_received over the first n messages.
Handled(yes, n) ==
    LET at[i \in 0 .. n] == IF i = 0 THEN [world |-> world, out |-> <<>>, left |-> FALSE]
                                     ELSE Handle(yes, at[i - 1], toWorld[i])
    IN  at[n]

\* The calls that the first n messages announce.
AnnouncedIn(n) == {c \in CallIds : \E i \in 1 .. n : toWorld[i] = [type |-> "call_incoming", id |-> c]}

\* One call of data_received, with the first n messages.
Read(n) ==
    \E yes \in SUBSET AnnouncedIn(n) :
        /\ world' = Handled(yes, n).world
        /\ toServer' = toServer \o Handled(yes, n).out

WorldReads ==
    /\ world.conn # 0
    /\ \E n \in 1 .. Len(toWorld) :
          /\ Read(n)
          /\ toWorld' = SubSeq(toWorld, n + 1, Len(toWorld))
    /\ UNCHANGED <<call, agents, pending, sessions, tc, jt, crashed, faults>>

\* A dialog hangs up its caller.
WorldHangsUp(c) ==
    /\ world.conn # 0 /\ c \in world.callers
    /\ Len(toServer) + Len(toWorld) < MaxWire
    /\ toServer' = Append(toServer, [type |-> "hangup", id |-> c])
    /\ UNCHANGED <<call, agents, pending, sessions, tc, jt, crashed, world, toWorld, faults>>

\* The connection breaks, or the process of the world dies and is started
\* again.  Commands it sent last may be lost.
WorldIsLost ==
    /\ world.conn # 0
    /\ world' = [conn |-> 0, data |-> {}, callers |-> {}]
    /\ \E n \in 0 .. Len(toServer) : toServer' = SubSeq(toServer, 1, n)
    /\ toWorld' = <<>>
    /\ UNCHANGED <<call, agents, pending, sessions, tc, jt, crashed, faults>>

-----------------------------------------------------------------------------
Init ==
    /\ call = [c \in CallIds |-> "new"]
    /\ agents = FALSE /\ pending = {} /\ sessions = [c \in {} |-> 0]
    /\ tc = 0 /\ jt = 0 /\ crashed = FALSE
    /\ world = [conn |-> 0, data |-> {}, callers |-> {}]
    /\ toServer = <<>> /\ toWorld = <<>> /\ faults = {}

ServerHandles == Listen \/ \E c \in CallIds : Answer(c) \/ Hangup(c)

Next ==
    \/ ServerHandles
    \/ Accept \/ Disconnected
    \/ \E c \in CallIds : PeerCalls(c) \/ PeerGivesUp(c) \/ PeerHangsUp(c) \/ PeerDials(c)
    \/ WorldReads \/ WorldIsLost
    \/ \E c \in CallIds : WorldHangsUp(c)

Spec == Init /\ [][Next]_vars

\* Both processes run event loops that handle what has arrived.
LiveSpec == Spec /\ WF_vars(ServerHandles) /\ WF_vars(WorldReads)

-----------------------------------------------------------------------------
(* Properties.                                                             *)

\* Every variable has its type.
TypeOK ==
    /\ call \in [CallIds -> {"new", "ringing", "up", "over"}]
    /\ agents \in BOOLEAN /\ crashed \in BOOLEAN
    /\ pending \subseteq CallIds
    /\ Live \subseteq CallIds /\ sessions \in [Live -> Conns]
    /\ tc \in 0 .. MaxConns /\ jt \in 0 .. MaxConns
    /\ world \in World
    /\ toServer \in Seq(Command) /\ toWorld \in Seq(Event \cup Response)
    /\ faults \subseteq Faults

\* The calls that are up are those with a Session, so that each of them is
\* hung up by somebody: no caller is left in a silent line and no Session is
\* left without its call, unless one was made for a call that had ended.
SessionsAreUp == "gone" \notin faults => Live = {c \in CallIds : call[c] = "up"}

\* Once the server knows that the world is gone no caller is kept on the line,
\* and none gets in before the next connection.
NobodyIsKept == tc = 0 => \A c \in CallIds : call[c] # "up"

\* A Session sends its events on the connection that is open, the one its
\* caller was answered from, unless that was replaced under it.
SessionsAreConnected == "replaced" \notin faults => \A c \in Live : sessions[c] = jt /\ tc = jt

\* The server survives unless it answered or rejected a call that had ended,
\* or a new connection replaced one that sessions still used.
CrashNeedsFault == crashed => faults \cap {"gone", "replaced"} # {}

\* The inductive invariant behind the theorems of CallsProofs: besides the
\* properties above, a pending call was not answered, a call that is up has a
\* Session, and without an open connection there is none.
ServerIsConsistent ==
    /\ call \in [CallIds -> {"new", "ringing", "up", "over"}]
    /\ Live \subseteq CallIds /\ sessions \in [Live -> Conns]
    /\ faults \subseteq Faults /\ crashed \in BOOLEAN
    /\ jt \in 0 .. MaxConns /\ tc \in {0, jt}
    /\ \A c \in pending : c \in CallIds /\ call[c] \in {"ringing", "over"}
    /\ \A c \in CallIds : call[c] = "up" => c \in Live
    /\ tc = 0 => Live = {}
    /\ SessionsAreUp /\ SessionsAreConnected /\ CrashNeedsFault

Answered(c, i) == /\ toWorld[i].type = "response" /\ toWorld[i].ok
                  /\ toWorld[i].to = [type |-> "answer", id |-> c]

\* The world knows of every Session its commands have made, or is about to:
\* the response is not lost in a read that returns early, unless the event of
\* a Session of a replaced connection came first.
SessionsAreKnown ==
    "replaced" \notin faults =>
        \A c \in Live : sessions[c] = world.conn =>
            c \in world.callers \/ \E i \in DOMAIN toWorld : Answered(c, i)

\* When the response to an answer arrives, call_data still has its call:
\* otherwise response_received raises a KeyError, and asyncio closes the
\* connection.
AnswersAreExpected ==
    \A i \in DOMAIN toWorld, c \in CallIds : Answered(c, i) =>
        c \in world.data /\ \A j \in DOMAIN toWorld : Answered(c, j) => i = j

\* The world hears of an answered call before any event of it, so that
\* data_received never returns early for one, and forgets the rest of a read
\* only behind the hello of a connection.
EventsFollowAnswer ==
    "replaced" \notin faults =>
        \A i \in DOMAIN toWorld, c \in CallIds :
            toWorld[i].type \in {"dtmf", "call_closed"} /\ toWorld[i].id = c =>
                c \in world.callers \/ \E j \in 1 .. (i - 1) : Answered(c, j)

Incoming(c, i) == toWorld[i] = [type |-> "call_incoming", id |-> c]
Asked(c, i) == toServer[i] = [type |-> "answer", id |-> c]

\* Every message is one of the protocol's, and a world without a connection
\* has nothing: what was sent before it was lost does not reach the next one.
WireIsTyped ==
    /\ agents \in BOOLEAN /\ pending \subseteq CallIds /\ world \in World
    /\ toServer \in Seq(Command) /\ toWorld \in Seq(Event \cup Response)
    /\ world.conn \in {0, jt} /\ (jt = 0 => ~agents)
    /\ world.conn = 0 => toWorld = <<>> /\ world.data = {} /\ world.callers = {}

\* The hello is the first message, and no call is known before it is read.
HelloIsFirst ==
    \A i \in DOMAIN toWorld :
        toWorld[i].type = "version" => i = 1 /\ world.data = {} /\ world.callers = {}

\* A call is announced once, asked for once after that, and the response
\* comes after that: no two of the three are on the wire at a time.
StagesAreOrdered(c) ==
    /\ \A i, j \in DOMAIN toWorld : Incoming(c, i) /\ Incoming(c, j) => i = j
    /\ \A i, j \in DOMAIN toServer : Asked(c, i) /\ Asked(c, j) => i = j
    /\ \A i \in DOMAIN toWorld : Incoming(c, i) \/ Answered(c, i) => call[c] # "new"
    /\ \A i, j \in DOMAIN toWorld : ~(Incoming(c, i) /\ Answered(c, j))
    /\ \A i \in DOMAIN toServer :
          Asked(c, i) => /\ call[c] # "new" /\ (world.conn # 0 => c \in world.data)
                         /\ \A j \in DOMAIN toWorld : ~Incoming(c, j) /\ ~Answered(c, j)

\* What is inductive of the messages, together with ServerIsConsistent.
WireIsConsistent ==
    /\ WireIsTyped /\ HelloIsFirst /\ \A c \in CallIds : StagesAreOrdered(c)
    /\ SessionsAreKnown /\ AnswersAreExpected /\ EventsFollowAnswer

\* A call that is announced to the world after the hello is answered or
\* rejected, or ends by itself, unless baresip could not answer it or the
\* connection is lost.
Announced(c) == /\ [type |-> "call_incoming", id |-> c] \in Range(toWorld)
                /\ [type |-> "version"] \notin Range(toWorld)

CallsAreDecided ==
    \A c \in CallIds :
        Announced(c) ~> \/ call[c] # "ringing" \/ world.conn = 0
                        \/ crashed \/ faults # {}

-----------------------------------------------------------------------------
(* What comments of the repository say, and the code does not do.          *)

\* "Lost connection to world, hangup all calls": villa_tcp_disconnected.
AllAreHungUp == [][Disconnected => \A c \in pending : call'[c] # "ringing"]_vars

\* "look up the event handler and call it": data_received, where
\* event_call_closed deletes the caller.
CallersAreUp ==
    faults = {} => \A c \in world.callers : call[c] = "up" \/ Closed(c) \in Range(toWorld)
=============================================================================
