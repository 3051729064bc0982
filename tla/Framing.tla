------------------------------ MODULE Framing ------------------------------
(***************************************************************************)
(* How the two sides of the connection make messages out of what the       *)
(* socket gives them: json_tcp_recv_handler of src/src/json_tcp.c, and     *)
(* data_received of src/actor-v3/protocol.py.                              *)
(*                                                                         *)
(* A message is its JSON, which can be cut in two, and the "\r\n" behind   *)
(* it, which can be cut off: three units.  A read gets any number of the   *)
(* units on the wire.                                                      *)
(*                                                                         *)
(* Left out: what messages say, but for the two kinds of event after which *)
(* data_received returns; connections after the first, which start over    *)
(* with new objects.                                                       *)
(***************************************************************************)
EXTENDS Integers, SequencesExt

CONSTANTS MaxCommands, MaxEvents    \* BOUND: messages sent in each direction

ASSUME BoundAssumption == MaxCommands \in Nat /\ MaxEvents \in Nat

\* "version" is the hello, "stray" an event of a call the world does not know.
Message == [n : Nat, kind : {"version", "stray", "plain"}]

Unit == [part : {"head", "tail", "end"}, of : Message]

Units(m) == <<[part |-> "head", of |-> m], [part |-> "tail", of |-> m], [part |-> "end", of |-> m]>>

VARIABLES
    commands, toServer,   \* commands sent, and what of them is on the wire
    rcvbuf, served,       \* json_tcp.rcvbuf; the commands handled
    events, toWorld,      \* events sent, and what of them is on the wire
    current, handled,     \* current_message; the events handled
    failed,               \* the sides that met something that is no JSON
    cut, dropped          \* for the properties: a read of the world ended
                          \* within a message; data_received returned with
                          \* more to read

server == <<commands, toServer, rcvbuf, served>>
world  == <<events, toWorld, current, handled, cut, dropped>>
vars   == <<server, world, failed>>

-----------------------------------------------------------------------------
(* Lines.                                                                  *)

Cut(s, u) == IF u.part = "end"
             THEN [lines |-> Append(s.lines, s.rest), rest |-> <<>>]
             ELSE [s EXCEPT !.rest = Append(@, u)]

\* The complete lines of what was read, and the rest behind the last of them.
Split(data) ==
    LET at[i \in 0 .. Len(data)] == IF i = 0 THEN [lines |-> <<>>, rest |-> <<>>]
                                            ELSE Cut(at[i - 1], data[i])
    IN  at[Len(data)]

IsMessage(line) == \E m \in {u.of : u \in Range(line)} : line = SubSeq(Units(m), 1, 2)

-----------------------------------------------------------------------------
(* The server.                                                             *)

\* Sends one command; the world does.
SendCommand ==
    LET m == [n |-> Len(commands) + 1, kind |-> "plain"]
    IN  /\ failed = {} /\ Len(commands) < MaxCommands
        /\ commands' = Append(commands, m)
        /\ toServer' = toServer \o Units(m)
        /\ UNCHANGED <<rcvbuf, served, world, failed>>

\* A frame that cannot be decoded, or is empty, ends the handler.
Serve(s, line) ==
    IF s.failed \/ ~IsMessage(line) THEN [s EXCEPT !.failed = TRUE]
    ELSE [s EXCEPT !.served = Append(@, line[1].of)]

Served(lines) ==
    LET at[i \in 0 .. Len(lines)] == IF i = 0 THEN [served |-> served, failed |-> FALSE]
                                             ELSE Serve(at[i - 1], lines[i])
    IN  at[Len(lines)]

\* Mutant of Kept: the buffer is not rewound.
KeptAll(data, s) == data

\* What stays in rcvbuf.
Kept(data, s) == IF s.lines = <<>> THEN data ELSE s.rest

\* json_tcp_recv_handler
ServerReads ==
    /\ failed = {}
    /\ \E n \in 1 .. Len(toServer) :
          LET data == rcvbuf \o SubSeq(toServer, 1, n)
              s    == Split(data)
              end  == Served(s.lines)
          IN  /\ toServer' = SubSeq(toServer, n + 1, Len(toServer))
              /\ served' = end.served
              /\ rcvbuf' = IF end.failed THEN data ELSE Kept(data, s)
              /\ failed' = IF end.failed THEN {"server"} ELSE {}
    /\ UNCHANGED <<commands, world>>

-----------------------------------------------------------------------------
(* The world.                                                              *)

\* json_tcp_send: the hello comes first.
SendEvent(kind) ==
    LET m == [n |-> Len(events) + 1, kind |-> kind]
    IN  /\ failed = {} /\ Len(events) < MaxEvents
        /\ kind = "version" <=> events = <<>>
        /\ events' = Append(events, m)
        /\ toWorld' = toWorld \o Units(m)
        /\ UNCHANGED <<current, handled, cut, dropped, server, failed>>

\* Mutant of Handle: a line that was cut is taken for the message it ends with.
HandleLast(h, line) ==
    IF h.how # "on" \/ line = <<>> THEN h
    ELSE [handled |-> Append(h.handled, line[1].of), how |-> "on"]

\* One turn of the loop over lines[:-1].
Handle(h, line) ==
    IF h.how # "on" \/ line = <<>> THEN h
    ELSE IF ~IsMessage(line) THEN [h EXCEPT !.how = "raised"]
    ELSE [handled |-> Append(h.handled, line[1].of),
          how |-> IF line[1].of.kind = "plain" THEN "on" ELSE "returned"]

Handled(lines) ==
    LET at[i \in 0 .. Len(lines)] == IF i = 0 THEN [handled |-> handled, how |-> "on"]
                                             ELSE Handle(at[i - 1], lines[i])
    IN  at[Len(lines)]

\* Mutant of Complete: lines[:-2].
CompleteButOne(s) == IF s.lines = <<>> THEN <<>> ELSE Front(s.lines)

\* lines[:-1]
Complete(s) == s.lines

\* data_received: the rest is added to current_message, which is never
\* reset, unless the loop was left by `return'.
WorldReads ==
    /\ failed = {}
    /\ \E n \in 1 .. Len(toWorld) :
          LET s   == Split(current \o SubSeq(toWorld, 1, n))
              end == Handled(Complete(s))
          IN  /\ toWorld' = SubSeq(toWorld, n + 1, Len(toWorld))
              /\ handled' = end.handled
              /\ current' = IF end.how = "on" THEN current \o s.rest ELSE current
              /\ failed' = IF end.how = "raised" THEN {"world"} ELSE {}
              /\ cut' = (cut \/ toWorld[n].part # "end")
              /\ dropped' = (dropped \/ (end.how = "returned" /\ Last(end.handled) # toWorld[n].of))
    /\ UNCHANGED <<events, server>>

-----------------------------------------------------------------------------
Init == /\ commands = <<>> /\ toServer = <<>> /\ rcvbuf = <<>> /\ served = <<>>
        /\ events = <<>> /\ toWorld = <<>> /\ current = <<>> /\ handled = <<>>
        /\ failed = {} /\ cut = FALSE /\ dropped = FALSE

Next == \/ SendCommand
        \/ ServerReads
        \/ \E kind \in {"version", "stray", "plain"} : SendEvent(kind)
        \/ WorldReads

\* Both sides run event loops, which read what has arrived.
Spec == Init /\ [][Next]_vars /\ WF_vars(ServerReads) /\ WF_vars(WorldReads)

-----------------------------------------------------------------------------
(* Properties.                                                             *)

\* On the server's side the connection is the channel it should be, however
\* commands are cut and joined, until the world fails (Server!open).
Server == INSTANCE Channel WITH
    Messages <- Message, sent <- commands, delivered <- served, open <- failed # {"world"}

ServerIsChannel == Server!Spec

\* On the world's side it is one only as long as every read ends with a
\* message, and the hello, and an event of an unknown call, come last in theirs.
World == INSTANCE Channel WITH
    Messages <- Message, sent <- events, delivered <- handled,
    open <- ~cut /\ ~dropped /\ failed # {"server"}

WorldIsChannel == World!Spec

\* The world handles no event twice, and none before an earlier one, unless
\* both happened: a message without its "\r\n" that is kept in front of later
\* reads is handled again when all that arrives is the "\r\n" of an event
\* that was lost behind a `return'.
HandledInOrder ==
    ~(cut /\ dropped) =>
        \A i, j \in DOMAIN handled : i < j => handled[i].n < handled[j].n
=============================================================================
