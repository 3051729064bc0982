---------------------------- MODULE CallsProofs ----------------------------
(***************************************************************************)
(* Theorems about Calls, for any number of calls and connections.  Those   *)
(* about the server's side come first; they do not depend on what the      *)
(* world sends: every command is allowed for.  Those about what the world  *)
(* and the server tell each other come after them.                         *)
(***************************************************************************)
EXTENDS Calls, Lemmas

USE DEF Live

-----------------------------------------------------------------------------
(* What the helpers do.                                                    *)

LEMMA ErasedKeeps ==
    ASSUME ServerIsConsistent, NEW C \in SUBSET CallIds, Erased(C)
    PROVE  /\ call' \in [CallIds -> {"new", "ringing", "up", "over"}]
           /\ \A c \in CallIds : call'[c] = IF c \in C THEN "over" ELSE call[c]
           /\ Live' = Live \ C
           /\ \A c \in Live' : sessions'[c] = sessions[c]
           /\ sessions' \in [Live' -> Conns]
BY DEF Erased, Restrict, ServerIsConsistent

LEMMA EmitForKeeps ==
    ASSUME ServerIsConsistent, NEW c \in Live, NEW e, NEW r, EmitFor(c, e, r)
    PROVE  /\ crashed' \in BOOLEAN
           /\ crashed' => faults \cap {"gone", "replaced"} # {}
BY DEF EmitFor, ServerIsConsistent, SessionsAreConnected, CrashNeedsFault

LEMMA OpenedType ==
    ASSUME ServerIsConsistent, NEW c \in CallIds, tc # 0
    PROVE  /\ DOMAIN Opened(c) = Live \cup {c}
           /\ Opened(c) \in [Live \cup {c} -> Conns]
           /\ Opened(c)[c] = jt
           /\ \A x \in Live \ {c} : Opened(c)[x] = sessions[x]
BY BoundsAssumption DEF Opened, ServerIsConsistent, Conns

-----------------------------------------------------------------------------
(* Init and the actions.                                                   *)

LEMMA InitIsConsistent == Init => ServerIsConsistent
<1> SUFFICES ASSUME Init
             PROVE  ServerIsConsistent
  OBVIOUS
<1>1. Live = {} /\ sessions \in [Live -> Conns]
  BY DEF Init
<1>2. call \in [CallIds -> {"new", "ringing", "up", "over"}] /\ \A c \in CallIds : call[c] = "new"
  BY DEF Init
<1>3. /\ pending = {} /\ tc = 0 /\ jt = 0 /\ jt \in 0 .. MaxConns
      /\ crashed = FALSE /\ faults = {}
  BY BoundsAssumption DEF Init
<1>4. SessionsAreUp /\ SessionsAreConnected /\ CrashNeedsFault
  BY <1>1, <1>2, <1>3 DEF SessionsAreUp, SessionsAreConnected, CrashNeedsFault
<1> QED
  <2> USE <1>1, <1>2, <1>3, <1>4
  <2>1. faults \subseteq Faults /\ crashed \in BOOLEAN
    OBVIOUS
  <2> QED
    BY <2>1 DEF ServerIsConsistent

\* Erasing sessions, with whatever is said about it, keeps the server in order.
LEMMA EraseKeeps ==
    ASSUME ServerIsConsistent, NEW C \in SUBSET Live, Erased(C),
           UNCHANGED <<pending, jt, faults>>,
           crashed' \in BOOLEAN, crashed' => faults \cap {"gone", "replaced"} # {},
           \/ tc' = tc
           \/ tc' = 0 /\ C = Live
    PROVE  ServerIsConsistent'
<1>1. C \in SUBSET CallIds
  BY DEF ServerIsConsistent
<1>2. /\ call' \in [CallIds -> {"new", "ringing", "up", "over"}]
      /\ \A c \in CallIds : call'[c] = IF c \in C THEN "over" ELSE call[c]
      /\ Live' = Live \ C
      /\ \A c \in Live' : sessions'[c] = sessions[c]
      /\ sessions' \in [Live' -> Conns]
  BY <1>1, ErasedKeeps
<1>3. /\ tc' \in {0, jt'}
      /\ tc' = 0 => Live' = {}
  BY <1>2 DEF ServerIsConsistent
<1>4. SessionsAreUp'
  BY <1>1, <1>2 DEF ServerIsConsistent, SessionsAreUp
<1>5. SessionsAreConnected'
  BY <1>2 DEF ServerIsConsistent, SessionsAreConnected
<1> QED
  BY <1>1, <1>2, <1>3, <1>4, <1>5 DEF ServerIsConsistent, CrashNeedsFault

LEMMA ListenKeeps == ServerIsConsistent /\ Listen => ServerIsConsistent'
BY DEF Listen, Receive, ServerIsConsistent, SessionsAreUp, SessionsAreConnected, CrashNeedsFault

LEMMA AnswerKeeps ==
    ASSUME ServerIsConsistent, NEW c \in CallIds, Answer(c)
    PROVE  ServerIsConsistent'
<1> DEFINE gone == c \in pending /\ call[c] = "over"
<1>1. PICK ok \in BOOLEAN :
        /\ tc # 0 /\ ~crashed
        /\ UNCHANGED <<tc, jt>>
        /\ ok => c \in pending
        /\ call' = [call EXCEPT ![c] = IF ok /\ ~gone THEN "up" ELSE @]
        /\ sessions' = IF ok THEN Opened(c) ELSE sessions
        /\ pending' = pending \ {c}
        /\ crashed' \in {FALSE, gone}
        /\ faults' = faults \cup {f \in Faults : \/ f = "gone" /\ gone
                                                 \/ f = "refused" /\ c \in pending /\ ~ok}
  BY DEF Answer, Receive
<1>2. /\ faults \subseteq faults' /\ faults' \subseteq Faults
      /\ gone => "gone" \in faults'
      /\ "replaced" \in faults' => "replaced" \in faults
  BY <1>1 DEF ServerIsConsistent, Faults
<1>3. crashed' \in BOOLEAN /\ CrashNeedsFault'
  BY <1>1, <1>2 DEF CrashNeedsFault
<1>4. /\ Live' = IF ok THEN Live \cup {c} ELSE Live
      /\ Live' \subseteq CallIds
      /\ sessions' \in [Live' -> Conns]
      /\ ok => sessions'[c] = jt
      /\ \A x \in Live' : (ok /\ x = c) \/ (x \in Live /\ sessions'[x] = sessions[x])
  <2>1. CASE ok
    <3>1. sessions' = Opened(c)
      BY <1>1, <2>1
    <3>2. /\ DOMAIN Opened(c) = Live \cup {c}
          /\ Opened(c) \in [Live \cup {c} -> Conns]
          /\ Opened(c)[c] = jt
          /\ \A x \in Live \ {c} : Opened(c)[x] = sessions[x]
      BY <1>1, OpenedType
    <3> QED BY <2>1, <3>1, <3>2 DEF ServerIsConsistent
  <2>2. CASE ~ok
    BY <1>1, <2>2 DEF ServerIsConsistent
  <2> QED BY <2>1, <2>2
<1>5. /\ call' \in [CallIds -> {"new", "ringing", "up", "over"}]
      /\ call'[c] = IF ok /\ ~gone THEN "up" ELSE call[c]
      /\ \A x \in CallIds \ {c} : call'[x] = call[x]
  BY <1>1 DEF ServerIsConsistent
<1>6. SessionsAreUp'
  <2>1. CASE gone
    BY <1>2, <2>1 DEF SessionsAreUp
  <2>2. CASE ~gone
    BY <1>1, <1>2, <1>4, <1>5, <2>2 DEF ServerIsConsistent, SessionsAreUp
  <2> QED BY <2>1, <2>2
<1>7. SessionsAreConnected'
  BY <1>1, <1>2, <1>4 DEF ServerIsConsistent, SessionsAreConnected
<1>8. \A x \in CallIds : call'[x] = "up" => x \in Live'
  BY <1>4, <1>5 DEF ServerIsConsistent
<1> QED
  BY <1>1, <1>2, <1>3, <1>4, <1>5, <1>6, <1>7, <1>8 DEF ServerIsConsistent

LEMMA HangupKeeps ==
    ASSUME ServerIsConsistent, NEW c \in CallIds, Hangup(c)
    PROVE  ServerIsConsistent'
<1> DEFINE gone == c \in pending /\ call[c] = "over"
<1>1. UNCHANGED <<tc, jt, pending>> /\ ~crashed
  BY DEF Hangup, Receive
<1>2. CASE c \in Live
  <2>1. PICK r : Erased({c}) /\ EmitFor(c, Closed(c), r) /\ UNCHANGED faults
    BY <1>2 DEF Hangup
  <2>2. crashed' \in BOOLEAN /\ (crashed' => faults \cap {"gone", "replaced"} # {})
    BY <1>2, <2>1, EmitForKeeps
  <2> QED BY <1>1, <1>2, <2>1, <2>2, EraseKeeps
<1>3. CASE c \notin Live
  <2>1. /\ call' = [call EXCEPT ![c] = IF c \in pending THEN "over" ELSE @]
        /\ crashed' \in {FALSE, gone}
        /\ faults' = IF gone THEN faults \cup {"gone"} ELSE faults
        /\ UNCHANGED sessions
    BY <1>3 DEF Hangup
  <2>2. /\ faults \subseteq faults' /\ faults' \subseteq Faults
        /\ gone => "gone" \in faults'
        /\ "replaced" \in faults' => "replaced" \in faults
    BY <2>1 DEF ServerIsConsistent, Faults
  <2>3. crashed' \in BOOLEAN /\ CrashNeedsFault'
    BY <2>1, <2>2 DEF CrashNeedsFault
  <2>4. /\ call' \in [CallIds -> {"new", "ringing", "up", "over"}]
        /\ call'[c] = IF c \in pending THEN "over" ELSE call[c]
        /\ \A x \in CallIds \ {c} : call'[x] = call[x]
    BY <2>1 DEF ServerIsConsistent
  <2>5. SessionsAreUp'
    BY <1>3, <2>1, <2>2, <2>4 DEF ServerIsConsistent, SessionsAreUp
  <2>6. SessionsAreConnected'
    BY <1>1, <2>1, <2>2 DEF ServerIsConsistent, SessionsAreConnected
  <2> QED
    BY <1>1, <2>1, <2>2, <2>3, <2>4, <2>5, <2>6 DEF ServerIsConsistent
<1> QED BY <1>2, <1>3

LEMMA AcceptKeeps == ServerIsConsistent /\ Accept => ServerIsConsistent'
<1> SUFFICES ASSUME ServerIsConsistent, Accept
             PROVE  ServerIsConsistent'
  OBVIOUS
<1>1. /\ tc' = jt' /\ jt' \in 1 .. MaxConns
      /\ ~crashed /\ UNCHANGED <<call, pending, sessions, crashed>>
      /\ faults' = IF tc # 0 /\ Live # {} THEN faults \cup {"replaced"} ELSE faults
  BY BoundsAssumption DEF Accept, ServerIsConsistent
<1>2. faults \subseteq faults' /\ faults' \subseteq Faults
  BY <1>1 DEF ServerIsConsistent, Faults
<1>3. SessionsAreConnected'
  BY <1>1 DEF ServerIsConsistent, SessionsAreConnected
<1>4. SessionsAreUp' /\ CrashNeedsFault'
  BY <1>1, <1>2 DEF ServerIsConsistent, SessionsAreUp, CrashNeedsFault
<1> QED
  BY <1>1, <1>2, <1>3, <1>4, BoundsAssumption DEF ServerIsConsistent

LEMMA DisconnectedKeeps == ServerIsConsistent /\ Disconnected => ServerIsConsistent'
<1> SUFFICES ASSUME ServerIsConsistent, Disconnected
             PROVE  ServerIsConsistent'
  OBVIOUS
<1>1. crashed' \in BOOLEAN /\ (crashed' => \E c \in Live : sessions[c] # jt)
  BY DEF Disconnected
<1>2. crashed' => faults \cap {"gone", "replaced"} # {}
  BY <1>1 DEF ServerIsConsistent, SessionsAreConnected
<1> QED
  BY <1>1, <1>2, EraseKeeps DEF Disconnected

LEMMA PeerCallsKeeps ==
    ASSUME ServerIsConsistent, NEW c \in CallIds, PeerCalls(c) \/ PeerGivesUp(c)
    PROVE  ServerIsConsistent'
<1>1. /\ call[c] \in {"new", "ringing"}
      /\ call' \in [CallIds -> {"new", "ringing", "up", "over"}]
      /\ call'[c] \in {"ringing", "over"}
      /\ \A x \in CallIds \ {c} : call'[x] = call[x]
      /\ pending' \in {pending, pending \cup {c}}
      /\ UNCHANGED <<sessions, tc, jt, crashed, faults>>
  BY DEF PeerCalls, PeerGivesUp, ServerIsConsistent
<1>2. SessionsAreUp'
  BY <1>1 DEF ServerIsConsistent, SessionsAreUp
<1> QED
  BY <1>1, <1>2 DEF ServerIsConsistent, SessionsAreConnected, CrashNeedsFault

LEMMA PeerHangsUpKeeps ==
    ASSUME ServerIsConsistent, NEW c \in CallIds, PeerHangsUp(c)
    PROVE  ServerIsConsistent'
<1>1. c \in Live
  BY DEF PeerHangsUp, ServerIsConsistent
<1>2. crashed' \in BOOLEAN /\ (crashed' => faults \cap {"gone", "replaced"} # {})
  BY <1>1, EmitForKeeps DEF PeerHangsUp
<1> QED
  BY <1>1, <1>2, EraseKeeps DEF PeerHangsUp

LEMMA PeerDialsKeeps ==
    ASSUME ServerIsConsistent, NEW c \in CallIds, PeerDials(c)
    PROVE  ServerIsConsistent'
<1>1. c \in Live /\ UNCHANGED <<call, pending, sessions, tc, jt, faults>>
  BY DEF PeerDials, ServerIsConsistent
<1>2. crashed' \in BOOLEAN /\ (crashed' => faults \cap {"gone", "replaced"} # {})
  BY <1>1, EmitForKeeps DEF PeerDials
<1> QED
  BY <1>1, <1>2 DEF ServerIsConsistent, SessionsAreUp, SessionsAreConnected, CrashNeedsFault

LEMMA OthersKeep ==
    ASSUME ServerIsConsistent,
           \/ WorldReads \/ WorldIsLost
           \/ \E c \in CallIds : WorldHangsUp(c)
           \/ UNCHANGED vars
    PROVE  ServerIsConsistent'
<1>1. UNCHANGED <<call, pending, sessions, tc, jt, crashed, faults>>
  BY DEF WorldReads, WorldIsLost, WorldHangsUp, vars
<1> QED
  BY <1>1 DEF ServerIsConsistent, SessionsAreUp, SessionsAreConnected, CrashNeedsFault

LEMMA StepKeeps == ServerIsConsistent /\ [Next]_vars => ServerIsConsistent'
<1> SUFFICES ASSUME ServerIsConsistent, [Next]_vars
             PROVE  ServerIsConsistent'
  OBVIOUS
<1>1. CASE ServerHandles
  BY <1>1, ListenKeeps, AnswerKeeps, HangupKeeps DEF ServerHandles
<1>2. CASE Accept \/ Disconnected
  BY <1>2, AcceptKeeps, DisconnectedKeeps
<1>3. CASE \E c \in CallIds : PeerCalls(c) \/ PeerGivesUp(c) \/ PeerHangsUp(c) \/ PeerDials(c)
  BY <1>3, PeerCallsKeeps, PeerHangsUpKeeps, PeerDialsKeeps
<1>4. CASE \/ WorldReads \/ WorldIsLost
           \/ \E c \in CallIds : WorldHangsUp(c)
           \/ UNCHANGED vars
  BY <1>4, OthersKeep
<1> QED
  BY <1>1, <1>2, <1>3, <1>4 DEF Next

-----------------------------------------------------------------------------
(* The theorems.                                                           *)

\* What the server keeps of calls and connections stays consistent:
\* villa_command_handler, tcp_conn_handler, tcp_close_handler and the handlers
\* of calls.
THEOREM ServerStaysConsistent == Spec => []ServerIsConsistent
<1> QED
  BY InitIsConsistent, StepKeeps, PTL DEF Spec

\* The calls that are up are those with a Session, unless one was made for a
\* call that had ended.
THEOREM SessionsStayUp == Spec => []SessionsAreUp
<1>1. ServerIsConsistent => SessionsAreUp
  BY DEF ServerIsConsistent
<1> QED
  BY <1>1, ServerStaysConsistent, PTL

\* When the server has seen the connection close no call is up, and none is
\* answered before the next connection: villa_tcp_disconnected.
THEOREM NobodyStays == Spec => []NobodyIsKept
<1>1. ServerIsConsistent => NobodyIsKept
  BY DEF ServerIsConsistent, NobodyIsKept
<1> QED
  BY <1>1, ServerStaysConsistent, PTL

\* A Session sends its events on the connection that is open, unless that was
\* replaced under it: Session::_jt and tcp_conn_handler.
THEOREM SessionsStayConnected == Spec => []SessionsAreConnected
<1>1. ServerIsConsistent => SessionsAreConnected
  BY DEF ServerIsConsistent
<1> QED
  BY <1>1, ServerStaysConsistent, PTL

\* The server survives unless it answered or rejected a call that had ended,
\* or a connection was replaced that sessions still used.
THEOREM CrashesNeedFaults == Spec => []CrashNeedsFault
<1>1. ServerIsConsistent => CrashNeedsFault
  BY DEF ServerIsConsistent
<1> QED
  BY <1>1, ServerStaysConsistent, PTL

-----------------------------------------------------------------------------
(* What the world and the server tell each other.                          *)

ToWorld == Event \cup Response

\* The states of the loop of data_received.
Progress == [world : World, out : Seq(Command), left : BOOLEAN]

-----------------------------------------------------------------------------
(* The messages.                                                           *)

\* What a message to the world says of the call c: it announces c, answers
\* the command to answer c, or reports something of c.
Announces(m, c) == m = [type |-> "call_incoming", id |-> c]
Confirms(m, c) == m.type = "response" /\ m.ok /\ m.to = [type |-> "answer", id |-> c]
Reports(m, c) == m.type \in {"dtmf", "call_closed"} /\ m.id = c
Greets(m) == m.type = "version"

\* A command to answer c.
Asks(m, c) == m = [type |-> "answer", id |-> c]

\* Every message to the world is of one of these kinds.
LEMMA MessageKinds ==
    ASSUME NEW m \in ToWorld
    PROVE  \/ Greets(m)
           \/ m.type = "response" /\ m.ok \in BOOLEAN /\ m.to \in Command
           \/ m.type \in {"dtmf", "call_closed"} /\ m.id \in CallIds
           \/ m.type = "call_incoming" /\ m.id \in CallIds /\ Announces(m, m.id)
<1> QED
  BY DEF ToWorld, Event, Response, Greets, Announces

\* What data_received makes of one message.
HandledOne(at, s, m) ==
    /\ s \in Progress /\ s.world.conn = at.world.conn
    /\ at.world.callers \subseteq s.world.callers
    /\ \A c \in CallIds : c \in at.world.data \ s.world.data => Confirms(m, c)
    /\ \A c \in CallIds : ~at.left /\ Confirms(m, c) => c \in s.world.callers
    /\ \/ s.out = at.out
       \/ \E cmd \in Command : /\ s.out = Append(at.out, cmd)
                               /\ Announces(m, cmd.id) /\ cmd.id \in CallIds
                               /\ cmd.id \in s.world.data
    /\ at.left => s.left
    /\ s.left => \/ at.left \/ Greets(m)
                 \/ \E c \in CallIds : Reports(m, c) /\ c \notin at.world.callers

LEMMA HandleOne ==
    ASSUME NEW yes, NEW at \in Progress, NEW m \in ToWorld, NEW s, s = Handle(yes, at, m)
    PROVE  HandledOne(at, s, m)
<1>0. /\ at.world \in World /\ at.out \in Seq(Command) /\ at.left \in BOOLEAN
      /\ at = [world |-> at.world, out |-> at.out, left |-> at.left]
      /\ at.world = [conn |-> at.world.conn, data |-> at.world.data, callers |-> at.world.callers]
  BY DEF Progress, World
<1>1. CASE at.left
  BY <1>1 DEF HandledOne, Handle
<1>2. CASE ~at.left /\ Greets(m)
  <2>1. s = [world |-> at.world, out |-> at.out, left |-> TRUE]
    BY <1>0, <1>2 DEF Handle, Greets
  <2>2. s \in Progress /\ \A c : ~Confirms(m, c)
    BY <1>0, <1>2, <2>1 DEF Progress, Greets, Confirms
  <2> QED
    BY <1>2, <2>1, <2>2 DEF HandledOne
<1>3. CASE ~at.left /\ m.type = "call_incoming" /\ m.id \in CallIds /\ Announces(m, m.id)
  <2> DEFINE cmd == [type |-> IF m.id \in yes THEN "answer" ELSE "hangup", id |-> m.id]
             w == [conn |-> at.world.conn, data |-> at.world.data \cup {m.id},
                   callers |-> at.world.callers]
  <2>1. s = [world |-> w, out |-> Append(at.out, cmd), left |-> FALSE]
    BY <1>0, <1>3 DEF Handle
  <2>2. cmd \in Command /\ cmd.id = m.id
    BY <1>3 DEF Command
  <2>3. w \in World
    BY <1>0, <1>3 DEF World
  <2>4. Append(at.out, cmd) \in Seq(Command)
    BY <1>0, <2>2
  <2>5. s \in Progress /\ \A c : ~Confirms(m, c)
    <3> HIDE DEF w, cmd
    <3> QED BY <1>3, <2>1, <2>3, <2>4 DEF Progress, Confirms
  <2>6. /\ s.world.conn = at.world.conn /\ s.world.callers = at.world.callers
        /\ s.world.data = at.world.data \cup {m.id} /\ s.out = Append(at.out, cmd) /\ ~s.left
    BY <2>1
  <2> HIDE DEF cmd
  <2> QED
    BY <1>3, <2>2, <2>5, <2>6 DEF HandledOne
<1>4. CASE ~at.left /\ m.type = "response" /\ m.ok \in BOOLEAN /\ m.to \in Command
  <2>1. CASE m.to.type = "answer" /\ m.ok
    <3> DEFINE w == [conn |-> at.world.conn, data |-> at.world.data \ {m.to.id},
                     callers |-> at.world.callers \cup {m.to.id}]
    <3>1. s = [world |-> w, out |-> at.out, left |-> FALSE]
      BY <1>0, <1>4, <2>1 DEF Handle
    <3>2. m.to.id \in CallIds /\ m.to = [type |-> "answer", id |-> m.to.id]
      BY <1>4, <2>1 DEF Command
    <3>3. w \in World
      BY <1>0, <3>2 DEF World
    <3>4. s \in Progress
      <4> HIDE DEF w
      <4> QED BY <1>0, <3>1, <3>3 DEF Progress
    <3>5. \A c : Confirms(m, c) <=> c = m.to.id
      BY <1>4, <2>1, <3>2 DEF Confirms
    <3>6. /\ s.world.conn = at.world.conn /\ s.world.callers = at.world.callers \cup {m.to.id}
          /\ s.world.data = at.world.data \ {m.to.id} /\ s.out = at.out /\ ~s.left
      BY <3>1
    <3> QED
      BY <1>4, <3>4, <3>5, <3>6 DEF HandledOne
  <2>2. CASE ~(m.to.type = "answer" /\ m.ok)
    <3>1. s = at /\ \A c : ~Confirms(m, c)
      BY <1>4, <2>2 DEF Handle, Confirms
    <3> QED
      BY <1>4, <3>1 DEF HandledOne
  <2> QED
    BY <2>1, <2>2
<1>5. CASE ~at.left /\ m.type \in {"dtmf", "call_closed"} /\ m.id \in CallIds
  <2>1. s = [world |-> at.world, out |-> at.out, left |-> m.id \notin at.world.callers]
    BY <1>0, <1>5 DEF Handle
  <2>2. s \in Progress /\ \A c : ~Confirms(m, c)
    BY <1>0, <1>5, <2>1 DEF Progress, Confirms
  <2>3. Reports(m, m.id)
    BY <1>5 DEF Reports
  <2>4. s.world = at.world /\ s.out = at.out /\ s.left = (m.id \notin at.world.callers)
    BY <2>1
  <2> QED
    BY <1>5, <2>2, <2>3, <2>4 DEF HandledOne
<1> QED
  BY <1>1, <1>2, <1>3, <1>4, <1>5, MessageKinds

\* What the loop of data_received does, pass by pass.
LEMMA HandledPasses ==
    ASSUME world \in World, toWorld \in Seq(ToWorld),
           NEW yes, NEW n \in 0 .. Len(toWorld)
    PROVE  \E at \in [0 .. n -> Progress] :
              /\ Handled(yes, n) = at[n]
              /\ at[0] = [world |-> world, out |-> <<>>, left |-> FALSE]
              /\ \A i \in 1 .. n : at[i] = Handle(yes, at[i - 1], toWorld[i])
<1> DEFINE base == [world |-> world, out |-> <<>>, left |-> FALSE]
           F(g) == [i \in 0 .. n |-> IF i = 0 THEN base ELSE Handle(yes, g[i - 1], toWorld[i])]
           at == CHOOSE g : g = F(g)
<1>1. Handled(yes, n) = at[n]
  BY DEF Handled
<1>0. n \in Nat /\ Len(toWorld) \in Nat /\ n <= Len(toWorld)
  OBVIOUS
<1>2. \E g : g = F(g)
  <2> DEFINE step == [i \in Nat |-> [s \in Progress |->
                         IF i \in 1 .. n THEN Handle(yes, s, toWorld[i]) ELSE s]]
  <2>1. base \in Progress
    BY DEF Progress
  <2>2. ASSUME NEW s \in Progress, NEW i \in 1 .. n
        PROVE  Handle(yes, s, toWorld[i]) \in Progress
    <3>1. toWorld[i] \in ToWorld
      OBVIOUS
    <3>2. HandledOne(s, Handle(yes, s, toWorld[i]), toWorld[i])
      BY <3>1, HandleOne
    <3> QED
      BY <3>2 DEF HandledOne
  <2>3. step \in Passes(Progress)
    BY <2>2 DEF Passes
  <2>4. \A i \in 1 .. n, s \in Progress : step[i][s] = Handle(yes, s, toWorld[i])
    OBVIOUS
  <2> HIDE DEF step, base
  <2>5. PICK f : f \in [0 .. n -> Progress] /\ f[0] = base /\ \A i \in 1 .. n : f[i] = step[i][f[i - 1]]
    <3>1. PICK f : Outcome(f, Progress, base, step, n)
      BY <1>0, <2>1, <2>3, Iteration
    <3> QED
      BY <3>1 DEF Outcome
  <2>6. \A i \in 1 .. n : f[i] = Handle(yes, f[i - 1], toWorld[i])
    <3>1. \A i \in 1 .. n : i - 1 \in 0 .. n
      OBVIOUS
    <3> QED
      BY <2>4, <2>5, <3>1
  <2>7. f = F(f)
    <3>1. \A i \in 0 .. n : f[i] = F(f)[i]
      BY <2>5, <2>6
    <3> QED
      BY <2>5, <3>1
  <2> QED
    BY <2>7
<1> HIDE DEF F
<1>3. at = F(at)
  BY <1>2
<1> HIDE DEF at, base
<1>4. /\ at = [i \in 0 .. n |-> at[i]]
      /\ at[0] = base
      /\ \A i \in 1 .. n : at[i] = Handle(yes, at[i - 1], toWorld[i])
  BY <1>0, <1>3 DEF F
<1>5. \A i \in 0 .. n : at[i] \in Progress
  <2> DEFINE T == {k \in Nat : k <= n => at[k] \in Progress}
  <2>1. 0 \in T
    BY <1>4 DEF Progress, base
  <2>2. ASSUME NEW k \in T
        PROVE  k + 1 \in T
    <3>1. SUFFICES ASSUME k + 1 <= n
                   PROVE  at[k + 1] \in Progress
      OBVIOUS
    <3>2. at[k] \in Progress /\ toWorld[k + 1] \in ToWorld
      BY <3>1
    <3>3. at[k + 1] = Handle(yes, at[k], toWorld[k + 1])
      BY <1>0, <1>4, <3>1
    <3> QED
      <4>1. HandledOne(at[k], at[k + 1], toWorld[k + 1])
        BY <3>2, <3>3, HandleOne
      <4> QED
        BY <4>1 DEF HandledOne
  <2> HIDE DEF T
  <2>3. T = Nat
    <3> T \in SUBSET Nat
      BY DEF T
    <3> QED
      BY <2>1, <2>2, SetInduction
  <2> QED
    BY <2>3 DEF T
<1>6. at \in [0 .. n -> Progress]
  BY <1>4, <1>5
<1> QED
  BY <1>1, <1>4, <1>6 DEF at, base

-----------------------------------------------------------------------------
(* A read.                                                                 *)

\* What the loop of data_received has made of the first k messages.
MadeOf(s, k) ==
    /\ s \in Progress /\ s.world.conn = world.conn
    /\ world.callers \subseteq s.world.callers
    /\ \A c \in world.data \ s.world.data : \E j \in 1 .. k : Confirms(toWorld[j], c)
    /\ \A i \in DOMAIN s.out : /\ s.out[i].id \in s.world.data
                               /\ \E j \in 1 .. k : Announces(toWorld[j], s.out[i].id)
    /\ \A i, j \in DOMAIN s.out : s.out[i].id = s.out[j].id => i = j
    /\ ~s.left => \A c \in CallIds, j \in 1 .. k : Confirms(toWorld[j], c) => c \in s.world.callers
    /\ s.left => \E j \in 1 .. k :
                    \/ Greets(toWorld[j])
                    \/ \E c \in CallIds : /\ Reports(toWorld[j], c) /\ c \notin world.callers
                                          /\ \A i \in 1 .. (j - 1) : ~Confirms(toWorld[i], c)

\* What the wire must be like for it: a call is announced once, and not while
\* an answer to it is on the way.
AnnouncedOnce ==
    /\ world \in World /\ toWorld \in Seq(ToWorld)
    /\ \A c \in CallIds : \A i, j \in DOMAIN toWorld :
          Announces(toWorld[i], c) => /\ Announces(toWorld[j], c) => i = j
                                      /\ ~Confirms(toWorld[j], c)

LEMMA NothingRead ==
    ASSUME AnnouncedOnce, NEW s, s = [world |-> world, out |-> <<>>, left |-> FALSE]
    PROVE  MadeOf(s, 0)
<1>1. s \in Progress /\ s.world = world /\ s.out = <<>> /\ ~s.left /\ DOMAIN s.out = {}
  BY DEF Progress, AnnouncedOnce
<1> QED
  BY <1>1 DEF MadeOf

LEMMA OneMoreRead ==
    ASSUME AnnouncedOnce, NEW k \in Nat, k + 1 <= Len(toWorld),
           NEW at, NEW s, MadeOf(at, k), HandledOne(at, s, toWorld[k + 1])
    PROVE  MadeOf(s, k + 1)
<1> DEFINE m == toWorld[k + 1]
<1>1. /\ k + 1 \in DOMAIN toWorld /\ 1 .. k \subseteq DOMAIN toWorld
      /\ k + 1 \in 1 .. (k + 1) /\ 1 .. k \subseteq 1 .. (k + 1)
      /\ (k + 1) - 1 = k
  BY DEF AnnouncedOnce
<1>2. /\ at \in Progress /\ s \in Progress
      /\ s.world.conn = world.conn
      /\ at.world \in World /\ at.out \in Seq(Command) /\ s.world \in World
  BY DEF MadeOf, HandledOne, Progress
<1> HIDE DEF m
<1>3. world.callers \subseteq s.world.callers /\ at.world.callers \subseteq s.world.callers
  BY DEF MadeOf, HandledOne
<1>4. \A c \in world.data \ s.world.data : \E j \in 1 .. (k + 1) : Confirms(toWorld[j], c)
  <2>1. \A c \in world.data : c \in CallIds
    BY DEF AnnouncedOnce, World
  <2>2. \A c \in CallIds : c \in at.world.data \ s.world.data => Confirms(toWorld[k + 1], c)
    BY DEF HandledOne
  <2>3. \A c \in world.data \ at.world.data : \E j \in 1 .. k : Confirms(toWorld[j], c)
    BY DEF MadeOf
  <2> QED
    BY <1>1, <2>1, <2>2, <2>3
<1>5. /\ \A i \in DOMAIN s.out : /\ s.out[i].id \in s.world.data
                                 /\ \E j \in 1 .. (k + 1) : Announces(toWorld[j], s.out[i].id)
      /\ \A i, j \in DOMAIN s.out : s.out[i].id = s.out[j].id => i = j
  <2>1. \A i \in DOMAIN at.out :
           /\ at.out[i].id \in at.world.data /\ at.out[i].id \in CallIds
           /\ \E j \in 1 .. k : Announces(toWorld[j], at.out[i].id)
    BY <1>2 DEF MadeOf, World
  <2>2. \A i \in DOMAIN at.out :
           /\ at.out[i].id \in s.world.data
           /\ ~Announces(toWorld[k + 1], at.out[i].id)
    <3> SUFFICES ASSUME NEW i \in DOMAIN at.out
                 PROVE  /\ at.out[i].id \in s.world.data
                        /\ ~Announces(toWorld[k + 1], at.out[i].id)
      OBVIOUS
    <3> DEFINE c == at.out[i].id
    <3>1. PICK j \in 1 .. k : Announces(toWorld[j], c)
      BY <2>1
    <3>2. j \in DOMAIN toWorld /\ j # k + 1 /\ c \in CallIds /\ c \in at.world.data
      BY <1>1, <2>1
    <3> HIDE DEF c
    <3>3. ~Announces(toWorld[k + 1], c) /\ ~Confirms(toWorld[k + 1], c)
      BY <1>1, <3>1, <3>2 DEF AnnouncedOnce
    <3>4. c \in s.world.data
      BY <3>2, <3>3 DEF HandledOne
    <3> QED
      BY <3>3, <3>4 DEF c
  <2>3. \A i, j \in DOMAIN at.out : at.out[i].id = at.out[j].id => i = j
    BY DEF MadeOf
  <2>4. CASE s.out = at.out
    BY <1>1, <2>1, <2>2, <2>3, <2>4
  <2>5. CASE \E cmd \in Command : /\ s.out = Append(at.out, cmd)
                                  /\ Announces(toWorld[k + 1], cmd.id) /\ cmd.id \in CallIds
                                  /\ cmd.id \in s.world.data
    <3>1. PICK cmd \in Command : /\ s.out = Append(at.out, cmd)
                                 /\ Announces(toWorld[k + 1], cmd.id)
                                 /\ cmd.id \in s.world.data
      BY <2>5
    <3>2. /\ \A i \in DOMAIN s.out : i \in DOMAIN at.out \/ i = Len(at.out) + 1
          /\ \A i \in DOMAIN at.out : s.out[i] = at.out[i]
          /\ s.out[Len(at.out) + 1] = cmd
      BY <1>2, <3>1
    <3> QED
      BY <1>1, <2>1, <2>2, <2>3, <3>1, <3>2, ZenonT(40)
  <2> QED
    BY <2>4, <2>5 DEF HandledOne
<1>6. ASSUME ~s.left, NEW c \in CallIds, NEW j \in 1 .. (k + 1), Confirms(toWorld[j], c)
      PROVE  c \in s.world.callers
  <2>0. ~at.left
    BY <1>6 DEF HandledOne
  <2>1. CASE j = k + 1
    BY <1>6, <2>0, <2>1 DEF HandledOne
  <2>2. CASE j \in 1 .. k
    BY <1>3, <1>6, <2>0, <2>2 DEF MadeOf
  <2> QED
    BY <2>1, <2>2
<1>7. ASSUME s.left
      PROVE  \E j \in 1 .. (k + 1) :
                \/ Greets(toWorld[j])
                \/ \E c \in CallIds : /\ Reports(toWorld[j], c) /\ c \notin world.callers
                                      /\ \A i \in 1 .. (j - 1) : ~Confirms(toWorld[i], c)
  <2>1. CASE at.left
    BY <1>1, <2>1 DEF MadeOf
  <2>2. CASE Greets(toWorld[k + 1])
    BY <1>1, <2>2
  <2>3. CASE ~at.left /\ \E c \in CallIds : Reports(toWorld[k + 1], c) /\ c \notin at.world.callers
    <3>1. PICK c \in CallIds : Reports(toWorld[k + 1], c) /\ c \notin at.world.callers
      BY <2>3
    <3>2. c \notin world.callers /\ \A i \in 1 .. k : ~Confirms(toWorld[i], c)
      BY <2>3, <3>1 DEF MadeOf
    <3> QED
      BY <1>1, <3>1, <3>2
  <2> QED
    BY <1>7, <2>1, <2>2, <2>3 DEF HandledOne
<1> QED
  BY <1>2, <1>3, <1>4, <1>5, <1>6, <1>7 DEF MadeOf

LEMMA ReadMakes ==
    ASSUME AnnouncedOnce, NEW yes, NEW n \in 0 .. Len(toWorld)
    PROVE  MadeOf(Handled(yes, n), n)
<1>1. world \in World /\ toWorld \in Seq(ToWorld)
  BY DEF AnnouncedOnce
<1>2. n \in Nat /\ Len(toWorld) \in Nat /\ n <= Len(toWorld)
  BY <1>1
<1>3. PICK at \in [0 .. n -> Progress] :
         /\ Handled(yes, n) = at[n]
         /\ at[0] = [world |-> world, out |-> <<>>, left |-> FALSE]
         /\ \A i \in 1 .. n : at[i] = Handle(yes, at[i - 1], toWorld[i])
  BY <1>1, HandledPasses, ZenonT(40)
<1> DEFINE T == {k \in Nat : k <= n => MadeOf(at[k], k)}
<1>4. 0 \in T
  BY <1>3, NothingRead
<1>5. ASSUME NEW k \in T
      PROVE  k + 1 \in T
  <2>1. k \in Nat
    OBVIOUS
  <2>2. SUFFICES ASSUME k + 1 <= n
                 PROVE  MadeOf(at[k + 1], k + 1)
    BY <2>1
  <2>3. MadeOf(at[k], k) /\ at[k] \in Progress /\ toWorld[k + 1] \in ToWorld
    BY <1>1, <1>2, <2>1, <2>2
  <2>4. at[k + 1] = Handle(yes, at[k], toWorld[k + 1])
    BY <1>2, <1>3, <2>1, <2>2
  <2>5. HandledOne(at[k], at[k + 1], toWorld[k + 1])
    BY <2>3, <2>4, HandleOne
  <2> QED
    BY <1>2, <2>1, <2>2, <2>3, <2>5, OneMoreRead
<1> HIDE DEF T
<1>6. T = Nat
  <2> T \in SUBSET Nat
    BY DEF T
  <2> QED
    BY <1>4, <1>5, SetInduction
<1> QED
  BY <1>2, <1>3, <1>6 DEF T

-----------------------------------------------------------------------------
(* What the server sends.                                                  *)

\* A step of the server or of a peer that sends the messages ms, and has
\* handled a command or none.
ServerSteps(ms) ==
    /\ ms \in Seq(ToWorld) /\ toWorld' = Sent(ms)
    /\ UNCHANGED <<world, jt>> /\ faults \subseteq faults'
    /\ agents' \in BOOLEAN /\ (jt = 0 => ~agents' /\ ms = <<>>)
    /\ toServer' = toServer \/ (toServer # <<>> /\ toServer' = Tail(toServer))
    /\ \A i \in DOMAIN ms : ~Greets(ms[i])
    /\ \A i \in DOMAIN ms, c \in CallIds :
          /\ Announces(ms[i], c) => i = 1 /\ call[c] = "new" /\ call'[c] # "new"
          /\ Confirms(ms[i], c) => i = 1 /\ toServer # <<>> /\ Asks(toServer[1], c)
                                   /\ toServer' = Tail(toServer)
          /\ Reports(ms[i], c) => c \in Live
    /\ \A c \in CallIds : call'[c] = "new" => call[c] = "new"
    /\ \A c \in Live' : \/ c \in Live /\ sessions'[c] = sessions[c]
                        \/ \E i \in DOMAIN ms : Confirms(ms[i], c)

\* The invariant in terms of messages.
LEMMA WireInMessages ==
    /\ \A c, i : Incoming(c, i) = Announces(toWorld[i], c)
    /\ \A c, i : Asked(c, i) = Asks(toServer[i], c)
    /\ \A c, i : Answered(c, i) <=> Confirms(toWorld[i], c)
BY DEF Incoming, Asked, Answered, Announces, Asks, Confirms

LEMMA OneKind ==
    \A m, c, d : /\ ~(Announces(m, c) /\ Confirms(m, d))
                 /\ ~(Confirms(m, c) /\ Reports(m, d))
BY DEF Announces, Confirms, Reports

\* The commands that are left are those of before, one place further on if
\* one was handled.
LEMMA CommandsLeft ==
    ASSUME WireIsConsistent, NEW ms, ServerSteps(ms)
    PROVE  /\ toServer \in Seq(Command) /\ toServer' \in Seq(Command)
           /\ \E d \in {0, 1} :
                 /\ toServer # <<>> /\ toServer' = Tail(toServer) => d = 1
                 /\ \A i \in DOMAIN toServer' :
                       i \in Nat \ {0} /\ i + d \in DOMAIN toServer /\ toServer'[i] = toServer[i + d]
<1>1. toServer \in Seq(Command)
  BY DEF WireIsConsistent, WireIsTyped
<1>2. CASE toServer # <<>> /\ toServer' = Tail(toServer)
  <2>1. toServer' \in Seq(Command)
    BY <1>1, <1>2
  <2>2. \A i \in DOMAIN toServer' :
           i \in Nat \ {0} /\ i + 1 \in DOMAIN toServer /\ toServer'[i] = toServer[i + 1]
    BY <1>1, <1>2
  <2> QED
    BY <1>1, <2>1, <2>2
<1>3. CASE ~(toServer # <<>> /\ toServer' = Tail(toServer))
  <2>1. toServer' = toServer
    BY <1>3 DEF ServerSteps
  <2>2. \A i \in DOMAIN toServer : i \in Nat \ {0} /\ i + 0 = i
    BY <1>1
  <2> QED
    BY <1>1, <1>3, <2>1, <2>2
<1> QED
  BY <1>2, <1>3

\* A world that has lost its connection is sent nothing.
LEMMA NothingIsSent ==
    ASSUME WireIsConsistent, ServerIsConsistent', NEW ms, ServerSteps(ms), world.conn # jt
    PROVE  WireIsConsistent'
<1>1. /\ world.conn = 0 /\ toWorld = <<>> /\ toWorld' = <<>> /\ UNCHANGED <<world, jt>>
      /\ DOMAIN toWorld = {} /\ DOMAIN toWorld' = {}
  BY DEF WireIsConsistent, WireIsTyped, ServerSteps, Sent
<1>2. /\ toServer \in Seq(Command) /\ toServer' \in Seq(Command)
      /\ \E d \in {0, 1} : \A i \in DOMAIN toServer' :
            i \in Nat \ {0} /\ i + d \in DOMAIN toServer /\ toServer'[i] = toServer[i + d]
  BY CommandsLeft
<1>3. WireIsTyped'
  <2>1. pending' \subseteq CallIds
    BY DEF ServerIsConsistent
  <2> QED
    BY <1>1, <1>2, <2>1 DEF WireIsConsistent, WireIsTyped, ServerSteps
<1>4. ASSUME NEW c \in CallIds
      PROVE  StagesAreOrdered(c)'
  <2>1. call'[c] = "new" => call[c] = "new"
    BY DEF ServerSteps
  <2>2. StagesAreOrdered(c)
    BY DEF WireIsConsistent
  <2> QED
    BY <1>1, <1>2, <2>1, <2>2 DEF StagesAreOrdered, Asked
<1>5. SessionsAreKnown'
  <2>1. \A c \in Live' : sessions'[c] # 0
    BY DEF ServerIsConsistent, Conns
  <2> QED
    BY <1>1, <2>1 DEF SessionsAreKnown
<1> QED
  BY <1>1, <1>3, <1>4, <1>5 DEF WireIsConsistent, HelloIsFirst, AnswersAreExpected, EventsFollowAnswer

\* A connected world gets the messages behind those that it has not read yet.
LEMMA MessagesAreSent ==
    ASSUME WireIsConsistent, ServerIsConsistent, ServerIsConsistent',
           NEW ms, ServerSteps(ms), world.conn = jt
    PROVE  WireIsConsistent'
<1> DEFINE N == Len(toWorld)
<1>1. /\ toWorld \in Seq(ToWorld) /\ ms \in Seq(ToWorld) /\ toWorld' = toWorld \o ms
      /\ UNCHANGED <<world, jt>> /\ N \in Nat /\ DOMAIN toWorld = 1 .. N
  BY DEF WireIsConsistent, WireIsTyped, ServerSteps, Sent, ToWorld
<1>2. /\ toWorld' \in Seq(ToWorld)
      /\ \A i \in DOMAIN toWorld : i \in DOMAIN toWorld' /\ toWorld'[i] = toWorld[i]
      /\ \A j \in DOMAIN ms : N + j \in DOMAIN toWorld' /\ toWorld'[N + j] = ms[j]
      /\ \A i \in DOMAIN toWorld' :
            \/ i \in 1 .. N
            \/ \E j \in DOMAIN ms : j \in Nat \ {0} /\ i = N + j
  <2>1. toWorld' \in Seq(ToWorld) /\ Len(toWorld') = N + Len(ms) /\ DOMAIN toWorld' = 1 .. (N + Len(ms))
    BY <1>1
  <2>2. \A i \in 1 .. (N + Len(ms)) : toWorld'[i] = IF i <= N THEN toWorld[i] ELSE ms[i - N]
    BY <1>1
  <2>3. DOMAIN ms = 1 .. Len(ms) /\ Len(ms) \in Nat /\ N \in Nat /\ DOMAIN toWorld = 1 .. N
    BY <1>1
  <2> HIDE DEF N
  <2>4. \A j \in DOMAIN ms : N + j \in DOMAIN toWorld' /\ toWorld'[N + j] = ms[j]
    BY <2>1, <2>2, <2>3
  <2>5. \A i \in DOMAIN toWorld' : i \in 1 .. N \/ (i - N \in DOMAIN ms /\ i - N \in Nat \ {0} /\ i = N + (i - N))
    BY <2>1, <2>3
  <2> QED
    BY <2>1, <2>2, <2>3, <2>4, <2>5
<1> HIDE DEF N
<1>3. PICK d \in {0, 1} :
         /\ toServer # <<>> /\ toServer' = Tail(toServer) => d = 1
         /\ \A i \in DOMAIN toServer' :
               i \in Nat \ {0} /\ i + d \in DOMAIN toServer /\ toServer'[i] = toServer[i + d]
  BY CommandsLeft
<1>4. /\ toServer \in Seq(Command) /\ toServer' \in Seq(Command)
      /\ (toServer # <<>> => 1 \in DOMAIN toServer)
  BY CommandsLeft
<1>5. WireIsTyped'
  <2>1. pending' \subseteq CallIds
    BY DEF ServerIsConsistent
  <2>2. world.conn = 0 => toWorld' = <<>>
    BY <1>1 DEF WireIsConsistent, WireIsTyped, ServerSteps
  <2> QED
    BY <1>1, <1>2, <1>4, <2>1, <2>2 DEF WireIsConsistent, WireIsTyped, ServerSteps, ToWorld
<1>6. HelloIsFirst'
  <2>1. \A j \in DOMAIN ms : ~(ms[j].type = "version")
    BY DEF ServerSteps, Greets
  <2> QED
    BY <1>1, <1>2, <2>1 DEF WireIsConsistent, HelloIsFirst
<1>7. \A i \in DOMAIN toWorld', c \in CallIds :
         /\ Announces(toWorld'[i], c) =>
               \/ i \in DOMAIN toWorld /\ Announces(toWorld[i], c)
               \/ i = N + 1 /\ call[c] = "new" /\ call'[c] # "new"
         /\ Confirms(toWorld'[i], c) =>
               \/ i \in DOMAIN toWorld /\ Confirms(toWorld[i], c)
               \/ i = N + 1 /\ toServer # <<>> /\ Asks(toServer[1], c) /\ toServer' = Tail(toServer)
         /\ Reports(toWorld'[i], c) =>
               \/ i \in DOMAIN toWorld /\ Reports(toWorld[i], c)
               \/ i \notin DOMAIN toWorld /\ i > N /\ c \in Live
  <2> SUFFICES ASSUME NEW i \in DOMAIN toWorld', NEW c \in CallIds
               PROVE  /\ Announces(toWorld'[i], c) =>
                            \/ i \in DOMAIN toWorld /\ Announces(toWorld[i], c)
                            \/ i = N + 1 /\ call[c] = "new" /\ call'[c] # "new"
                      /\ Confirms(toWorld'[i], c) =>
                            \/ i \in DOMAIN toWorld /\ Confirms(toWorld[i], c)
                            \/ i = N + 1 /\ toServer # <<>> /\ Asks(toServer[1], c) /\ toServer' = Tail(toServer)
                      /\ Reports(toWorld'[i], c) =>
                            \/ i \in DOMAIN toWorld /\ Reports(toWorld[i], c)
                            \/ i \notin DOMAIN toWorld /\ i > N /\ c \in Live
    OBVIOUS
  <2>1. CASE i \in 1 .. N
    BY <1>1, <1>2, <2>1
  <2>2. CASE \E j \in DOMAIN ms : j \in Nat \ {0} /\ i = N + j
    <3>1. PICK j \in DOMAIN ms : j \in Nat \ {0} /\ i = N + j /\ toWorld'[i] = ms[j]
      BY <1>2, <2>2
    <3>2. i > N /\ i \notin DOMAIN toWorld
      BY <1>1, <3>1
    <3> QED
      BY <3>1, <3>2 DEF ServerSteps
  <2> QED
    BY <1>2, <2>1, <2>2
<1>8. ASSUME NEW c \in CallIds
      PROVE  StagesAreOrdered(c)'
  <2>1. StagesAreOrdered(c) /\ (call'[c] = "new" => call[c] = "new")
    BY DEF WireIsConsistent, ServerSteps
  <2>2. /\ \A i, j \in DOMAIN toWorld : Announces(toWorld[i], c) /\ Announces(toWorld[j], c) => i = j
        /\ \A i, j \in DOMAIN toServer : Asks(toServer[i], c) /\ Asks(toServer[j], c) => i = j
        /\ \A i \in DOMAIN toWorld :
              Announces(toWorld[i], c) \/ Confirms(toWorld[i], c) => call[c] # "new"
        /\ \A i, j \in DOMAIN toWorld : ~(Announces(toWorld[i], c) /\ Confirms(toWorld[j], c))
        /\ \A i \in DOMAIN toServer : Asks(toServer[i], c) =>
              /\ call[c] # "new" /\ (world.conn # 0 => c \in world.data)
              /\ \A j \in DOMAIN toWorld : ~Announces(toWorld[j], c) /\ ~Confirms(toWorld[j], c)
    BY <2>1, WireInMessages DEF StagesAreOrdered
  <2>3. \A i \in DOMAIN toServer' : Asks(toServer'[i], c) =>
           i + d \in DOMAIN toServer /\ Asks(toServer[i + d], c)
    BY <1>3
  <2>4. \A i, j \in DOMAIN toWorld' : Announces(toWorld'[i], c) /\ Announces(toWorld'[j], c) => i = j
    BY <1>7, <2>2
  <2>5. \A i, j \in DOMAIN toServer' : Asks(toServer'[i], c) /\ Asks(toServer'[j], c) => i = j
    BY <1>3, <2>2, <2>3
  <2>6. \A i \in DOMAIN toWorld' : Announces(toWorld'[i], c) \/ Confirms(toWorld'[i], c) => call'[c] # "new"
    BY <1>4, <1>7, <2>1, <2>2
  <2>7. \A i, j \in DOMAIN toWorld' : ~(Announces(toWorld'[i], c) /\ Confirms(toWorld'[j], c))
    BY <1>4, <1>7, <2>2, OneKind
  <2>8. ASSUME NEW i \in DOMAIN toServer', Asks(toServer'[i], c)
        PROVE  /\ call'[c] # "new" /\ (world'.conn # 0 => c \in world'.data)
               /\ \A j \in DOMAIN toWorld' : ~Announces(toWorld'[j], c) /\ ~Confirms(toWorld'[j], c)
    <3>1. i + d \in DOMAIN toServer /\ Asks(toServer[i + d], c) /\ i \in Nat \ {0}
      BY <1>3, <2>3, <2>8
    <3>2. call'[c] # "new" /\ (world'.conn # 0 => c \in world'.data)
      BY <1>1, <2>1, <2>2, <3>1
    <3>3. \A j \in DOMAIN toWorld' : ~Announces(toWorld'[j], c)
      BY <1>7, <2>2, <3>1
    <3>4. ~(toServer # <<>> /\ Asks(toServer[1], c) /\ toServer' = Tail(toServer))
      BY <1>3, <1>4, <2>2, <3>1
    <3>5. \A j \in DOMAIN toWorld' : ~Confirms(toWorld'[j], c)
      BY <1>7, <2>2, <3>1, <3>4
    <3> QED
      BY <3>2, <3>3, <3>5
  <2> QED
    BY <2>4, <2>5, <2>6, <2>7, <2>8 DEF StagesAreOrdered, Incoming, Asked, Answered, Announces, Asks, Confirms
<1>9. SessionsAreKnown'
  <2> SUFFICES ASSUME "replaced" \notin faults', NEW c \in Live', sessions'[c] = world'.conn
               PROVE  c \in world'.callers \/ \E i \in DOMAIN toWorld' : Confirms(toWorld'[i], c)
    BY DEF SessionsAreKnown, Answered, Confirms
  <2>1. CASE \E j \in DOMAIN ms : Confirms(ms[j], c)
    BY <1>2, <2>1
  <2>2. CASE c \in Live /\ sessions'[c] = sessions[c]
    <3>1. "replaced" \notin faults /\ sessions[c] = world.conn
      BY <1>1, <2>2 DEF ServerSteps
    <3>2. c \in world.callers \/ \E i \in DOMAIN toWorld : Confirms(toWorld[i], c)
      BY <2>2, <3>1, WireInMessages DEF WireIsConsistent, SessionsAreKnown
    <3> QED
      BY <1>1, <1>2, <3>2
  <2> QED
    BY <2>1, <2>2 DEF ServerSteps
<1>10. AnswersAreExpected'
  <2> SUFFICES ASSUME NEW c \in CallIds, NEW i \in DOMAIN toWorld', Confirms(toWorld'[i], c)
               PROVE  /\ c \in world'.data
                      /\ \A j \in DOMAIN toWorld' : Confirms(toWorld'[j], c) => i = j
    BY DEF AnswersAreExpected, Answered, Confirms
  <2>1. \A k, j \in DOMAIN toWorld : Confirms(toWorld[k], c) =>
           c \in world.data /\ (Confirms(toWorld[j], c) => k = j)
    BY WireInMessages DEF WireIsConsistent, AnswersAreExpected
  <2>2. StagesAreOrdered(c) /\ (world.conn = 0 => toWorld' = <<>>)
    BY <1>1 DEF WireIsConsistent, WireIsTyped, ServerSteps
  <2>3. Asks(toServer[1], c) /\ toServer # <<>> =>
           /\ \A j \in DOMAIN toWorld : ~Confirms(toWorld[j], c)
           /\ world.conn # 0 => c \in world.data
    BY <1>4, <2>2, WireInMessages DEF StagesAreOrdered
  <2>4. world.conn # 0
    BY <2>2
  <2> QED
    BY <1>1, <1>7, <2>1, <2>3, <2>4
<1>11. EventsFollowAnswer'
  <2> SUFFICES ASSUME "replaced" \notin faults',
                      NEW c \in CallIds, NEW i \in DOMAIN toWorld', Reports(toWorld'[i], c)
               PROVE  c \in world'.callers \/ \E j \in 1 .. (i - 1) : Confirms(toWorld'[j], c)
    BY DEF EventsFollowAnswer, Answered, Confirms, Reports
  <2>0. "replaced" \notin faults
    BY DEF ServerSteps
  <2>1. CASE i \in DOMAIN toWorld /\ Reports(toWorld[i], c)
    <3>1. c \in world.callers \/ \E j \in 1 .. (i - 1) : Confirms(toWorld[j], c)
      BY <2>0, <2>1, WireInMessages DEF WireIsConsistent, EventsFollowAnswer, Reports
    <3>2. i \in 1 .. N /\ 1 .. (i - 1) \subseteq DOMAIN toWorld
      BY <1>1, <2>1
    <3> QED
      BY <1>1, <1>2, <3>1, <3>2
  <2>2. CASE i \notin DOMAIN toWorld /\ i > N /\ c \in Live
    <3>1. sessions[c] = world.conn
      BY <2>0, <2>2 DEF ServerIsConsistent, SessionsAreConnected
    <3>2. c \in world.callers \/ \E j \in DOMAIN toWorld : Confirms(toWorld[j], c)
      BY <2>0, <2>2, <3>1, WireInMessages DEF WireIsConsistent, SessionsAreKnown
    <3>3. \A j \in 1 .. N : j \in 1 .. (i - 1)
      <4>1. i \in Nat
        BY <1>1, <1>2
      <4> QED
        BY <1>1, <2>2, <4>1
    <3> QED
      BY <1>1, <1>2, <3>2, <3>3
  <2> QED
    BY <1>7, <2>1, <2>2
<1> QED
  BY <1>5, <1>6, <1>8, <1>9, <1>10, <1>11 DEF WireIsConsistent

LEMMA ServerStepKeeps ==
    ASSUME WireIsConsistent, ServerIsConsistent, ServerIsConsistent', NEW ms, ServerSteps(ms)
    PROVE  WireIsConsistent'
BY NothingIsSent, MessagesAreSent

-----------------------------------------------------------------------------
(* The steps of the server and the peers.                                  *)

LEMMA OneMessage ==
    ASSUME NEW m \in ToWorld
    PROVE  <<m>> \in Seq(ToWorld) /\ DOMAIN <<m>> = {1} /\ <<m>>[1] = m
OBVIOUS

LEMMA ThenTheRest ==
    ASSUME NEW e \in ToWorld, NEW r \in Seq(ToWorld)
    PROVE  /\ <<e>> \o r \in Seq(ToWorld)
           /\ \A i \in DOMAIN (<<e>> \o r) :
                 (<<e>> \o r)[i] = e \/ \E j \in DOMAIN r : (<<e>> \o r)[i] = r[j]
<1> DEFINE q == <<e>>
           s == q \o r
<1>1. q \in Seq(ToWorld) /\ Len(q) = 1 /\ q[1] = e
  OBVIOUS
<1>2. Len(r) \in Nat /\ DOMAIN r = 1 .. Len(r)
  OBVIOUS
<1> HIDE DEF q
<1>3. /\ s \in Seq(ToWorld) /\ Len(s) = 1 + Len(r)
      /\ \A i \in 1 .. (1 + Len(r)) : s[i] = IF i <= 1 THEN q[i] ELSE r[i - 1]
  <2>1. /\ s \in Seq(ToWorld) /\ Len(s) = Len(q) + Len(r)
        /\ \A i \in 1 .. Len(q) + Len(r) : s[i] = IF i <= Len(q) THEN q[i] ELSE r[i - Len(q)]
    <3>1. q \in Seq(ToWorld) /\ r \in Seq(ToWorld)
      BY <1>1
    <3> QED
      BY <3>1, ConcatProperties, Zenon
  <2> HIDE DEF s
  <2> QED
    BY <1>1, <2>1
<1> HIDE DEF s
<1>4. DOMAIN s = 1 .. (1 + Len(r))
  BY <1>3
<1>5. ASSUME NEW i \in 1 .. (1 + Len(r))
      PROVE  s[i] = e \/ \E k \in DOMAIN r : s[i] = r[k]
  <2>1. i = 1 \/ (i - 1 \in DOMAIN r /\ i > 1)
    BY <1>2
  <2> QED
    BY <1>1, <1>3, <2>1
<1> QED
  BY <1>3, <1>4, <1>5 DEF q, s

LEMMA ReplyKind ==
    ASSUME NEW m \in Command, NEW ok \in BOOLEAN
    PROVE  /\ Reply(m, ok) \in ToWorld
           /\ ~Greets(Reply(m, ok))
           /\ \A c : /\ ~Announces(Reply(m, ok), c) /\ ~Reports(Reply(m, ok), c)
                     /\ Confirms(Reply(m, ok), c) <=> ok /\ m = [type |-> "answer", id |-> c]
<1>1. /\ Reply(m, ok).type = "response" /\ Reply(m, ok).to = m /\ Reply(m, ok).ok = ok
      /\ Reply(m, ok) \in Response
  BY DEF Reply, Response
<1> HIDE DEF Reply
<1> QED
  BY <1>1 DEF ToWorld, Greets, Announces, Reports, Confirms

LEMMA EventKind ==
    ASSUME NEW c \in CallIds, NEW t \in {"call_incoming", "call_closed", "dtmf"},
           NEW m, m = [type |-> t, id |-> c]
    PROVE  /\ m \in ToWorld /\ ~Greets(m)
           /\ \A x : /\ ~Confirms(m, x)
                     /\ Announces(m, x) <=> x = c /\ t = "call_incoming"
                     /\ Reports(m, x) <=> x = c /\ t # "call_incoming"
<1>1. m.type = t /\ m.id = c /\ m \in Event
  BY DEF Event
<1>2. \A x : Announces(m, x) <=> x = c /\ t = "call_incoming"
  BY DEF Announces
<1> QED
  BY <1>1, <1>2 DEF ToWorld, Greets, Reports, Confirms

\* The events of a Session, and the response to the command that ends it.
LEMMA EmitForSends ==
    ASSUME NEW c \in CallIds, NEW t \in {"call_closed", "dtmf"},
           NEW e, e = [type |-> t, id |-> c],
           NEW r \in Seq(ToWorld),
           \A i \in DOMAIN r, x \in CallIds :
              ~Greets(r[i]) /\ ~Announces(r[i], x) /\ ~Confirms(r[i], x) /\ ~Reports(r[i], x),
           EmitFor(c, e, r)
    PROVE  \E ms \in Seq(ToWorld) :
              /\ toWorld' = Sent(ms)
              /\ \A i \in DOMAIN ms : ~Greets(ms[i])
              /\ \A i \in DOMAIN ms, x \in CallIds :
                    ~Announces(ms[i], x) /\ ~Confirms(ms[i], x) /\ (Reports(ms[i], x) => x = c)
<1>0. ASSUME NEW i \in DOMAIN r
      PROVE  ~Greets(r[i])
  BY <1>0
<1>1. /\ e \in ToWorld /\ ~Greets(e)
      /\ \A x : ~Announces(e, x) /\ ~Confirms(e, x) /\ (Reports(e, x) => x = c)
  BY EventKind
<1>2. CASE toWorld' = Sent(<<e>> \o r)
  <2> DEFINE ms == <<e>> \o r
  <2>1. ms \in Seq(ToWorld) /\ \A i \in DOMAIN ms : ms[i] = e \/ \E j \in DOMAIN r : ms[i] = r[j]
    BY <1>1, ThenTheRest
  <2>2. toWorld' = Sent(ms)
    BY <1>2
  <2> HIDE DEF ms
  <2> QED
    BY <1>0, <1>1, <2>1, <2>2
<1>3. CASE toWorld' = Sent(r)
  BY <1>0, <1>3
<1> QED
  BY <1>2, <1>3 DEF EmitFor

\* A Session has a connection: there is none before the first.
LEMMA LiveIsConnected ==
    ASSUME ServerIsConsistent, NEW c \in Live
    PROVE  jt # 0
BY DEF ServerIsConsistent

\* A step that reports something of a call with a Session.
LEMMA ReportSteps ==
    ASSUME WireIsConsistent, ServerIsConsistent, NEW c \in Live,
           NEW ms \in Seq(ToWorld), toWorld' = Sent(ms),
           \A i \in DOMAIN ms : ~Greets(ms[i]),
           \A i \in DOMAIN ms, x \in CallIds :
              ~Announces(ms[i], x) /\ ~Confirms(ms[i], x) /\ (Reports(ms[i], x) => x = c),
           UNCHANGED <<world, jt, agents>>, faults \subseteq faults',
           toServer' = toServer \/ (toServer # <<>> /\ toServer' = Tail(toServer)),
           \A x \in CallIds : call'[x] = "new" => call[x] = "new",
           \A x \in Live' : x \in Live /\ sessions'[x] = sessions[x]
    PROVE  ServerSteps(ms)
<1>1. jt # 0
  BY LiveIsConnected
<1>2. agents' \in BOOLEAN
  BY DEF WireIsConsistent, WireIsTyped
<1> QED
  BY <1>1, <1>2 DEF ServerSteps

\* A step that sends nothing or a plain response.
LEMMA SilentSteps ==
    ASSUME WireIsConsistent, NEW ms \in Seq(ToWorld), toWorld' = Sent(ms),
           jt = 0 => ms = <<>>,
           \A i \in DOMAIN ms : ~Greets(ms[i]),
           \A i \in DOMAIN ms, x \in CallIds :
              ~Announces(ms[i], x) /\ ~Confirms(ms[i], x) /\ ~Reports(ms[i], x),
           UNCHANGED <<world, jt, agents>>, faults \subseteq faults',
           toServer' = toServer \/ (toServer # <<>> /\ toServer' = Tail(toServer)),
           \A x \in CallIds : call'[x] = "new" => call[x] = "new",
           \A x \in Live' : x \in Live /\ sessions'[x] = sessions[x]
    PROVE  ServerSteps(ms)
<1>1. agents' \in BOOLEAN /\ (jt = 0 => ~agents')
  BY DEF WireIsConsistent, WireIsTyped
<1> QED
  BY <1>1 DEF ServerSteps

LEMMA ListenSends ==
    ASSUME WireIsConsistent, ServerIsConsistent, Listen
    PROVE  \E ms : ServerSteps(ms)
<1>1. PICK ok \in BOOLEAN, m \in {[type |-> "listen"]} :
         /\ Receive(m) /\ agents' = (agents \/ ok) /\ toWorld' = Sent(<<Reply(m, ok)>>)
         /\ UNCHANGED <<call, pending, sessions, crashed, faults>>
  BY DEF Listen
<1> DEFINE r == Reply(m, ok)
<1>2. m \in Command /\ \A c : m # [type |-> "answer", id |-> c]
  <2>1. m \in Command
    BY DEF Command
  <2>2. m.type = "listen"
    OBVIOUS
  <2>3. \A c : [type |-> "answer", id |-> c].type = "answer"
    OBVIOUS
  <2> QED
    BY <2>1, <2>2, <2>3
<1>3. r \in ToWorld /\ ~Greets(r) /\ \A c : ~Announces(r, c) /\ ~Reports(r, c) /\ ~Confirms(r, c)
  BY <1>2, ReplyKind
<1> HIDE DEF r
<1>4. <<r>> \in Seq(ToWorld) /\ DOMAIN <<r>> = {1} /\ <<r>>[1] = r
  BY <1>3, OneMessage
<1>5. jt # 0 /\ UNCHANGED <<jt, world>> /\ toServer # <<>> /\ toServer' = Tail(toServer)
  BY <1>1 DEF Receive, ServerIsConsistent
<1>6. agents' \in BOOLEAN
  BY <1>1 DEF WireIsConsistent, WireIsTyped
<1>7. toWorld' = Sent(<<r>>)
  BY <1>1 DEF r
<1> DEFINE ms == <<r>>
<1> HIDE DEF ms
<1>8. ServerSteps(ms)
  <2>1. ms \in Seq(ToWorld) /\ DOMAIN ms = {1} /\ ms[1] = r /\ toWorld' = Sent(ms)
    BY <1>4, <1>7 DEF ms
  <2> QED
    BY <1>1, <1>3, <1>5, <1>6, <2>1 DEF ServerSteps
<1> QED
  BY <1>8

LEMMA AnswerSends ==
    ASSUME WireIsConsistent, ServerIsConsistent, NEW c \in CallIds, Answer(c)
    PROVE  \E ms : ServerSteps(ms)
<1> DEFINE m == [type |-> "answer", id |-> c]
<1>1. PICK ok \in BOOLEAN :
         /\ Receive(m) /\ toWorld' = Sent(<<Reply(m, ok)>>)
         /\ ok => c \in pending
         /\ \E b \in BOOLEAN : call' = [call EXCEPT ![c] = IF ok /\ b THEN "up" ELSE @]
         /\ sessions' = IF ok THEN Opened(c) ELSE sessions
         /\ faults \subseteq faults' /\ UNCHANGED agents
  BY DEF Answer
<1> DEFINE r == Reply(m, ok)
<1>2. m \in Command /\ m.type = "answer"
  BY DEF Command
<1>3. /\ r \in ToWorld /\ ~Greets(r)
      /\ \A x : ~Announces(r, x) /\ ~Reports(r, x) /\ (Confirms(r, x) <=> ok /\ x = c)
  <2>1. \A x : m = [type |-> "answer", id |-> x] <=> x = c
    OBVIOUS
  <2> HIDE DEF m
  <2> QED
    BY <1>2, <2>1, ReplyKind
<1>4. /\ jt # 0 /\ UNCHANGED <<jt, world>> /\ toServer # <<>> /\ toServer' = Tail(toServer)
      /\ Asks(toServer[1], c)
  BY <1>1 DEF Receive, ServerIsConsistent, Asks
<1>5. toWorld' = Sent(<<r>>)
  BY <1>1
<1> HIDE DEF r, m
<1>6. <<r>> \in Seq(ToWorld) /\ DOMAIN <<r>> = {1} /\ <<r>>[1] = r
  BY <1>3, OneMessage
<1>7. agents' \in BOOLEAN
  BY <1>1 DEF WireIsConsistent, WireIsTyped
<1>8. \A x \in CallIds : call'[x] = "new" => call[x] = "new"
  BY <1>1 DEF ServerIsConsistent
<1>9. \A x \in Live' : (x \in Live /\ sessions'[x] = sessions[x]) \/ (ok /\ x = c)
  <2>1. CASE ok
    <3>1. sessions' = Opened(c) /\ tc # 0
      BY <1>1, <2>1 DEF Receive
    <3> QED
      BY <2>1, <3>1, OpenedType
  <2>2. CASE ~ok
    BY <1>1, <2>2
  <2> QED
    BY <2>1, <2>2
<1> DEFINE ms == <<r>>
<1> HIDE DEF ms
<1>10. \A x \in Live' : \/ x \in Live /\ sessions'[x] = sessions[x]
                        \/ \E i \in DOMAIN ms : Confirms(ms[i], x)
  BY <1>3, <1>6, <1>9 DEF ms
<1>11. ServerSteps(ms)
  BY <1>1, <1>3, <1>4, <1>5, <1>6, <1>7, <1>8, <1>10 DEF ServerSteps, ms
<1> QED
  BY <1>11

\* What the erasure of sessions does to those that are left.
LEMMA ErasedLeaves ==
    ASSUME ServerIsConsistent, NEW C \in SUBSET CallIds, Erased(C)
    PROVE  /\ \A x \in CallIds : call'[x] = "new" => call[x] = "new"
           /\ \A x \in Live' : x \in Live /\ sessions'[x] = sessions[x]
<1>1. /\ \A x \in CallIds : call'[x] = IF x \in C THEN "over" ELSE call[x]
      /\ Live' = Live \ C
      /\ \A x \in Live' : sessions'[x] = sessions[x]
  BY ErasedKeeps
<1> QED
  BY <1>1

LEMMA NoMessage ==
    ASSUME WireIsConsistent
    PROVE  <<>> \in Seq(ToWorld) /\ DOMAIN <<>> = {} /\ Sent(<<>>) = toWorld
<1>1. toWorld \in Seq(ToWorld)
  BY DEF WireIsConsistent, WireIsTyped, ToWorld
<1> QED
  BY <1>1 DEF Sent

LEMMA HangupSends ==
    ASSUME WireIsConsistent, ServerIsConsistent, NEW c \in CallIds, Hangup(c)
    PROVE  \E ms : ServerSteps(ms)
<1> DEFINE m == [type |-> "hangup", id |-> c]
           r == Reply(m, TRUE)
           q == <<r>>
<1>1. /\ Receive(m) /\ UNCHANGED <<agents, pending>>
  BY DEF Hangup
<1>2. m \in Command /\ m.type = "hangup" /\ \A x : m # [type |-> "answer", id |-> x]
  <2>1. m \in Command /\ m.type = "hangup"
    BY DEF Command
  <2>2. \A x : [type |-> "answer", id |-> x].type = "answer"
    OBVIOUS
  <2> QED
    BY <2>1, <2>2
<1>3. /\ UNCHANGED <<jt, world>> /\ toServer # <<>> /\ toServer' = Tail(toServer)
      /\ jt # 0
  BY <1>1 DEF Receive, ServerIsConsistent
<1>4. \/ /\ c \in Live /\ Erased({c}) /\ EmitFor(c, Closed(c), q)
         /\ UNCHANGED faults
      \/ /\ \E over \in BOOLEAN : call' = [call EXCEPT ![c] = IF over THEN "over" ELSE @]
         /\ toWorld' = Sent(q) /\ faults \subseteq faults' /\ UNCHANGED sessions
  BY DEF Hangup
<1> HIDE DEF m
<1>5. r \in ToWorld /\ ~Greets(r) /\ \A x : ~Announces(r, x) /\ ~Reports(r, x) /\ ~Confirms(r, x)
  BY <1>2, ReplyKind
<1> HIDE DEF r
<1>6. q \in Seq(ToWorld) /\ DOMAIN q = {1} /\ q[1] = r
  BY <1>5, OneMessage
<1> HIDE DEF q
<1>7. \A i \in DOMAIN q, x \in CallIds :
         ~Greets(q[i]) /\ ~Announces(q[i], x) /\ ~Confirms(q[i], x) /\ ~Reports(q[i], x)
  BY <1>5, <1>6
<1>8. \A i \in DOMAIN q : ~Greets(q[i])
  BY <1>5, <1>6
<1>9. CASE c \in Live /\ Erased({c}) /\ EmitFor(c, Closed(c), q) /\ UNCHANGED faults
  <2> DEFINE e == [type |-> "call_closed", id |-> c]
  <2>1. EmitFor(c, e, q)
    BY <1>9 DEF Closed
  <2> HIDE DEF e
  <2>2. e = [type |-> "call_closed", id |-> c]
    BY DEF e
  <2>3. PICK ms \in Seq(ToWorld) :
           /\ toWorld' = Sent(ms)
           /\ \A i \in DOMAIN ms : ~Greets(ms[i])
           /\ \A i \in DOMAIN ms, x \in CallIds :
                 ~Announces(ms[i], x) /\ ~Confirms(ms[i], x) /\ (Reports(ms[i], x) => x = c)
    BY <1>6, <1>7, <2>1, <2>2, EmitForSends
  <2>4. /\ \A x \in CallIds : call'[x] = "new" => call[x] = "new"
        /\ \A x \in Live' : x \in Live /\ sessions'[x] = sessions[x]
    BY <1>9, ErasedLeaves
  <2> QED
    BY <1>1, <1>3, <1>9, <2>3, <2>4, ReportSteps
<1>10. CASE /\ \E over \in BOOLEAN : call' = [call EXCEPT ![c] = IF over THEN "over" ELSE @]
            /\ toWorld' = Sent(q) /\ faults \subseteq faults' /\ UNCHANGED sessions
  <2>1. \A x \in CallIds : call'[x] = "new" => call[x] = "new"
    BY <1>10 DEF ServerIsConsistent
  <2> QED
    BY <1>1, <1>3, <1>6, <1>7, <1>8, <1>10, <2>1, SilentSteps
<1> QED
  BY <1>4, <1>9, <1>10

LEMMA PeerCallsSends ==
    ASSUME WireIsConsistent, ServerIsConsistent, NEW c \in CallIds, PeerCalls(c)
    PROVE  \E ms : ServerSteps(ms)
<1> DEFINE e == [type |-> "call_incoming", id |-> c]
           ms == <<e>>
<1>1. /\ agents /\ call[c] = "new" /\ call' = [call EXCEPT ![c] = "ringing"]
      /\ toWorld' = Sent(ms)
      /\ UNCHANGED <<agents, sessions, tc, jt, world, toServer, faults>>
  BY DEF PeerCalls
<1>2. /\ e \in ToWorld /\ ~Greets(e)
      /\ \A x : ~Confirms(e, x) /\ ~Reports(e, x) /\ (Announces(e, x) <=> x = c)
  BY EventKind
<1> HIDE DEF e
<1>3. ms \in Seq(ToWorld) /\ DOMAIN ms = {1} /\ ms[1] = e
  BY <1>2, OneMessage
<1>4. jt # 0 /\ agents' \in BOOLEAN
  BY <1>1 DEF WireIsConsistent, WireIsTyped
<1>5. /\ \A x \in CallIds : call'[x] = "new" => call[x] = "new"
      /\ call'[c] # "new"
  BY <1>1 DEF ServerIsConsistent
<1> HIDE DEF ms
<1>6. ServerSteps(ms)
  BY <1>1, <1>2, <1>3, <1>4, <1>5 DEF ServerSteps
<1> QED
  BY <1>6

\* PeerGivesUp and Disconnected send nothing.
LEMMA QuietSteps ==
    ASSUME WireIsConsistent, ServerIsConsistent,
           Disconnected \/ \E c \in CallIds : PeerGivesUp(c)
    PROVE  \E ms : ServerSteps(ms)
<1> DEFINE ms == <<>>
<1>1. ms \in Seq(ToWorld) /\ DOMAIN ms = {} /\ Sent(ms) = toWorld
  BY NoMessage
<1>2. UNCHANGED <<agents, jt, world, toServer, toWorld, faults>>
  BY DEF Disconnected, PeerGivesUp
<1>3. /\ \A x \in CallIds : call'[x] = "new" => call[x] = "new"
      /\ \A x \in Live' : x \in Live /\ sessions'[x] = sessions[x]
  <2>1. CASE Disconnected
    <3>1. Erased(Live) /\ Live \in SUBSET CallIds
      BY <2>1 DEF Disconnected, ServerIsConsistent
    <3> QED
      BY <3>1, ErasedLeaves
  <2>2. CASE \E c \in CallIds : PeerGivesUp(c)
    BY <2>2 DEF PeerGivesUp, ServerIsConsistent
  <2> QED
    BY <2>1, <2>2
<1>4. ServerSteps(ms)
  BY <1>1, <1>2, <1>3, SilentSteps
<1> QED
  BY <1>4

\* PeerHangsUp and PeerDials report something of a call that is up.
LEMMA PeerReports ==
    ASSUME WireIsConsistent, ServerIsConsistent, NEW c \in CallIds,
           PeerHangsUp(c) \/ PeerDials(c)
    PROVE  \E ms : ServerSteps(ms)
<1>1. c \in Live
  BY DEF PeerHangsUp, PeerDials, ServerIsConsistent
<1>2. UNCHANGED <<agents, jt, world, toServer, faults>>
  BY DEF PeerHangsUp, PeerDials
<1>3. /\ \A x \in CallIds : call'[x] = "new" => call[x] = "new"
      /\ \A x \in Live' : x \in Live /\ sessions'[x] = sessions[x]
  <2>1. CASE PeerHangsUp(c)
    <3>1. Erased({c})
      BY <2>1 DEF PeerHangsUp
    <3> QED
      BY <3>1, ErasedLeaves
  <2>2. CASE PeerDials(c)
    BY <2>2 DEF PeerDials
  <2> QED
    BY <2>1, <2>2
<1>4. PICK t \in {"call_closed", "dtmf"} : EmitFor(c, [type |-> t, id |-> c], <<>>)
  BY DEF PeerHangsUp, PeerDials, Closed
<1> DEFINE e == [type |-> t, id |-> c]
           r == <<>>
<1>5. e = [type |-> t, id |-> c] /\ r \in Seq(ToWorld) /\ DOMAIN r = {} /\ EmitFor(c, e, r)
  BY <1>4, NoMessage
<1> HIDE DEF e, r
<1>6. PICK ms \in Seq(ToWorld) :
         /\ toWorld' = Sent(ms)
         /\ \A i \in DOMAIN ms : ~Greets(ms[i])
         /\ \A i \in DOMAIN ms, x \in CallIds :
               ~Announces(ms[i], x) /\ ~Confirms(ms[i], x) /\ (Reports(ms[i], x) => x = c)
  BY <1>5, EmitForSends
<1> QED
  BY <1>1, <1>2, <1>3, <1>6, ReportSteps

-----------------------------------------------------------------------------
(* The steps of the world.                                                 *)

\* A read of n messages made s: the rest of the messages remain, and the
\* commands go behind those that are on the wire.
HasRead(s, n) ==
    /\ n \in 1 .. Len(toWorld) /\ MadeOf(s, n)
    /\ world' = s.world /\ toServer' = toServer \o s.out
    /\ toWorld' = SubSeq(toWorld, n + 1, Len(toWorld))
    /\ UNCHANGED <<call, agents, pending, sessions, jt, faults>>

LEMMA WireAnnouncesOnce == WireIsConsistent => AnnouncedOnce
<1> SUFFICES ASSUME WireIsConsistent
             PROVE  AnnouncedOnce
  OBVIOUS
<1>1. \A c \in CallIds : StagesAreOrdered(c)
  BY DEF WireIsConsistent
<1>2. world \in World /\ toWorld \in Seq(ToWorld)
  BY DEF WireIsConsistent, WireIsTyped, ToWorld
<1> QED
  BY <1>1, <1>2, WireInMessages DEF AnnouncedOnce, StagesAreOrdered

LEMMA WorldReadsSo ==
    ASSUME WireIsConsistent, WorldReads
    PROVE  \E s, n : HasRead(s, n) /\ world.conn # 0
<1>0. PICK n \in 1 .. Len(toWorld) : \E yes :
         /\ world' = Handled(yes, n).world
         /\ toServer' = toServer \o Handled(yes, n).out
         /\ toWorld' = SubSeq(toWorld, n + 1, Len(toWorld))
  BY DEF WorldReads, Read
<1>1. PICK yes :
         /\ world' = Handled(yes, n).world
         /\ toServer' = toServer \o Handled(yes, n).out
         /\ toWorld' = SubSeq(toWorld, n + 1, Len(toWorld))
  BY <1>0
<1>2. n \in 0 .. Len(toWorld)
  <2>1. toWorld \in Seq(ToWorld)
    BY DEF WireIsConsistent, WireIsTyped, ToWorld
  <2> QED
    BY <2>1
<1>3. MadeOf(Handled(yes, n), n)
  BY <1>2, ReadMakes, WireAnnouncesOnce
<1> QED
  BY <1>1, <1>3 DEF HasRead, WorldReads

LEMMA DropFirst ==
    ASSUME NEW S, NEW s \in Seq(S), NEW n \in 1 .. Len(s), NEW t, t = SubSeq(s, n + 1, Len(s))
    PROVE  t \in Seq(S) /\ Len(t) = Len(s) - n /\ \A i \in 1 .. Len(s) - n : t[i] = s[n + i]
<1>1. t \in Seq(S) /\ Len(t) = Len(s) - n
  OBVIOUS
<1>2. \A i \in 1 .. Len(s) - n : t[i] = s[n + i]
  OBVIOUS
<1> QED
  BY <1>1, <1>2

\* What is left on the wire after a read.
LEMMA LeftToRead ==
    ASSUME WireIsConsistent, NEW s, NEW n, HasRead(s, n)
    PROVE  /\ toWorld \in Seq(ToWorld) /\ toWorld' \in Seq(ToWorld)
           /\ n \in Nat \ {0} /\ n \in DOMAIN toWorld /\ 1 .. n \subseteq DOMAIN toWorld
           /\ \A i \in DOMAIN toWorld' :
                 i \in Nat \ {0} /\ n + i \in DOMAIN toWorld /\ toWorld'[i] = toWorld[n + i]
           /\ \A i \in DOMAIN toWorld :
                 i \in 1 .. n \/ (i > n /\ i - n \in DOMAIN toWorld' /\ toWorld'[i - n] = toWorld[i])
<1>1. toWorld \in Seq(ToWorld) /\ n \in 1 .. Len(toWorld)
  BY DEF WireIsConsistent, WireIsTyped, ToWorld, HasRead
<1> DEFINE N == Len(toWorld)
<1>2. N \in Nat /\ n \in Nat \ {0} /\ n <= N /\ DOMAIN toWorld = 1 .. N
  BY <1>1
<1>3. /\ toWorld' \in Seq(ToWorld) /\ Len(toWorld') = N - n
      /\ \A i \in 1 .. (N - n) : toWorld'[i] = toWorld[n + i]
  <2>1. toWorld' = SubSeq(toWorld, n + 1, N)
    BY DEF HasRead
  <2> QED
    BY <1>1, <2>1, DropFirst
<1>4. DOMAIN toWorld' = 1 .. (N - n)
  BY <1>3
<1> HIDE DEF N
<1> QED
  BY <1>1, <1>2, <1>3, <1>4

\* Unless a connection was replaced, no answer is lost in a read.
LEMMA AnswersAreRead ==
    ASSUME WireIsConsistent, NEW s, NEW n, HasRead(s, n), "replaced" \notin faults,
           NEW c \in CallIds, NEW i \in 1 .. n, Confirms(toWorld[i], c)
    PROVE  c \in world'.callers
<1>1. /\ toWorld \in Seq(ToWorld) /\ n \in Nat \ {0} /\ 1 .. n \subseteq DOMAIN toWorld
  BY LeftToRead
<1>2. c \in world.data
  BY <1>1, WireInMessages DEF WireIsConsistent, AnswersAreExpected
<1>3. \A j \in 1 .. n : ~Greets(toWorld[j])
  BY <1>1, <1>2 DEF WireIsConsistent, HelloIsFirst, Greets
<1>4. \A j \in 1 .. n, x \in CallIds :
         Reports(toWorld[j], x) => \/ x \in world.callers
                                   \/ \E k \in 1 .. (j - 1) : Confirms(toWorld[k], x)
  BY <1>1, WireInMessages DEF WireIsConsistent, EventsFollowAnswer, Reports
<1>5. ~s.left
  BY <1>3, <1>4 DEF HasRead, MadeOf
<1> QED
  BY <1>5 DEF HasRead, MadeOf

\* The commands after a read.
LEMMA AskedByRead ==
    ASSUME WireIsConsistent, NEW s, NEW n, HasRead(s, n)
    PROVE  /\ toServer' \in Seq(Command)
           /\ \A i \in DOMAIN toServer' :
                 \/ i \in DOMAIN toServer /\ toServer'[i] = toServer[i]
                 \/ /\ i \notin DOMAIN toServer /\ i - Len(toServer) \in DOMAIN s.out
                    /\ toServer'[i] = s.out[i - Len(toServer)]
<1>1. toServer \in Seq(Command) /\ s.out \in Seq(Command) /\ toServer' = toServer \o s.out
  BY DEF WireIsConsistent, WireIsTyped, HasRead, MadeOf, Progress
<1> DEFINE q == s.out
           N == Len(toServer)
<1>2. q \in Seq(Command) /\ N \in Nat /\ Len(q) \in Nat /\ DOMAIN q = 1 .. Len(q) /\ DOMAIN toServer = 1 .. N
  BY <1>1
<1>3. toServer' = toServer \o q
  BY <1>1
<1> HIDE DEF q
<1>4. /\ toServer' \in Seq(Command) /\ DOMAIN toServer' = 1 .. (N + Len(q))
      /\ \A i \in 1 .. (N + Len(q)) : toServer'[i] = IF i <= N THEN toServer[i] ELSE q[i - N]
  BY <1>1, <1>2, <1>3
<1> HIDE DEF N
<1>5. ASSUME NEW i \in 1 .. (N + Len(q))
      PROVE  \/ i \in 1 .. N /\ toServer'[i] = toServer[i]
             \/ i \notin 1 .. N /\ i - N \in 1 .. Len(q) /\ toServer'[i] = q[i - N]
  BY <1>2, <1>4
<1> QED
  BY <1>2, <1>4, <1>5 DEF q, N

LEMMA ReadKeepsStages ==
    ASSUME WireIsConsistent, NEW s, NEW n, HasRead(s, n), NEW c \in CallIds
    PROVE  StagesAreOrdered(c)'
<1>1. /\ n \in Nat \ {0} /\ 1 .. n \subseteq DOMAIN toWorld
      /\ \A i \in DOMAIN toWorld' :
            i \in Nat \ {0} /\ n + i \in DOMAIN toWorld /\ toWorld'[i] = toWorld[n + i]
  BY LeftToRead
<1>2. \A i \in DOMAIN toServer' :
         \/ i \in DOMAIN toServer /\ toServer'[i] = toServer[i]
         \/ /\ i \notin DOMAIN toServer /\ i - Len(toServer) \in DOMAIN s.out
            /\ toServer'[i] = s.out[i - Len(toServer)]
  BY AskedByRead
<1>3. /\ \A i, j \in DOMAIN toWorld : Announces(toWorld[i], c) /\ Announces(toWorld[j], c) => i = j
      /\ \A i, j \in DOMAIN toServer : Asks(toServer[i], c) /\ Asks(toServer[j], c) => i = j
      /\ \A i \in DOMAIN toWorld :
            Announces(toWorld[i], c) \/ Confirms(toWorld[i], c) => call[c] # "new"
      /\ \A i, j \in DOMAIN toWorld : ~(Announces(toWorld[i], c) /\ Confirms(toWorld[j], c))
      /\ \A i \in DOMAIN toServer : Asks(toServer[i], c) =>
            /\ call[c] # "new" /\ (world.conn # 0 => c \in world.data)
            /\ \A j \in DOMAIN toWorld : ~Announces(toWorld[j], c) /\ ~Confirms(toWorld[j], c)
  BY WireInMessages DEF WireIsConsistent, StagesAreOrdered
<1>4. call' = call /\ world'.conn = world.conn /\ world' = s.world
  BY DEF HasRead, MadeOf
<1>5. \A i \in DOMAIN s.out : s.out[i].id = c =>
         c \in world'.data /\ \E j \in 1 .. n : Announces(toWorld[j], c)
  BY <1>4 DEF HasRead, MadeOf
<1>6. \A i, j \in DOMAIN s.out : s.out[i].id = c /\ s.out[j].id = c => i = j
  BY DEF HasRead, MadeOf
<1>7. \A m : Asks(m, c) => m.id = c
  BY DEF Asks
<1>8. c \in world.data \ world'.data => \E j \in 1 .. n : Confirms(toWorld[j], c)
  BY <1>4 DEF HasRead, MadeOf
<1>9. \A i, j \in DOMAIN toServer' : Asks(toServer'[i], c) /\ Asks(toServer'[j], c) => i = j
  <2> SUFFICES ASSUME NEW i \in DOMAIN toServer', NEW j \in DOMAIN toServer',
                      Asks(toServer'[i], c), Asks(toServer'[j], c)
               PROVE  i = j
    OBVIOUS
  <2>1. CASE i \in DOMAIN toServer /\ j \in DOMAIN toServer
    BY <1>2, <1>3, <2>1
  <2>2. CASE i \notin DOMAIN toServer /\ j \notin DOMAIN toServer
    <3>1. i - Len(toServer) = j - Len(toServer)
      BY <1>2, <1>6, <1>7, <2>2
    <3>2. i \in Nat /\ j \in Nat /\ Len(toServer) \in Nat
      <4>1. toServer \in Seq(Command) /\ toServer' \in Seq(Command)
        BY AskedByRead DEF WireIsConsistent, WireIsTyped
      <4> QED
        BY <4>1
    <3> QED
      BY <3>1, <3>2
  <2>3. CASE \/ i \in DOMAIN toServer /\ j \notin DOMAIN toServer
             \/ i \notin DOMAIN toServer /\ j \in DOMAIN toServer
    <3>1. \E k \in DOMAIN toServer : Asks(toServer[k], c)
      BY <1>2, <2>3
    <3>2. \E k \in 1 .. n : Announces(toWorld[k], c)
      BY <1>2, <1>5, <1>7, <2>3
    <3> QED
      BY <1>1, <1>3, <3>1, <3>2
  <2> QED
    BY <2>1, <2>2, <2>3
<1>10. \A i, j \in DOMAIN toWorld' : Announces(toWorld'[i], c) /\ Announces(toWorld'[j], c) => i = j
  BY <1>1, <1>3
<1>11. \A i, j \in DOMAIN toWorld' :
          /\ Announces(toWorld'[i], c) \/ Confirms(toWorld'[i], c) => call'[c] # "new"
          /\ ~(Announces(toWorld'[i], c) /\ Confirms(toWorld'[j], c))
  BY <1>1, <1>3, <1>4
<1>12. ASSUME NEW i \in DOMAIN toServer', Asks(toServer'[i], c)
       PROVE  /\ call'[c] # "new" /\ (world'.conn # 0 => c \in world'.data)
              /\ \A j \in DOMAIN toWorld' : ~Announces(toWorld'[j], c) /\ ~Confirms(toWorld'[j], c)
  <2>1. CASE i \in DOMAIN toServer
    <3>1. Asks(toServer[i], c)
      BY <1>2, <1>12, <2>1
    <3> QED
      BY <1>1, <1>3, <1>4, <1>8, <2>1, <3>1
  <2>2. CASE i \notin DOMAIN toServer
    <3>1. c \in world'.data /\ \E j \in 1 .. n : Announces(toWorld[j], c)
      BY <1>2, <1>5, <1>7, <1>12, <2>2
    <3>2. PICK j \in 1 .. n : Announces(toWorld[j], c)
      BY <3>1
    <3>3. \A k \in DOMAIN toWorld' : n + k # j
      BY <1>1
    <3> QED
      BY <1>1, <1>3, <1>4, <3>1, <3>2, <3>3
  <2> QED
    BY <2>1, <2>2
<1> QED
  BY <1>9, <1>10, <1>11, <1>12 DEF StagesAreOrdered, Incoming, Asked, Answered, Announces, Asks, Confirms

LEMMA ReadKeeps ==
    ASSUME WireIsConsistent, NEW s, NEW n, HasRead(s, n), world.conn # 0
    PROVE  WireIsConsistent'
<1>1. /\ toWorld \in Seq(ToWorld) /\ toWorld' \in Seq(ToWorld)
      /\ n \in Nat \ {0} /\ 1 .. n \subseteq DOMAIN toWorld /\ n \in DOMAIN toWorld
      /\ \A i \in DOMAIN toWorld' :
            i \in Nat \ {0} /\ n + i \in DOMAIN toWorld /\ toWorld'[i] = toWorld[n + i]
      /\ \A i \in DOMAIN toWorld :
            i \in 1 .. n \/ (i > n /\ i - n \in DOMAIN toWorld' /\ toWorld'[i - n] = toWorld[i])
  BY LeftToRead
<1>2. /\ world' \in World /\ world'.conn = world.conn /\ world.callers \subseteq world'.callers
      /\ \A c \in world.data \ world'.data : \E j \in 1 .. n : Confirms(toWorld[j], c)
      /\ UNCHANGED <<call, agents, pending, sessions, jt, faults>>
  BY DEF HasRead, MadeOf, Progress
<1>3. WireIsTyped'
  BY <1>1, <1>2, AskedByRead DEF WireIsConsistent, WireIsTyped, ToWorld
<1>4. HelloIsFirst'
  BY <1>1 DEF WireIsConsistent, HelloIsFirst
<1>5. \A c \in CallIds : StagesAreOrdered(c)'
  BY ReadKeepsStages
<1>6. SessionsAreKnown'
  <2> SUFFICES ASSUME "replaced" \notin faults, NEW c \in Live, sessions[c] = world.conn
               PROVE  c \in world'.callers \/ \E i \in DOMAIN toWorld' : Confirms(toWorld'[i], c)
    BY <1>2 DEF SessionsAreKnown, Answered, Confirms
  <2>1. CASE c \in world.callers
    BY <1>2, <2>1
  <2>2. CASE \E i \in DOMAIN toWorld : Confirms(toWorld[i], c)
    <3>1. c \in CallIds
      <4>1. PICK i \in DOMAIN toWorld : Confirms(toWorld[i], c)
        BY <2>2
      <4>2. toWorld[i] \in ToWorld /\ toWorld[i].type = "response" /\ toWorld[i].to = [type |-> "answer", id |-> c]
        BY <1>1, <4>1 DEF Confirms
      <4>3. [type |-> "answer", id |-> c] \in Command
        BY <4>2 DEF ToWorld, Event, Response
      <4> QED
        BY <4>3 DEF Command
    <3> QED
      BY <1>1, <2>2, <3>1, AnswersAreRead
  <2> QED
    BY <2>1, <2>2, WireInMessages DEF WireIsConsistent, SessionsAreKnown
<1>7. AnswersAreExpected'
  <2> SUFFICES ASSUME NEW c \in CallIds, NEW i \in DOMAIN toWorld', Confirms(toWorld'[i], c)
               PROVE  /\ c \in world'.data
                      /\ \A j \in DOMAIN toWorld' : Confirms(toWorld'[j], c) => i = j
    BY DEF AnswersAreExpected, Answered, Confirms
  <2>1. \A k, j \in DOMAIN toWorld : Confirms(toWorld[k], c) =>
           c \in world.data /\ (Confirms(toWorld[j], c) => k = j)
    BY WireInMessages DEF WireIsConsistent, AnswersAreExpected
  <2>2. n + i \in DOMAIN toWorld /\ Confirms(toWorld[n + i], c) /\ n + i \notin 1 .. n
    BY <1>1
  <2> QED
    BY <1>1, <1>2, <2>1, <2>2
<1>8. EventsFollowAnswer'
  <2> SUFFICES ASSUME "replaced" \notin faults,
                      NEW c \in CallIds, NEW i \in DOMAIN toWorld', Reports(toWorld'[i], c)
               PROVE  c \in world'.callers \/ \E j \in 1 .. (i - 1) : Confirms(toWorld'[j], c)
    BY <1>2 DEF EventsFollowAnswer, Answered, Confirms, Reports
  <2>1. n + i \in DOMAIN toWorld /\ Reports(toWorld[n + i], c) /\ i \in Nat \ {0}
    BY <1>1
  <2>2. c \in world.callers \/ \E j \in 1 .. (n + i - 1) : Confirms(toWorld[j], c)
    <3>1. \A k \in DOMAIN toWorld : Reports(toWorld[k], c) =>
             c \in world.callers \/ \E j \in 1 .. (k - 1) : Confirms(toWorld[j], c)
      BY WireInMessages DEF WireIsConsistent, EventsFollowAnswer, Reports
    <3> DEFINE k == n + i
    <3>2. k \in DOMAIN toWorld /\ Reports(toWorld[k], c) /\ k - 1 = n + i - 1
      BY <1>1, <2>1
    <3> HIDE DEF k
    <3> QED
      BY <3>1, <3>2
  <2>3. CASE \E j \in 1 .. (n + i - 1) : Confirms(toWorld[j], c)
    <3>1. PICK j \in 1 .. (n + i - 1) : Confirms(toWorld[j], c)
      BY <2>3
    <3>2. j \in DOMAIN toWorld
      BY <1>1, <2>1
    <3>3. CASE j \in 1 .. n
      BY <3>1, <3>3, AnswersAreRead
    <3>4. CASE j > n /\ j - n \in DOMAIN toWorld' /\ toWorld'[j - n] = toWorld[j]
      <4>1. j - n \in 1 .. (i - 1)
        BY <1>1, <2>1, <3>4
      <4> QED
        BY <3>1, <3>4, <4>1
    <3> QED
      BY <1>1, <3>2, <3>3, <3>4
  <2> QED
    BY <1>2, <2>2, <2>3
<1> QED
  BY <1>3, <1>4, <1>5, <1>6, <1>7, <1>8 DEF WireIsConsistent

LEMMA WorldHangsUpKeeps ==
    ASSUME WireIsConsistent, NEW c \in CallIds, WorldHangsUp(c)
    PROVE  WireIsConsistent'
<1> DEFINE m == [type |-> "hangup", id |-> c]
<1>1. /\ toServer' = Append(toServer, m)
      /\ UNCHANGED <<call, agents, pending, sessions, jt, world, toWorld, faults>>
  BY DEF WorldHangsUp
<1>2. m \in Command /\ \A x : ~Asks(m, x)
  <2>1. m \in Command /\ m.type = "hangup"
    BY DEF Command
  <2>2. \A x : [type |-> "answer", id |-> x].type = "answer"
    OBVIOUS
  <2> QED
    BY <2>1, <2>2 DEF Asks
<1> HIDE DEF m
<1>3. toServer \in Seq(Command)
  BY DEF WireIsConsistent, WireIsTyped
<1>4. /\ toServer' \in Seq(Command)
      /\ \A i \in DOMAIN toServer' : \/ i \in DOMAIN toServer /\ toServer'[i] = toServer[i]
                                     \/ toServer'[i] = m
  BY <1>1, <1>2, <1>3
<1>5. WireIsTyped'
  BY <1>1, <1>4 DEF WireIsConsistent, WireIsTyped
<1>6. ASSUME NEW x \in CallIds
      PROVE  StagesAreOrdered(x)'
  <2>1. \A i \in DOMAIN toServer' : Asks(toServer'[i], x) => i \in DOMAIN toServer /\ toServer'[i] = toServer[i]
    BY <1>2, <1>4
  <2>2. \A i \in DOMAIN toServer' : Asked(x, i)' => i \in DOMAIN toServer /\ Asked(x, i)
    BY <2>1 DEF Asked, Asks
  <2>3. StagesAreOrdered(x)
    BY DEF WireIsConsistent
  <2> QED
    BY <1>1, <2>2, <2>3 DEF StagesAreOrdered, Incoming, Answered
<1>7. HelloIsFirst' /\ SessionsAreKnown' /\ AnswersAreExpected' /\ EventsFollowAnswer'
  BY <1>1 DEF WireIsConsistent, HelloIsFirst, SessionsAreKnown, AnswersAreExpected,
              EventsFollowAnswer, Answered
<1> QED
  BY <1>5, <1>6, <1>7 DEF WireIsConsistent

LEMMA WorldIsLostKeeps ==
    ASSUME WireIsConsistent, ServerIsConsistent, WorldIsLost
    PROVE  WireIsConsistent'
<1>1. /\ UNCHANGED <<call, agents, pending, sessions, jt, faults>>
      /\ world' = [conn |-> 0, data |-> {}, callers |-> {}]
      /\ toWorld' = <<>>
  BY DEF WorldIsLost
<1>2. PICK n \in 0 .. Len(toServer) : toServer' = SubSeq(toServer, 1, n)
  BY DEF WorldIsLost
<1>3. toServer \in Seq(Command)
  BY DEF WireIsConsistent, WireIsTyped
<1>4. /\ toServer' \in Seq(Command)
      /\ \A i \in DOMAIN toServer' : i \in DOMAIN toServer /\ toServer'[i] = toServer[i]
  BY <1>2, <1>3
<1>5. world' \in World /\ world'.conn = 0 /\ world'.data = {} /\ world'.callers = {}
  BY <1>1, BoundsAssumption DEF World
<1>6. DOMAIN toWorld' = {} /\ toWorld' \in Seq(ToWorld)
  BY <1>1
<1>7. WireIsTyped'
  BY <1>1, <1>4, <1>5, <1>6 DEF WireIsConsistent, WireIsTyped, ToWorld
<1>8. ASSUME NEW x \in CallIds
      PROVE  StagesAreOrdered(x)'
  <2>1. StagesAreOrdered(x)
    BY DEF WireIsConsistent
  <2> QED
    BY <1>1, <1>4, <1>5, <1>6, <2>1 DEF StagesAreOrdered, Asked
<1>9. SessionsAreKnown'
  <2>1. \A c \in Live' : sessions'[c] # 0
    BY <1>1 DEF ServerIsConsistent, Conns
  <2> QED
    BY <1>5, <2>1 DEF SessionsAreKnown
<1> QED
  BY <1>6, <1>7, <1>8, <1>9 DEF WireIsConsistent, HelloIsFirst, AnswersAreExpected, EventsFollowAnswer

LEMMA AcceptKeepsWire ==
    ASSUME WireIsConsistent, ServerIsConsistent, Accept
    PROVE  WireIsConsistent'
<1> DEFINE hello == [type |-> "version"]
           listen == [type |-> "listen"]
<1>1. /\ UNCHANGED <<call, agents, pending, sessions>>
      /\ jt \in Nat /\ jt' = jt + 1 /\ jt' \in Conns
      /\ world' = [conn |-> jt', data |-> {}, callers |-> {}]
      /\ faults' = IF tc # 0 /\ Live # {} THEN faults \cup {"replaced"} ELSE faults
  BY BoundsAssumption DEF Accept, ServerIsConsistent, Conns
<1>2. toWorld' = <<hello>> /\ toServer' = <<listen>>
  BY DEF Accept
<1>3. hello \in ToWorld /\ hello.type = "version" /\ listen \in Command /\ \A x : ~Asks(listen, x)
  <2>1. hello \in ToWorld /\ hello.type = "version"
    BY DEF ToWorld, Event
  <2>2. listen \in Command /\ listen.type = "listen"
    BY DEF Command
  <2>3. \A x : [type |-> "answer", id |-> x].type = "answer"
    OBVIOUS
  <2> QED
    BY <2>1, <2>2, <2>3 DEF Asks
<1> HIDE DEF hello, listen
<1>4. /\ toWorld' \in Seq(ToWorld) /\ DOMAIN toWorld' = {1} /\ toWorld'[1] = hello
      /\ toServer' \in Seq(Command) /\ DOMAIN toServer' = {1} /\ toServer'[1] = listen
  BY <1>2, <1>3
<1>5. world' \in World /\ world'.conn = jt' /\ world'.data = {} /\ world'.callers = {}
  BY <1>1, BoundsAssumption DEF World, Conns
<1>6. /\ \A x : ~Announces(hello, x) /\ ~Confirms(hello, x) /\ ~Reports(hello, x)
  <2>1. \A x : [type |-> "call_incoming", id |-> x].type = "call_incoming"
    OBVIOUS
  <2> QED
    BY <1>3, <2>1 DEF Announces, Confirms, Reports
<1>7. WireIsTyped' /\ HelloIsFirst'
  BY <1>1, <1>4, <1>5 DEF WireIsConsistent, WireIsTyped, HelloIsFirst, ToWorld, Conns
<1>8. \A x, i : i \in DOMAIN toWorld' => ~Incoming(x, i)' /\ ~Answered(x, i)'
  BY <1>4, <1>6 DEF Incoming, Answered, Announces, Confirms
<1>9. \A x, i : i \in DOMAIN toServer' => ~Asked(x, i)'
  BY <1>3, <1>4 DEF Asked, Asks
<1>10. \A x \in CallIds : StagesAreOrdered(x)'
  BY <1>8, <1>9 DEF StagesAreOrdered
<1>11. SessionsAreKnown'
  <2>1. "replaced" \notin faults' => \A c \in Live : sessions[c] # jt'
    BY <1>1 DEF ServerIsConsistent, SessionsAreConnected
  <2> QED
    BY <1>1, <1>5, <2>1 DEF SessionsAreKnown
<1>12. AnswersAreExpected' /\ EventsFollowAnswer'
  BY <1>4, <1>6, <1>8 DEF AnswersAreExpected, EventsFollowAnswer, Reports
<1> QED
  BY <1>7, <1>10, <1>11, <1>12 DEF WireIsConsistent

-----------------------------------------------------------------------------
(* Init, and all steps.                                                    *)

LEMMA InitIsOnWire == Init => WireIsConsistent
<1> SUFFICES ASSUME Init
             PROVE  WireIsConsistent
  OBVIOUS
<1>1. /\ agents = FALSE /\ pending = {} /\ jt = 0 /\ Live = {}
      /\ world = [conn |-> 0, data |-> {}, callers |-> {}]
      /\ toServer = <<>> /\ toWorld = <<>>
  BY DEF Init
<1>2. world \in World /\ world.conn = 0 /\ world.data = {} /\ world.callers = {}
  BY <1>1, BoundsAssumption DEF World
<1>3. /\ toServer \in Seq(Command) /\ toWorld \in Seq(Event \cup Response)
      /\ DOMAIN toServer = {} /\ DOMAIN toWorld = {}
  BY <1>1
<1>4. WireIsTyped /\ HelloIsFirst
  BY <1>1, <1>2, <1>3 DEF WireIsTyped, HelloIsFirst
<1>5. \A c \in CallIds : StagesAreOrdered(c)
  BY <1>3 DEF StagesAreOrdered
<1>6. SessionsAreKnown /\ AnswersAreExpected /\ EventsFollowAnswer
  BY <1>1, <1>3 DEF SessionsAreKnown, AnswersAreExpected, EventsFollowAnswer
<1> QED
  BY <1>4, <1>5, <1>6 DEF WireIsConsistent

LEMMA StutterKeepsWire ==
    ASSUME WireIsConsistent, UNCHANGED vars
    PROVE  WireIsConsistent'
<1>1. /\ WireIsTyped' /\ HelloIsFirst'
      /\ SessionsAreKnown' /\ AnswersAreExpected' /\ EventsFollowAnswer'
  BY DEF WireIsConsistent, WireIsTyped, HelloIsFirst, SessionsAreKnown, AnswersAreExpected,
         EventsFollowAnswer, Answered, vars
<1>2. ASSUME NEW c \in CallIds
      PROVE  StagesAreOrdered(c)'
  BY DEF WireIsConsistent, StagesAreOrdered, Incoming, Asked, Answered, vars
<1> QED
  BY <1>1, <1>2 DEF WireIsConsistent

LEMMA StepKeepsWire ==
    ASSUME WireIsConsistent, ServerIsConsistent, [Next]_vars
    PROVE  WireIsConsistent'
<1>1. ServerIsConsistent'
  BY StepKeeps
<1>2. CASE ServerHandles
  <2>1. \E ms : ServerSteps(ms)
    BY <1>2, ListenSends, AnswerSends, HangupSends DEF ServerHandles
  <2> QED
    BY <1>1, <2>1, ServerStepKeeps
<1>3. CASE Accept
  BY <1>3, AcceptKeepsWire
<1>4. CASE Disconnected
  BY <1>1, <1>4, QuietSteps, ServerStepKeeps
<1>5. CASE \E c \in CallIds : PeerCalls(c) \/ PeerGivesUp(c) \/ PeerHangsUp(c) \/ PeerDials(c)
  <2>1. \E ms : ServerSteps(ms)
    BY <1>5, PeerCallsSends, QuietSteps, PeerReports
  <2> QED
    BY <1>1, <2>1, ServerStepKeeps
<1>6. CASE WorldReads
  BY <1>6, WorldReadsSo, ReadKeeps
<1>7. CASE WorldIsLost
  BY <1>7, WorldIsLostKeeps
<1>8. CASE \E c \in CallIds : WorldHangsUp(c)
  BY <1>8, WorldHangsUpKeeps
<1>9. CASE UNCHANGED vars
  BY <1>9, StutterKeepsWire
<1> QED
  BY <1>2, <1>3, <1>4, <1>5, <1>6, <1>7, <1>8, <1>9 DEF Next

-----------------------------------------------------------------------------
(* The theorems.                                                           *)

\* What is on the wire stays in order, and agrees with what the server and the
\* world know of the calls: villa_event_handler, villa_command_handler and
\* data_received, with connections that break at any moment.
THEOREM WireStaysConsistent == Spec => []WireIsConsistent
<1>1. Init => ServerIsConsistent /\ WireIsConsistent
  BY InitIsConsistent, InitIsOnWire
<1>2. ServerIsConsistent /\ WireIsConsistent /\ [Next]_vars => (ServerIsConsistent /\ WireIsConsistent)'
  BY StepKeeps, StepKeepsWire
<1> QED
  BY <1>1, <1>2, PTL DEF Spec

\* Every variable of Calls keeps its type.
THEOREM TypesStay == Spec => []TypeOK
<1>1. ServerIsConsistent /\ WireIsConsistent => TypeOK
  BY BoundsAssumption DEF ServerIsConsistent, WireIsConsistent, WireIsTyped, TypeOK
<1> QED
  BY <1>1, ServerStaysConsistent, WireStaysConsistent, PTL

\* The world knows of every Session that its commands have made, or has the
\* response still to read, unless a connection was replaced: no response to an
\* answer is lost when data_received returns early.
THEOREM SessionsStayKnown == Spec => []SessionsAreKnown
<1>1. WireIsConsistent => SessionsAreKnown
  BY DEF WireIsConsistent
<1> QED
  BY <1>1, WireStaysConsistent, PTL

\* When the response to an answer arrives call_data has its call, and there is
\* no second response: response_received raises no KeyError.
THEOREM AnswersStayExpected == Spec => []AnswersAreExpected
<1>1. WireIsConsistent => AnswersAreExpected
  BY DEF WireIsConsistent
<1> QED
  BY <1>1, WireStaysConsistent, PTL

\* The world hears of an answered call before any event of it, unless a
\* connection was replaced.
THEOREM EventsStayBehindAnswer == Spec => []EventsFollowAnswer
<1>1. WireIsConsistent => EventsFollowAnswer
  BY DEF WireIsConsistent
<1> QED
  BY <1>1, WireStaysConsistent, PTL
=============================================================================
