--------------------------- MODULE TcpLinkProofs ---------------------------
(***************************************************************************)
(* Type correctness of TcpLink, and what closing a TcpServer guarantees,   *)
(* for every number of clients and connections and every limit.            *)
(*                                                                         *)
(* ServedIsRegistered and ClosedMeansQuiet are not inductive. Inv adds     *)
(* which connections the accept loop may still hand to an agent (Accepting:*)
(* they are distinct, established and served by nobody), and where the     *)
(* loop can be in each phase of Close (Phases): once wgLn.Wait() has       *)
(* passed the loop can only run into its test of isClosed.                 *)
(***************************************************************************)
EXTENDS TcpLink, FiniteSetTheorems, TLAPS

\* An attempt is left whenever dial makes one.
TimesLeft == \A c \in Clients : connect[c] = "dial" => times[c] > 0

\* Who deals with a connection has one.
Held ==
    /\ loop.at \in {"accepted", "spawn"} => loop.conn \in Conns
    /\ \A c \in Clients : connect[c] \in {"add", "run", "remove"} => conn[c] \in Conns

\* The connections the loop has not served yet.
Accepting ==
    /\ \A i \in DOMAIN backlog : backlog[i] <= last /\ agent[backlog[i]] = "none"
    /\ \A i, j \in DOMAIN backlog : i # j => backlog[i] # backlog[j]
    /\ loop.at \in {"accepted", "spawn"} =>
        /\ loop.conn <= last /\ agent[loop.conn] = "none"
        /\ \A i \in DOMAIN backlog : backlog[i] # loop.conn
    /\ \A k \in Conns : k > last => agent[k] = "none"

BeforeClear == svClose \in {"idle", "listener", "wgLn", "clear"}

\* What each phase of TcpServer.Close relies on.
Phases ==
    /\ svClose # "idle" => svClosed
    /\ svClose \in {"clear", "wgConns", "done"} => loop.at \in {"start", "listen", "check", "end"}
    /\ svClose = "done" => Served = {}

Registered ==
    /\ BeforeClear => Served \subseteq svConns
    /\ BeforeClear /\ loop.at = "spawn" => loop.conn \in svConns
    /\ ~BeforeClear => \A k \in Served : server[k] # "open"

Limited == Cardinality(svConns) <= MaxConnNum /\ Cardinality(Served) <= MaxConnNum

SvInv == Accepting /\ Phases /\ Registered /\ Limited

TypeInv == TypeOK /\ TimesLeft /\ Held

Inv == TypeInv /\ SvInv

-----------------------------------------------------------------------------
(* Types *)

LEMMA TypeInvInit == Init => TypeInv
  <1> SUFFICES ASSUME Init PROVE TypeInv
    OBVIOUS
  <1>1. /\ last \in 0..MaxConns
        /\ client \in [Conns -> {"none", "open", "closed"}]
        /\ server \in [Conns -> {"none", "open", "closed"}]
        /\ backlog \in Seq(Conns) /\ listener \in {"none", "open", "closed"}
        /\ svConns \subseteq Conns
    BY TcpLinkAssumption DEF Init
  <1>2. loop \in [at : {"start", "listen", "check", "accept", "accepted", "spawn", "end"},
                  conn : 0..MaxConns]
    BY TcpLinkAssumption DEF Init
  <1>3. /\ agent \in [Conns -> {"none", "run", "remove", "end"}]
        /\ svClose \in {"idle", "listener", "wgLn", "clear", "wgConns", "done"}
    BY DEF Init
  <1>4. svClosed \in BOOLEAN
    BY DEF Init
  <1>5. clClosed \in [Clients -> BOOLEAN]
    BY DEF Init
  <1>6. /\ connect \in [Clients -> {"dial", "dialled", "add", "run", "remove", "end"}]
        /\ conn \in [Clients -> 0..MaxConns]
        /\ clConns \in [Clients -> SUBSET Conns]
        /\ clClose \in [Clients -> {"idle", "clear", "wait", "done"}]
    BY TcpLinkAssumption DEF Init
  <1>7. times \in [Clients -> 0..maxConnectTimes] /\ TimesLeft
    BY TcpLinkAssumption DEF Init, TimesLeft
  <1>8. Held
    BY DEF Init, Held
  <1> QED BY <1>1, <1>2, <1>3, <1>4, <1>5, <1>6, <1>7, <1>8 DEF TypeInv, TypeOK

LEMMA LoopType ==
  ASSUME TypeInv, LoopNext \/ (\E timeout \in BOOLEAN : AcceptError(timeout))
  PROVE  TypeInv'
  <1> USE DEF TypeInv, TypeOK, TimesLeft, Held, netVars, clVars
  <1>1. CASE Run
    BY <1>1 DEF Run
  <1>2. CASE \E ok \in BOOLEAN : ListenTCP(ok)
    <2> PICK ok \in BOOLEAN : ListenTCP(ok)
      BY <1>2
    <2>1. CASE ok
      BY <2>1 DEF ListenTCP
    <2>2. CASE ~ok
      BY <2>2 DEF ListenTCP
    <2> QED BY <2>1, <2>2
  <1>3. CASE CheckClosed
    BY <1>3 DEF CheckClosed
  <1>4. CASE AcceptTCP
    <2>1. CASE backlog # <<>> /\ loop' = [at |-> "accepted", conn |-> Head(backlog)]
                              /\ backlog' = Tail(backlog)
      <3>1. Head(backlog) \in Conns /\ Tail(backlog) \in Seq(Conns)
        BY <2>1
      <3>2. Head(backlog) \in 0..MaxConns
        BY <3>1, TcpLinkAssumption DEF Conns
      <3> QED BY <1>4, <2>1, <3>1, <3>2 DEF AcceptTCP
    <2>2. CASE loop' = [loop EXCEPT !.at = "end"] /\ UNCHANGED backlog
      BY <1>4, <2>2 DEF AcceptTCP
    <2> QED BY <1>4, <2>1, <2>2 DEF AcceptTCP
  <1>5. CASE RefuseConn
    BY <1>5, TcpLinkAssumption DEF RefuseConn
  <1>6. CASE AddConn
    BY <1>6, TcpLinkAssumption DEF AddConn, Conns
  <1>7. CASE SpawnAgent
    BY <1>7, TcpLinkAssumption DEF SpawnAgent
  <1>8. CASE \E timeout \in BOOLEAN : AcceptError(timeout)
    <2> PICK timeout \in BOOLEAN : AcceptError(timeout)
      BY <1>8
    <2>1. CASE timeout
      BY <2>1 DEF AcceptError
    <2>2. CASE ~timeout
      BY <2>2 DEF AcceptError
    <2> QED BY <2>1, <2>2
  <1> QED BY <1>1, <1>2, <1>3, <1>4, <1>5, <1>6, <1>7, <1>8 DEF LoopNext

LEMMA CloseType ==
  ASSUME TypeInv, ServerClose \/ CloseNext
  PROVE  TypeInv'
  <1> USE DEF TypeInv, TypeOK, TimesLeft, Held, netVars, clVars
  <1>1. CASE ServerClose
    BY <1>1 DEF ServerClose
  <1>2. CASE CloseListener
    <2>1. CASE listener = "open"
      <3>1. server' = [k \in Conns |-> IF \E i \in DOMAIN backlog : backlog[i] = k
                                       THEN "closed" ELSE server[k]]
        BY <1>2, <2>1 DEF CloseListener
      <3>2. server' \in [Conns -> {"none", "open", "closed"}]
        BY <3>1
      <3>3. backlog' \in Seq(Conns) /\ listener' = "closed"
        BY <1>2, <2>1 DEF CloseListener
      <3> QED BY <1>2, <3>2, <3>3 DEF CloseListener
    <2>2. CASE listener # "open"
      BY <1>2, <2>2 DEF CloseListener
    <2> QED BY <2>1, <2>2
  <1>3. CASE WaitListener
    BY <1>3 DEF WaitListener
  <1>4. CASE ServerClearConn
    BY <1>4 DEF ServerClearConn, CloseAll
  <1>5. CASE WaitConns
    BY <1>5 DEF WaitConns
  <1> QED BY <1>1, <1>2, <1>3, <1>4, <1>5 DEF CloseNext

LEMMA AgentType ==
  ASSUME TypeInv, NEW k \in Conns, AgentEnds(k) \/ AgentRemoves(k)
  PROVE  TypeInv'
  <1> USE DEF TypeInv, TypeOK, TimesLeft, Held, netVars, clVars
  <1>1. CASE AgentEnds(k)
    BY <1>1 DEF AgentEnds, CloseAll
  <1>2. CASE AgentRemoves(k)
    BY <1>2 DEF AgentRemoves
  <1> QED BY <1>1, <1>2

LEMMA ConnectType ==
  ASSUME TypeInv, NEW c \in Clients, ConnectNext(c) \/ ResolveFails(c) \/ ClientEnds(c)
  PROVE  TypeInv'
  <1> USE DEF TypeInv, TypeOK, TimesLeft, Held, netVars, svVars
  <1>1. CASE \E ok \in BOOLEAN : DialTCP(c, ok)
    <2> PICK ok \in BOOLEAN : DialTCP(c, ok)
      BY <1>1
    <2>1. times[c] \in 1..maxConnectTimes /\ times[c] - 1 \in 0..maxConnectTimes
      BY TcpLinkAssumption DEF DialTCP
    <2>2. times' \in [Clients -> 0..maxConnectTimes]
      BY <2>1 DEF DialTCP
    <2>3. connect' \in [Clients -> {"dial", "dialled", "add", "run", "remove", "end"}]
      BY DEF DialTCP
    <2>4. TimesLeft'
      BY <2>2 DEF DialTCP
    <2>5. CASE ok
      <3>1. last + 1 \in Conns /\ last' = last + 1 /\ last + 1 \in 0..MaxConns
        BY <2>5, TcpLinkAssumption DEF DialTCP, Conns
      <3>2. /\ client' = [client EXCEPT ![last + 1] = "open"]
            /\ server' = [server EXCEPT ![last + 1] = "open"]
            /\ client' \in [Conns -> {"none", "open", "closed"}]
            /\ server' \in [Conns -> {"none", "open", "closed"}]
        BY <2>5, <3>1 DEF DialTCP
      <3>3. backlog' \in Seq(Conns)
        <4>1. backlog' = Append(backlog, last + 1)
          BY <2>5, <3>1 DEF DialTCP
        <4>2. backlog \in Seq(Conns)
          OBVIOUS
        <4> QED BY ONLY <3>1, <4>1, <4>2
      <3>4. conn' = [conn EXCEPT ![c] = last + 1]
        BY <2>5 DEF DialTCP
      <3> QED BY <2>2, <2>3, <2>4, <3>1, <3>2, <3>3, <3>4 DEF DialTCP
    <2>6. CASE ~ok
      <3>1. conn' = [conn EXCEPT ![c] = 0] /\ UNCHANGED <<last, client, server, backlog>>
        BY <2>6 DEF DialTCP
      <3> QED BY <2>2, <2>3, <2>4, <3>1, TcpLinkAssumption DEF DialTCP
    <2> QED BY <2>5, <2>6
  <1>2. CASE DialAgain(c)
    BY <1>2, TcpLinkAssumption DEF DialAgain
  <1>3. CASE Dialled(c)
    <2>1. conn[c] \in Conns
      BY <1>3, TcpLinkAssumption DEF Dialled, Conns
    <2>2. client' \in [Conns -> {"none", "open", "closed"}]
      BY <1>3 DEF Dialled
    <2>3. connect' = [connect EXCEPT ![c] = "end"] \/ connect' = [connect EXCEPT ![c] = "add"]
      BY <1>3 DEF Dialled
    <2> QED BY <1>3, <2>1, <2>2, <2>3 DEF Dialled
  <1>4. CASE ClientAdd(c)
    BY <1>4 DEF ClientAdd
  <1>5. CASE ClientRemoves(c)
    BY <1>5, TcpLinkAssumption DEF ClientRemoves
  <1>6. CASE ClientEnds(c)
    BY <1>6 DEF ClientEnds, CloseAll
  <1>7. CASE ResolveFails(c)
    BY <1>7 DEF ResolveFails
  <1> QED BY <1>1, <1>2, <1>3, <1>4, <1>5, <1>6, <1>7 DEF ConnectNext

LEMMA ClientCloseType ==
  ASSUME TypeInv, NEW c \in Clients, ClientClose(c) \/ ClientCloseNext(c)
  PROVE  TypeInv'
  <1> USE DEF TypeInv, TypeOK, TimesLeft, Held, netVars, svVars
  <1>1. CASE ClientClose(c)
    BY <1>1 DEF ClientClose
  <1>2. CASE ClientClearConn(c)
    BY <1>2 DEF ClientClearConn, CloseAll
  <1>3. CASE ClientWait(c)
    BY <1>3 DEF ClientWait
  <1> QED BY <1>1, <1>2, <1>3 DEF ClientCloseNext

LEMMA TypeInvStep ==
  ASSUME TypeInv, [Next]_vars
  PROVE  TypeInv'
  <1>1. CASE UNCHANGED vars
    BY <1>1 DEF vars, netVars, svVars, clVars, TypeInv, TypeOK, TimesLeft, Held
  <1>2. CASE Next
    BY <1>2, LoopType, CloseType, AgentType, ConnectType, ClientCloseType DEF Next
  <1> QED BY <1>1, <1>2

\* Every variable keeps its type: in particular dial never counts below zero
\* attempts.
THEOREM TypeCorrect == Spec => []TypeOK
  <1>1. TypeInv => TypeOK
    BY DEF TypeInv
  <1> QED BY <1>1, TypeInvInit, TypeInvStep, PTL DEF Spec

-----------------------------------------------------------------------------
(* Closing the server *)

LEMMA SubsetCardinality ==
  ASSUME NEW S, NEW T \in SUBSET Conns, S \subseteq T
  PROVE  /\ IsFiniteSet(T) /\ Cardinality(T) \in Nat
         /\ IsFiniteSet(S) /\ Cardinality(S) \in Nat
         /\ Cardinality(S) <= Cardinality(T)
  <1>1. IsFiniteSet(Conns)
    BY FS_Interval, TcpLinkAssumption DEF Conns
  <1>2. IsFiniteSet(T)
    BY <1>1, FS_Subset
  <1> QED BY <1>2, FS_Subset, FS_CardinalityType

\* What leaves the server and the backlog alone keeps SvInv.
LEMMA QuietStep ==
  ASSUME SvInv, UNCHANGED <<last, server, backlog, svVars>>
  PROVE  SvInv'
  <1>1. Served' = Served
    BY DEF Served, svVars
  <1>2. Accepting'
    BY DEF SvInv, Accepting, svVars
  <1>3. Phases' /\ Registered' /\ Limited'
    BY <1>1 DEF SvInv, Phases, Registered, Limited, BeforeClear, svVars
  <1> QED BY <1>2, <1>3 DEF SvInv

LEMMA SvInvInit == Init => SvInv
  <1> SUFFICES ASSUME Init PROVE SvInv
    OBVIOUS
  <1>1. Served = {} /\ svConns = {}
    BY DEF Init, Served
  <1>2. Limited
    BY <1>1, FS_EmptySet, TcpLinkAssumption DEF Limited
  <1>3. Accepting /\ Phases /\ Registered
    BY <1>1 DEF Init, Accepting, Phases, Registered, BeforeClear
  <1> QED BY <1>2, <1>3 DEF SvInv

LEMMA LoopStep ==
  ASSUME Inv, LoopNext \/ (\E timeout \in BOOLEAN : AcceptError(timeout))
  PROVE  SvInv'
  <1> USE DEF Inv, SvInv
  <1>1. CASE \/ Run \/ (\E ok \in BOOLEAN : ListenTCP(ok)) \/ CheckClosed
             \/ \E timeout \in BOOLEAN : AcceptError(timeout)
    <2>1. /\ UNCHANGED <<last, server, backlog, svClosed, svConns, agent, svClose>>
          /\ loop'.at \in {"listen", "check", "end", "accept"}
          /\ loop'.at = "accept" => ~svClosed
      BY <1>1 DEF Run, ListenTCP, CheckClosed, AcceptError, netVars, TypeInv, TypeOK
    <2>2. Served' = Served
      BY <2>1 DEF Served
    <2>3. Accepting'
      BY <2>1 DEF Accepting
    <2>4. Phases'
      BY <2>1, <2>2 DEF Phases
    <2>5. Registered' /\ Limited'
      BY <2>1, <2>2 DEF Registered, Limited, BeforeClear
    <2> QED BY <2>3, <2>4, <2>5
  <1>2. CASE AcceptTCP
    <2>1. UNCHANGED <<last, server, svClosed, svConns, agent, svClose>>
      BY <1>2 DEF AcceptTCP
    <2>2. Served' = Served
      BY <2>1 DEF Served
    <2>3. loop.at = "accept" /\ loop'.at \in {"accepted", "end"}
      BY <1>2 DEF AcceptTCP, TypeInv, TypeOK
    <2>4. Phases'
      BY <2>1, <2>2, <2>3 DEF Phases
    <2>5. Registered' /\ Limited'
      BY <2>1, <2>2, <2>3 DEF Registered, Limited, BeforeClear
    <2>6. Accepting'
      <3>1. CASE backlog # <<>> /\ loop' = [at |-> "accepted", conn |-> Head(backlog)]
                                /\ backlog' = Tail(backlog)
        <4>1. backlog \in Seq(Conns)
          BY DEF TypeInv, TypeOK
        <4>2. Head(backlog) = backlog[1] /\ 1 \in DOMAIN backlog
          BY <3>1, <4>1
        <4>3. \A i \in DOMAIN backlog' : /\ i + 1 \in DOMAIN backlog /\ i \in Nat \ {0}
                                         /\ backlog'[i] = backlog[i + 1]
          BY <3>1, <4>1
        <4> QED BY <2>1, <3>1, <4>2, <4>3 DEF Accepting
      <3>2. CASE loop' = [loop EXCEPT !.at = "end"] /\ UNCHANGED backlog
        BY <2>1, <2>3, <3>2 DEF Accepting, TypeInv, TypeOK
      <3> QED BY <1>2, <3>1, <3>2 DEF AcceptTCP
    <2> QED BY <2>4, <2>5, <2>6
  <1>3. CASE RefuseConn
    <2>1. /\ UNCHANGED <<last, backlog, svClosed, svConns, agent, svClose>>
          /\ loop' = [at |-> "check", conn |-> 0] /\ loop.at = "accepted"
          /\ server' = [server EXCEPT ![loop.conn] = "closed"]
      BY <1>3 DEF RefuseConn
    <2>2. Served' = Served
      BY <2>1 DEF Served
    <2>3. BeforeClear /\ BeforeClear'
      BY <2>1 DEF Phases, BeforeClear, TypeInv, TypeOK
    <2>4. Registered' /\ Limited'
      BY <2>1, <2>2, <2>3 DEF Registered, Limited
    <2>5. Accepting' /\ Phases'
      BY <2>1, <2>2 DEF Accepting, Phases
    <2> QED BY <2>4, <2>5
  <1>4. CASE AddConn
    <2>1. /\ UNCHANGED <<last, server, backlog, svClosed, agent, svClose>>
          /\ loop' = [loop EXCEPT !.at = "spawn"] /\ loop.at = "accepted"
          /\ svConns' = svConns \cup {loop.conn}
          /\ Cardinality(svConns) < MaxConnNum
      BY <1>4 DEF AddConn, netVars
    <2>2. Served' = Served
      BY <2>1 DEF Served
    <2>3. loop'.conn = loop.conn /\ loop'.at = "spawn"
      BY <2>1 DEF TypeInv, TypeOK
    <2>4. Accepting' /\ Phases'
      BY <2>1, <2>2, <2>3 DEF Accepting, Phases
    <2>5. Registered'
      BY <2>1, <2>2, <2>3 DEF Registered, BeforeClear
    <2>6. IsFiniteSet(svConns) /\ Cardinality(svConns) \in Nat
      BY SubsetCardinality DEF TypeInv, TypeOK
    <2>7. Cardinality(svConns') <= Cardinality(svConns) + 1
      <3>1. svConns' = svConns \cup {loop.conn}
        BY <2>1
      <3>2. Cardinality(svConns \cup {loop.conn}) =
              IF loop.conn \in svConns THEN Cardinality(svConns) ELSE Cardinality(svConns) + 1
        BY ONLY <2>6, FS_AddElement
      <3> QED BY ONLY <2>6, <3>1, <3>2
    <2>8. IsFiniteSet(svConns') /\ Cardinality(svConns') \in Nat
      BY <2>1, <2>6, FS_AddElement, FS_CardinalityType
    <2>9. Limited'
      BY <2>1, <2>2, <2>6, <2>7, <2>8, TcpLinkAssumption DEF Limited
    <2> QED BY <2>4, <2>5, <2>9
  <1>5. CASE SpawnAgent
    <2>1. /\ UNCHANGED <<last, server, backlog, svClosed, svConns, svClose>>
          /\ agent' = [agent EXCEPT ![loop.conn] = "run"]
          /\ loop' = [at |-> "check", conn |-> 0] /\ loop.at = "spawn"
          /\ loop.conn \in Conns
      BY <1>5 DEF SpawnAgent, netVars, TypeInv, Held
    <2>2. Served' = Served \cup {loop.conn}
      BY <2>1 DEF Served, TypeInv, TypeOK
    <2>3. BeforeClear /\ BeforeClear' /\ svClose # "done"
      BY <2>1 DEF Phases, BeforeClear, TypeInv, TypeOK
    <2>4. Registered'
      BY <2>1, <2>2, <2>3 DEF Registered
    <2>5. Phases'
      BY <2>1, <2>3 DEF Phases
    <2>6. Accepting'
      BY <2>1 DEF Accepting, TypeInv, TypeOK
    <2>7. Limited'
      <3>1. Served' \subseteq svConns
        BY <2>2, <2>1, <2>3 DEF Registered
      <3>2. Cardinality(Served') <= Cardinality(svConns)
            /\ Cardinality(Served') \in Nat /\ Cardinality(svConns) \in Nat
        BY <3>1, SubsetCardinality DEF TypeInv, TypeOK
      <3> QED BY <2>1, <3>2, TcpLinkAssumption DEF Limited
    <2> QED BY <2>4, <2>5, <2>6, <2>7
  <1> QED BY <1>1, <1>2, <1>3, <1>4, <1>5 DEF LoopNext

LEMMA CloseStep ==
  ASSUME Inv, ServerClose \/ CloseNext
  PROVE  SvInv'
  <1> USE DEF Inv, SvInv
  <1>1. UNCHANGED <<last, loop, agent>>
    BY DEF ServerClose, CloseNext, CloseListener, WaitListener, ServerClearConn, WaitConns, netVars
  <1>2. Served' = Served
    BY <1>1 DEF Served
  <1>3. CASE ServerClose
    <2>1. UNCHANGED <<server, backlog, svConns>> /\ svClose = "idle" /\ svClose' = "listener"
      BY <1>3 DEF ServerClose, netVars
    <2>2. svClosed'
      BY <1>3 DEF ServerClose
    <2>3. Accepting' /\ Phases'
      BY <1>1, <2>1, <2>2 DEF Accepting, Phases
    <2>4. Registered' /\ Limited'
      BY <1>1, <1>2, <2>1 DEF Registered, Limited, BeforeClear
    <2> QED BY <2>3, <2>4
  <1>4. CASE CloseListener
    <2>1. UNCHANGED <<svClosed, svConns>> /\ svClose = "listener" /\ svClose' = "wgLn"
      BY <1>4 DEF CloseListener
    <2>2. backlog' = backlog \/ backlog' = <<>>
      BY <1>4 DEF CloseListener
    <2>3. Accepting'
      BY <1>1, <2>2 DEF Accepting
    <2>4. Phases' /\ Registered' /\ Limited'
      BY <1>1, <1>2, <2>1 DEF Phases, Registered, Limited, BeforeClear
    <2> QED BY <2>3, <2>4
  <1>5. CASE WaitListener
    <2>1. /\ UNCHANGED <<server, backlog, svClosed, svConns>>
          /\ svClose = "wgLn" /\ svClose' = "clear" /\ loop.at \in {"start", "end"}
      BY <1>5 DEF WaitListener, netVars
    <2>2. Accepting' /\ Phases'
      BY <1>1, <2>1 DEF Accepting, Phases
    <2>3. Registered' /\ Limited'
      BY <1>1, <1>2, <2>1 DEF Registered, Limited, BeforeClear
    <2> QED BY <2>2, <2>3
  <1>6. CASE ServerClearConn
    <2>1. /\ UNCHANGED <<backlog, svClosed>> /\ svClose = "clear" /\ svClose' = "wgConns"
          /\ svConns' = {}
          /\ server' = [k \in Conns |-> IF k \in svConns THEN "closed" ELSE server[k]]
      BY <1>6 DEF ServerClearConn, CloseAll
    <2>2. Accepting' /\ Phases'
      BY <1>1, <2>1 DEF Accepting, Phases
    <2>3. Served \subseteq svConns /\ Served \subseteq Conns
      BY <2>1 DEF Registered, BeforeClear, Served
    <2>4. Registered'
      BY <1>2, <2>1, <2>3 DEF Registered, BeforeClear
    <2>5. Limited'
      BY <1>2, <2>1, FS_EmptySet, TcpLinkAssumption DEF Limited
    <2> QED BY <2>2, <2>4, <2>5
  <1>7. CASE WaitConns
    <2>1. /\ UNCHANGED <<server, backlog, svClosed, svConns>>
          /\ svClose = "wgConns" /\ svClose' = "done"
          /\ \A k \in Conns : agent[k] \in {"none", "end"}
      BY <1>7 DEF WaitConns, netVars
    <2>2. Served = {}
      BY <2>1 DEF Served
    <2>3. Accepting' /\ Phases'
      BY <1>1, <1>2, <2>1, <2>2 DEF Accepting, Phases
    <2>4. Registered' /\ Limited'
      BY <1>1, <1>2, <2>1 DEF Registered, Limited, BeforeClear
    <2> QED BY <2>3, <2>4
  <1> QED BY <1>3, <1>4, <1>5, <1>6, <1>7 DEF CloseNext

LEMMA AgentStep ==
  ASSUME Inv, NEW k \in Conns, AgentEnds(k) \/ AgentRemoves(k)
  PROVE  SvInv'
  <1> USE DEF Inv, SvInv
  <1>1. /\ UNCHANGED <<last, backlog, svClosed, loop, svClose>>
        /\ agent[k] \in {"run", "remove"}
        /\ \E s \in {"remove", "end"} : agent' = [agent EXCEPT ![k] = s]
    BY DEF AgentEnds, AgentRemoves, netVars
  <1>2. Accepting'
    BY <1>1 DEF Accepting, TypeInv, TypeOK
  <1>3. Served' \subseteq Served /\ Served \subseteq Conns
    BY <1>1 DEF Served, TypeInv, TypeOK
  <1>4. Phases'
    BY <1>1, <1>3 DEF Phases
  <1>5. CASE AgentEnds(k)
    <2>1. UNCHANGED svConns
          /\ server' = [i \in Conns |-> IF i \in {k} THEN "closed" ELSE server[i]]
      BY <1>5 DEF AgentEnds, CloseAll
    <2>2. Registered'
      BY <1>1, <1>3, <2>1 DEF Registered, BeforeClear
    <2>3. Cardinality(Served') <= Cardinality(Served)
          /\ Cardinality(Served') \in Nat /\ Cardinality(Served) \in Nat
      BY <1>3, SubsetCardinality
    <2>4. Limited'
      BY <2>1, <2>3, TcpLinkAssumption DEF Limited
    <2> QED BY <1>2, <1>4, <2>2, <2>4
  <1>6. CASE AgentRemoves(k)
    <2>1. UNCHANGED server /\ svConns' = svConns \ {k} /\ agent[k] = "remove"
          /\ agent' = [agent EXCEPT ![k] = "end"]
      BY <1>6 DEF AgentRemoves, netVars
    <2>2. k \notin Served'
      BY <2>1 DEF Served, TypeInv, TypeOK
    <2>3. loop.at = "spawn" => loop.conn # k
      BY <2>1 DEF Accepting
    <2>4. Registered'
      BY <1>1, <1>3, <2>1, <2>2, <2>3 DEF Registered, BeforeClear
    <2>5. Cardinality(Served') <= Cardinality(Served)
          /\ Cardinality(Served') \in Nat /\ Cardinality(Served) \in Nat
      BY <1>3, SubsetCardinality
    <2>6. Cardinality(svConns') <= Cardinality(svConns)
          /\ Cardinality(svConns') \in Nat /\ Cardinality(svConns) \in Nat
      BY <2>1, SubsetCardinality DEF TypeInv, TypeOK
    <2>7. Limited'
      BY <2>5, <2>6, TcpLinkAssumption DEF Limited
    <2> QED BY <1>2, <1>4, <2>4, <2>7
  <1> QED BY <1>5, <1>6

\* A new connection is served by nobody and is in no other place of the backlog.
LEMMA DialStep ==
  ASSUME Inv, NEW c \in Clients, NEW ok \in BOOLEAN, DialTCP(c, ok)
  PROVE  SvInv'
  <1> USE DEF Inv
  <1>1. CASE ~ok
    BY <1>1, QuietStep DEF DialTCP
  <1>2. CASE ok
    <2> USE DEF SvInv
    <2>1. /\ last' = last + 1 /\ last + 1 \in Conns /\ last \in Nat
          /\ server' = [server EXCEPT ![last + 1] = "open"]
          /\ backlog' = Append(backlog, last + 1)
          /\ UNCHANGED <<svClosed, loop, svConns, agent, svClose>>
      BY <1>2, TcpLinkAssumption DEF DialTCP, svVars, Conns, TypeInv, TypeOK
    <2>2. Served' = Served
      BY <2>1 DEF Served
    <2>3. agent[last + 1] = "none"
      BY <2>1 DEF Accepting, Conns
    <2>4. Phases' /\ Limited'
      BY <2>1, <2>2 DEF Phases, Limited
    <2>5. Registered'
      <3>1. last + 1 \notin Served
        BY <2>3 DEF Served
      <3>2. \A k \in Served : server'[k] = server[k]
        BY <2>1, <3>1 DEF Served, TypeInv, TypeOK
      <3> QED BY <2>1, <2>2, <3>2 DEF Registered, BeforeClear
    <2>6. Accepting'
      <3>1. backlog \in Seq(Conns)
        BY DEF TypeInv, TypeOK
      <3>2. \A i \in DOMAIN backlog' :
              \/ i \in DOMAIN backlog /\ backlog'[i] = backlog[i]
              \/ i = Len(backlog) + 1 /\ backlog'[i] = last + 1
        BY <2>1, <3>1
      <3>3. \A i \in DOMAIN backlog : backlog[i] \in Nat /\ i # Len(backlog) + 1
        <4>1. Conns \subseteq Nat
          BY TcpLinkAssumption DEF Conns
        <4>2. \A i \in DOMAIN backlog : backlog[i] \in Conns
          BY ONLY <3>1
        <4>3. \A i \in DOMAIN backlog : i # Len(backlog) + 1
          BY ONLY <3>1
        <4> QED BY <4>1, <4>2, <4>3
      <3>4. \A i \in DOMAIN backlog' : backlog'[i] <= last' /\ agent'[backlog'[i]] = "none"
        BY <2>1, <2>3, <3>2, <3>3 DEF Accepting
      <3>5. \A i, j \in DOMAIN backlog' : i # j => backlog'[i] # backlog'[j]
        BY <2>1, <3>2, <3>3 DEF Accepting
      <3>6. loop.conn \in 0..MaxConns /\ loop.conn \in Nat
        BY TcpLinkAssumption DEF TypeInv, TypeOK
      <3>7. loop'.at \in {"accepted", "spawn"} =>
              /\ loop'.conn <= last' /\ agent'[loop'.conn] = "none"
              /\ \A i \in DOMAIN backlog' : backlog'[i] # loop'.conn
        BY <2>1, <3>2, <3>3, <3>6 DEF Accepting
      <3>8. \A k \in Conns : k > last' => agent'[k] = "none"
        BY <2>1 DEF Accepting, Conns
      <3> QED BY <3>4, <3>5, <3>7, <3>8 DEF Accepting
    <2> QED BY <2>4, <2>5, <2>6
  <1> QED BY <1>1, <1>2

LEMMA InvStep ==
  ASSUME Inv, [Next]_vars
  PROVE  Inv'
  <1>1. TypeInv'
    BY TypeInvStep DEF Inv
  <1>2. SvInv'
    <2>1. CASE UNCHANGED vars
      BY <2>1, QuietStep DEF Inv, vars, netVars, svVars
    <2>2. CASE \/ LoopNext \/ ServerClose \/ CloseNext
               \/ \E timeout \in BOOLEAN : AcceptError(timeout)
      BY <2>2, LoopStep, CloseStep
    <2>3. CASE \E k \in Conns : AgentEnds(k) \/ AgentRemoves(k)
      BY <2>3, AgentStep
    <2>4. CASE \E c \in Clients : ConnectNext(c) \/ ResolveFails(c) \/ ClientEnds(c)
      <3> PICK c \in Clients : ConnectNext(c) \/ ResolveFails(c) \/ ClientEnds(c)
        BY <2>4
      <3>1. CASE \E ok \in BOOLEAN : DialTCP(c, ok)
        BY <3>1, DialStep
      <3>2. CASE \/ ResolveFails(c) \/ DialAgain(c) \/ Dialled(c)
                 \/ ClientAdd(c) \/ ClientRemoves(c) \/ ClientEnds(c)
        BY <3>2, QuietStep
           DEF Inv, ResolveFails, DialAgain, Dialled, ClientAdd, ClientRemoves, ClientEnds, netVars
      <3> QED BY <3>1, <3>2 DEF ConnectNext
    <2>5. CASE \E c \in Clients : ClientClose(c) \/ ClientCloseNext(c)
      BY <2>5, QuietStep
         DEF Inv, ClientClose, ClientCloseNext, ClientClearConn, ClientWait, netVars
    <2> QED BY <2>1, <2>2, <2>3, <2>4, <2>5 DEF Next
  <1> QED BY <1>1, <1>2 DEF Inv

LEMMA InvAlways == Spec => []Inv
  <1>1. Init => Inv
    BY TypeInvInit, SvInvInit DEF Inv
  <1> QED BY <1>1, InvStep, PTL DEF Spec

\* What TcpServer serves is in its ConnManager, never more than MaxConnNum, and
\* ClearConn misses none of it, for any number of clients and connections.
THEOREM ServerKeepsTrack == Spec => []ServedIsRegistered
  <1>1. Inv => ServedIsRegistered
    <2> SUFFICES ASSUME Inv PROVE ServedIsRegistered
      OBVIOUS
    <2>1. svClose \in {"wgConns", "done"} => ~BeforeClear
      BY DEF BeforeClear
    <2> QED BY <2>1 DEF Inv, SvInv, Registered, Limited, BeforeClear, ServedIsRegistered
  <1> QED BY <1>1, InvAlways, PTL

\* When TcpServer.Close has returned nothing is served and nothing will be,
\* wherever the accept loop was when Close was called.
THEOREM ServerCloseIsFinal == Spec => []ClosedMeansQuiet
  <1>1. Inv => ClosedMeansQuiet
    BY DEF Inv, SvInv, Phases, ClosedMeansQuiet
  <1> QED BY <1>1, InvAlways, PTL
=============================================================================
