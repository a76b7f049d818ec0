------------------------------- MODULE TcpLink -------------------------------
(***************************************************************************)
(* The connections of a process: TcpServer (jnet/tcpserver.go) with its    *)
(* accept loop, its agents and Close, the TcpClients that dial it          *)
(* (jnet/tcpclient.go), reconnect and are closed, and the ConnManager of   *)
(* each (jnet/connmanager.go).                                             *)
(*                                                                         *)
(* Every connection is one TcpConn at each end. Of a TcpConn this module   *)
(* keeps what TcpConn.tla shows of it: after Close its writer goroutine    *)
(* closes the socket (WriterEnds there). An agent's reading loop may end   *)
(* at any time, on a message without a processor or a broken network, and  *)
(* it does end some time after the connection is closed at either end.     *)
(***************************************************************************)
EXTENDS Naturals, Sequences, FiniteSets

CONSTANTS Clients,          \* TcpClients
          AutoReconnect,    \* TcpClient.AutoReconnect
          maxConnectTimes,  \* attempts of one dial (5)
          MaxConnNum,       \* TcpServer.MaxConnNum
          MaxConns          \* bound on the connections ever established

ASSUME TcpLinkAssumption ==
    /\ AutoReconnect \in BOOLEAN
    /\ maxConnectTimes \in Nat \ {0}
    /\ MaxConnNum \in Nat /\ MaxConns \in Nat

Conns == 1..MaxConns

VARIABLES last,      \* the number of connections established so far
          client,    \* the client's end of each connection: its TcpConn or socket
          server,    \* the server's end
          backlog,   \* established connections the server has not accepted
          listener,  \* the server's listener
          svClosed,  \* TcpServer.isClosed
          loop,      \* where the accept loop is, and the connection it deals with
          svConns,   \* the server's connMgr
          agent,     \* the goroutine of each connection the server serves
          svClose,   \* where TcpServer.Close is
          clClosed,  \* TcpClient.isClosed
          connect,   \* where each TcpClient's connect goroutine is
          conn,      \* its connection; 0 is nil
          times,     \* connecttimes of dial
          clConns,   \* each client's connMgr
          clClose    \* where TcpClient.Close is

netVars == <<last, client, server, backlog, listener>>
svVars == <<svClosed, loop, svConns, agent, svClose>>
clVars == <<clClosed, connect, conn, times, clConns, clClose>>
vars == <<netVars, svVars, clVars>>

Init ==
    /\ last = 0
    /\ client = [k \in Conns |-> "none"] /\ server = [k \in Conns |-> "none"]
    /\ backlog = <<>> /\ listener = "none"
    /\ svClosed = FALSE /\ svClose = "idle" /\ svConns = {}
    /\ loop = [at |-> "start", conn |-> 0]
    /\ agent = [k \in Conns |-> "none"]
    /\ clClosed = [c \in Clients |-> FALSE] /\ clClose = [c \in Clients |-> "idle"]
    /\ connect = [c \in Clients |-> "dial"] /\ conn = [c \in Clients |-> 0]
    /\ times = [c \in Clients |-> maxConnectTimes]
    /\ clConns = [c \in Clients |-> {}]

\* TcpConn.Close of the connections K at one end.
CloseAll(end, K) == [k \in Conns |-> IF k \in K THEN "closed" ELSE end[k]]

\* One end of connection k is closed.
Ended(k) == "closed" \in {client[k], server[k]}

-----------------------------------------------------------------------------
(* The accept loop *)

\* wgLn.Add(1): the first thing the goroutine does, and not Start.
Run ==
    /\ loop.at = "start"
    /\ loop' = [loop EXCEPT !.at = "listen"]
    /\ UNCHANGED <<netVars, svClosed, svConns, agent, svClose, clVars>>

ListenTCP(ok) ==
    /\ loop.at = "listen"
    /\ loop' = [loop EXCEPT !.at = IF ok THEN "check" ELSE "end"]
    /\ listener' = IF ok THEN "open" ELSE listener
    /\ UNCHANGED <<last, client, server, backlog, svClosed, svConns, agent, svClose, clVars>>

CheckClosed ==
    /\ loop.at = "check"
    /\ loop' = [loop EXCEPT !.at = IF svClosed THEN "end" ELSE "accept"]
    /\ UNCHANGED <<netVars, svClosed, svConns, agent, svClose, clVars>>

AcceptTCP ==
    /\ loop.at = "accept"
    /\ \/ /\ backlog # <<>>
          /\ loop' = [at |-> "accepted", conn |-> Head(backlog)]
          /\ backlog' = Tail(backlog)
       \/ /\ listener = "closed"
          /\ loop' = [loop EXCEPT !.at = "end"]
          /\ UNCHANGED backlog
    /\ UNCHANGED <<last, client, server, listener, svClosed, svConns, agent, svClose, clVars>>

\* Any other error: after a timeout the loop sleeps and tries again, after anything
\* else it ends and leaves the listener open.
AcceptError(timeout) ==
    /\ loop.at = "accept" /\ listener = "open"
    /\ loop' = [loop EXCEPT !.at = IF timeout THEN "check" ELSE "end"]
    /\ UNCHANGED <<netVars, svClosed, svConns, agent, svClose, clVars>>

\* Too many connections: this one is closed at once.
RefuseConn ==
    /\ loop.at = "accepted"
    /\ Cardinality(svConns) >= MaxConnNum
    /\ server' = [server EXCEPT ![loop.conn] = "closed"]
    /\ loop' = [at |-> "check", conn |-> 0]
    /\ UNCHANGED <<last, client, backlog, listener, svClosed, svConns, agent, svClose, clVars>>

\* Fault: the connection is not entered into connMgr.
AddConnUnmanaged ==
    /\ loop.at = "accepted"
    /\ Cardinality(svConns) < MaxConnNum
    /\ loop' = [loop EXCEPT !.at = "spawn"]
    /\ UNCHANGED <<netVars, svClosed, svConns, agent, svClose, clVars>>

AddConn ==
    /\ loop.at = "accepted"
    /\ Cardinality(svConns) < MaxConnNum
    /\ svConns' = svConns \cup {loop.conn}
    /\ loop' = [loop EXCEPT !.at = "spawn"]
    /\ UNCHANGED <<netVars, svClosed, agent, svClose, clVars>>

\* wgConns.Add(1) and the agent's goroutine.
SpawnAgent ==
    /\ loop.at = "spawn"
    /\ agent' = [agent EXCEPT ![loop.conn] = "run"]
    /\ loop' = [at |-> "check", conn |-> 0]
    /\ UNCHANGED <<netVars, svClosed, svConns, svClose, clVars>>

-----------------------------------------------------------------------------
(* A goroutine that serves an accepted connection *)

\* agent.Run returns and the connection is closed.
AgentEnds(k) ==
    /\ agent[k] = "run"
    /\ server' = CloseAll(server, {k})
    /\ agent' = [agent EXCEPT ![k] = "remove"]
    /\ UNCHANGED <<last, client, backlog, listener, svClosed, loop, svConns, svClose, clVars>>

\* Fault: wgConns.Done() is forgotten.
AgentRemovesOnly(k) ==
    /\ agent[k] = "remove"
    /\ k \in svConns
    /\ svConns' = svConns \ {k}
    /\ UNCHANGED <<netVars, svClosed, loop, agent, svClose, clVars>>

\* connMgr.Remove, OnClose, which does nothing at the server, and wgConns.Done().
AgentRemoves(k) ==
    /\ agent[k] = "remove"
    /\ svConns' = svConns \ {k}
    /\ agent' = [agent EXCEPT ![k] = "end"]
    /\ UNCHANGED <<netVars, svClosed, loop, svClose, clVars>>

-----------------------------------------------------------------------------
(* TcpServer.Close *)

ServerClose ==
    /\ svClose = "idle" /\ ~svClosed
    /\ svClosed' = TRUE
    /\ svClose' = "listener"
    /\ UNCHANGED <<netVars, loop, svConns, agent, clVars>>

\* listener.Close(); nothing if run has not listened yet. What was not accepted is
\* reset by the kernel.
CloseListener ==
    /\ svClose = "listener"
    /\ svClose' = "wgLn"
    /\ IF listener = "open"
       THEN /\ listener' = "closed"
            /\ server' = [k \in Conns |-> IF \E i \in DOMAIN backlog : backlog[i] = k
                                          THEN "closed" ELSE server[k]]
            /\ backlog' = <<>>
       ELSE UNCHANGED <<listener, server, backlog>>
    /\ UNCHANGED <<last, client, svClosed, loop, svConns, agent, clVars>>

\* Fault: Close does not wait for the accept loop.
WaitListenerNot ==
    /\ svClose = "wgLn"
    /\ svClose' = "clear"
    /\ UNCHANGED <<netVars, svClosed, loop, svConns, agent, clVars>>

\* wgLn.Wait() passes before run has called wgLn.Add(1) and when run has ended.
WaitListener ==
    /\ svClose = "wgLn"
    /\ loop.at \in {"start", "end"}
    /\ svClose' = "clear"
    /\ UNCHANGED <<netVars, svClosed, loop, svConns, agent, clVars>>

ServerClearConn ==
    /\ svClose = "clear"
    /\ svClose' = "wgConns"
    /\ server' = CloseAll(server, svConns)
    /\ svConns' = {}
    /\ UNCHANGED <<last, client, backlog, listener, svClosed, loop, agent, clVars>>

WaitConns ==
    /\ svClose = "wgConns"
    /\ \A k \in Conns : agent[k] \in {"none", "end"}
    /\ svClose' = "done"
    /\ UNCHANGED <<netVars, svClosed, loop, svConns, agent, clVars>>

-----------------------------------------------------------------------------
(* TcpClient.connect *)

\* ResolveTCPAddr, with which dial begins, fails: there is no attempt at all.
ResolveFails(c) ==
    /\ connect[c] = "dial" /\ times[c] = maxConnectTimes
    /\ connect' = [connect EXCEPT ![c] = "end"]
    /\ UNCHANGED <<netVars, svVars, clClosed, conn, times, clConns, clClose>>

\* One attempt of dial. It may fail whatever the server does.
DialTCP(c, ok) ==
    /\ connect[c] = "dial"
    /\ ok => listener = "open" /\ last < MaxConns
    /\ connect' = [connect EXCEPT ![c] = "dialled"]
    /\ times' = [times EXCEPT ![c] = @ - 1]
    /\ conn' = [conn EXCEPT ![c] = IF ok THEN last + 1 ELSE 0]
    /\ IF ok
       THEN /\ last' = last + 1
            /\ client' = [client EXCEPT ![last'] = "open"]
            /\ server' = [server EXCEPT ![last'] = "open"]
            /\ backlog' = Append(backlog, last')
       ELSE UNCHANGED <<last, client, server, backlog>>
    /\ UNCHANGED <<listener, svVars, clClosed, clConns, clClose>>

\* Fault: the attempts are not counted.
DialAgainForever(c) ==
    /\ connect[c] = "dialled" /\ conn[c] = 0
    /\ connect' = [connect EXCEPT ![c] = IF clClosed[c] THEN "end" ELSE "dial"]
    /\ times' = [times EXCEPT ![c] = maxConnectTimes]
    /\ UNCHANGED <<netVars, svVars, clClosed, conn, clConns, clClose>>

\* Fault: off by one, dial gives up when connecttimes is negative.
DialAgainOnceMore(c) ==
    /\ connect[c] = "dialled" /\ conn[c] = 0
    /\ connect' = [connect EXCEPT ![c] = IF clClosed[c] \/ times[c] < 0 THEN "end" ELSE "dial"]
    /\ UNCHANGED <<netVars, svVars, clClosed, conn, times, clConns, clClose>>

\* The attempt failed: dial sleeps and tries again, unless the client is closed or
\* this was the last attempt.
DialAgain(c) ==
    /\ connect[c] = "dialled" /\ conn[c] = 0
    /\ connect' = [connect EXCEPT ![c] = IF clClosed[c] \/ times[c] = 0 THEN "end" ELSE "dial"]
    /\ UNCHANGED <<netVars, svVars, clClosed, conn, times, clConns, clClose>>

\* Fault: connect does not test isClosed.
DialledUnchecked(c) ==
    /\ connect[c] = "dialled" /\ conn[c] # 0
    /\ connect' = [connect EXCEPT ![c] = "add"]
    /\ UNCHANGED <<netVars, svVars, clClosed, conn, times, clConns, clClose>>

\* The attempt succeeded. A client closed meanwhile closes the socket and ends.
Dialled(c) ==
    /\ connect[c] = "dialled" /\ conn[c] # 0
    /\ connect' = [connect EXCEPT ![c] = IF clClosed[c] THEN "end" ELSE "add"]
    /\ client' = IF clClosed[c] THEN [client EXCEPT ![conn[c]] = "closed"] ELSE client
    /\ UNCHANGED <<last, server, backlog, listener, svVars, clClosed, conn, times, clConns, clClose>>

\* NewTcpConn and connMgr.Add, some time after isClosed was tested.
ClientAdd(c) ==
    /\ connect[c] = "add"
    /\ clConns' = [clConns EXCEPT ![c] = @ \cup {conn[c]}]
    /\ connect' = [connect EXCEPT ![c] = "run"]
    /\ UNCHANGED <<netVars, svVars, clClosed, conn, times, clClose>>

\* agent.Run returns and the connection is closed.
ClientEnds(c) ==
    /\ connect[c] = "run"
    /\ client' = CloseAll(client, {conn[c]})
    /\ connect' = [connect EXCEPT ![c] = "remove"]
    /\ UNCHANGED <<last, server, backlog, listener, svVars, clClosed, conn, times, clConns, clClose>>

\* connMgr.Remove, OnClose, and back to dial when the client reconnects.
ClientRemoves(c) ==
    /\ connect[c] = "remove"
    /\ clConns' = [clConns EXCEPT ![c] = @ \ {conn[c]}]
    /\ connect' = [connect EXCEPT ![c] = IF AutoReconnect THEN "dial" ELSE "end"]
    /\ times' = [times EXCEPT ![c] = maxConnectTimes]
    /\ conn' = [conn EXCEPT ![c] = 0]
    /\ UNCHANGED <<netVars, svVars, clClosed, clClose>>

-----------------------------------------------------------------------------
(* TcpClient.Close *)

ClientClose(c) ==
    /\ clClose[c] = "idle" /\ ~clClosed[c]
    /\ clClosed' = [clClosed EXCEPT ![c] = TRUE]
    /\ clClose' = [clClose EXCEPT ![c] = "clear"]
    /\ UNCHANGED <<netVars, svVars, connect, conn, times, clConns>>

\* ClearConn. Without waitDone Close returns here; with it wg.Wait() follows.
ClientClearConn(c) ==
    /\ clClose[c] = "clear"
    /\ client' = CloseAll(client, clConns[c])
    /\ clConns' = [clConns EXCEPT ![c] = {}]
    /\ clClose' = [clClose EXCEPT ![c] = "wait"]
    /\ UNCHANGED <<last, server, backlog, listener, svVars, clClosed, connect, conn, times>>

ClientWait(c) ==
    /\ clClose[c] = "wait" /\ connect[c] = "end"
    /\ clClose' = [clClose EXCEPT ![c] = "done"]
    /\ UNCHANGED <<netVars, svVars, clClosed, connect, conn, times, clConns>>

-----------------------------------------------------------------------------
LoopNext ==
    \/ Run \/ \E ok \in BOOLEAN : ListenTCP(ok)
    \/ CheckClosed \/ AcceptTCP \/ RefuseConn \/ AddConn \/ SpawnAgent

CloseNext == CloseListener \/ WaitListener \/ ServerClearConn \/ WaitConns

ConnectNext(c) ==
    \/ \E ok \in BOOLEAN : DialTCP(c, ok)
    \/ DialAgain(c) \/ Dialled(c) \/ ClientAdd(c) \/ ClientRemoves(c)

ClientCloseNext(c) == ClientClearConn(c) \/ ClientWait(c)

Next ==
    \/ LoopNext \/ ServerClose \/ CloseNext
    \/ \E timeout \in BOOLEAN : AcceptError(timeout)
    \/ \E k \in Conns : AgentEnds(k) \/ AgentRemoves(k)
    \/ \E c \in Clients :
        \/ ConnectNext(c) \/ ResolveFails(c) \/ ClientEnds(c)
        \/ ClientClose(c) \/ ClientCloseNext(c)

\* Runnable goroutines run; a reading loop ends once its connection has ended at
\* either side: the writer closes the socket and that reaches the peer. Nobody need
\* ever call Close, and no error need ever happen.
Fairness ==
    /\ WF_vars(LoopNext) /\ WF_vars(CloseNext)
    /\ \A k \in Conns :
        /\ WF_vars(Ended(k) /\ AgentEnds(k))
        /\ WF_vars(AgentRemoves(k))
    /\ \A c \in Clients :
        /\ WF_vars(ConnectNext(c))
        /\ WF_vars(conn[c] # 0 /\ Ended(conn[c]) /\ ClientEnds(c))
        /\ WF_vars(ClientCloseNext(c))

Spec == Init /\ [][Next]_vars /\ Fairness

-----------------------------------------------------------------------------
(* Properties *)

TypeOK ==
    /\ last \in 0..MaxConns
    /\ client \in [Conns -> {"none", "open", "closed"}]
    /\ server \in [Conns -> {"none", "open", "closed"}]
    /\ backlog \in Seq(Conns) /\ listener \in {"none", "open", "closed"}
    /\ loop \in [at : {"start", "listen", "check", "accept", "accepted", "spawn", "end"},
                 conn : 0..MaxConns]
    /\ svClosed \in BOOLEAN /\ svConns \subseteq Conns
    /\ agent \in [Conns -> {"none", "run", "remove", "end"}]
    /\ svClose \in {"idle", "listener", "wgLn", "clear", "wgConns", "done"}
    /\ clClosed \in [Clients -> BOOLEAN]
    /\ connect \in [Clients -> {"dial", "dialled", "add", "run", "remove", "end"}]
    /\ conn \in [Clients -> 0..MaxConns] /\ times \in [Clients -> 0..maxConnectTimes]
    /\ clConns \in [Clients -> SUBSET Conns]
    /\ clClose \in [Clients -> {"idle", "clear", "wait", "done"}]

Served == {k \in Conns : agent[k] \in {"run", "remove"}}

\* The connections the server serves are the ones it has registered, and so at
\* most MaxConnNum, until ClearConn empties the manager; and ClearConn then has
\* closed every one of them.
ServedIsRegistered ==
    /\ svClose \in {"idle", "listener", "wgLn", "clear"} => Served \subseteq svConns
    /\ svClose \in {"wgConns", "done"} => \A k \in Served : server[k] # "open"
    /\ Cardinality(Served) <= MaxConnNum

\* When TcpServer.Close has returned no connection is served and none will be,
\* even if Close came before the accept loop had started.
ClosedMeansQuiet ==
    svClose = "done" => Served = {} /\ loop.at \notin {"accepted", "spawn"}

\* TcpServer.Close returns: every agent it waits for ends.
ServerCloseReturns == svClose = "listener" ~> svClose = "done"

\* A TcpClient closed while its agent runs ends for good, although it reconnects
\* and the connection may break at that moment.
ClosedWhileRunningEnds ==
    \A c \in Clients : clClose[c] = "clear" /\ connect[c] = "run" ~> connect[c] = "end"

\* Once the server has closed its listener and returned from Close, every client
\* notices, runs out of attempts and ends.
ClientsGiveUp ==
    svClose = "done" /\ listener = "closed" ~> \A c \in Clients : connect[c] = "end"
=============================================================================
