----------------------------- MODULE Discovery -----------------------------
(***************************************************************************)
(* Dynamic service discovery (cluster/dynamicdiscovery.go): the master     *)
(* service of one master node and the discovery client service of every    *)
(* node, over the routing tables of ClusterTable and the connection events *)
(* of Cluster.triggerNodeConnectEvent.                                     *)
(*                                                                         *)
(* Every node dials the nodes in its table. A connection coming up or      *)
(* going down is queued as an event for the services of the dialling node. *)
(* A client registers with the master when its connection to the master    *)
(* comes up; the master dials back, and broadcasts what it learns over its *)
(* own connections.                                                        *)
(*                                                                         *)
(* Each service handles its queue in order, one event at a time. Handlers  *)
(* of the two services of the master node interleave; the other nodes run  *)
(* the client service alone.                                               *)
(***************************************************************************)
EXTENDS ClusterTable, Sequences, FiniteSets

CONSTANTS Master,      \* the master node; masterDiscoveryNodeList has this one entry
          Public,      \* the public services each node is configured with
          DC,          \* DynamicDiscoveryClientName, public on every node
          DiscoveryService, \* the services each node asks to be told of; {} is all
          MaxClients,  \* bound on the clients one node creates in a life
          MaxBreaks,   \* bound on connections that break between live nodes
          MaxCrashes,  \* bound on crashes of nodes
          DialLimit    \* TRUE: dialling gives up after maxConnectTimes attempts.
                       \* FALSE: the peer is assumed to come up before that

ASSUME DiscoveryAssumption ==
    /\ Masters = {Master}
    /\ DC \in Services
    /\ Public \in [Nodes -> SUBSET Services]
    /\ \A n \in Nodes : DC \in Public[n]
    /\ DiscoveryService \in [Nodes -> SUBSET Services]
    /\ MaxClients \in Nat /\ MaxBreaks \in Nat /\ MaxCrashes \in Nat
    /\ DialLimit \in BOOLEAN

VARIABLES up,           \* the process of the node runs
          life,         \* how often it has been started
          tab,          \* its Cluster tables
          clientSeq,    \* the global clientSeq of its process
          zombies,      \* closed clients whose agent has not ended yet
          masterQ,      \* queue of the master service
          clientQ,      \* queue of each node's discovery client service
          mapNodeIsReg, \* the master's registered nodes
          nodeInfo,     \* the nodes in the list the master publishes
          mapDiscovery, \* per node: what the master has announced to it
          breaks, crashes

linkVars == <<up, life, breaks, crashes>>
masterVars == <<masterQ, mapNodeIsReg, nodeInfo>>
vars == <<up, life, tab, clientSeq, zombies, masterQ, clientQ, mapNodeIsReg, nodeInfo,
          mapDiscovery, breaks, crashes>>

\* The NodeInfo built from a DiscoveryNodeInfo.
InfoOf(n) == [ServiceList |-> Public[n], PublicServiceList |-> Public[n], status |-> "Normal"]

\* The entry of the configuration for a master: an address and no services.
MasterCfg == [ServiceList |-> {}, PublicServiceList |-> {}, status |-> "Normal"]

Infos == [n \in Nodes |-> InfoOf(n)]

\* setNodeInfo keeps the services node x is configured to discover.
Wanted(x, n) ==
    IF DiscoveryService[x] = {} THEN Public[n] ELSE Public[n] \cap DiscoveryService[x]

WantedInfos(x) == [n \in Nodes |-> [ServiceList |-> Wanted(x, n),
                                    PublicServiceList |-> Wanted(x, n), status |-> "Normal"]]

\* What travels between services: connection events, a registration, and the
\* DiscoverMasterReq of RPC_SubServiceDiscover.
NodeEvent(b, n) == [type |-> IF b THEN "connect" ELSE "disconnect", node |-> n]
RegReq(n) == [type |-> "reg", node |-> n]
SubReq(full, infos, del) == [type |-> "sub", full |-> full, infos |-> infos, del |-> del]

Init ==
    /\ up = [x \in Nodes |-> FALSE]
    /\ life = [x \in Nodes |-> 0]
    /\ tab = [x \in Nodes |-> EmptyTable(x, Public[x])]
    /\ clientSeq = [x \in Nodes |-> 0]
    /\ zombies = [x \in Nodes |-> {}]
    /\ masterQ = <<>>
    /\ clientQ = [x \in Nodes |-> <<>>]
    /\ mapNodeIsReg = [n \in Nodes |-> FALSE]
    /\ nodeInfo = {}
    /\ mapDiscovery = [x \in Nodes |-> {}]
    /\ breaks = 0 /\ crashes = 0

-----------------------------------------------------------------------------
(* Connections *)

\* Fault: the clientSeq is not compared.
triggerNodeConnectEventStale(x, b, seq, n) ==
    /\ seq # 0
    /\ clientQ' = [clientQ EXCEPT ![x] = Append(@, NodeEvent(b, n))]
    /\ masterQ' = IF x = Master THEN Append(masterQ, NodeEvent(b, n)) ELSE masterQ

\* triggerNodeConnectEvent: an event of a client that is no longer the one in
\* mapRpc is ignored, any other goes to every service of the node. The test is made
\* under the lock and the event published after it; a registration handled between
\* the two is, for everyone, one that was queued before.
triggerNodeConnectEvent(x, b, seq, n) ==
    IF tab[x].rpc[n].seq = seq
    THEN /\ clientQ' = [clientQ EXCEPT ![x] = Append(@, NodeEvent(b, n))]
         /\ masterQ' = IF x = Master THEN Append(masterQ, NodeEvent(b, n)) ELSE masterQ
    ELSE UNCHANGED <<clientQ, masterQ>>

\* The connection of x to n leads to the process n is now.
Linked(x, n) ==
    IsConnected(tab[x], n) /\ up[n] /\ tab[x].rpc[n].life = life[n]

\* TcpClient.connect dials successfully and runs the agent.
Dial(x, n) ==
    /\ up[x] /\ up[n]
    /\ tab[x].rpc[n].st = "dial"
    /\ tab' = [tab EXCEPT ![x].rpc[n].st = "up", ![x].rpc[n].life = life[n]]
    /\ triggerNodeConnectEvent(x, TRUE, tab[x].rpc[n].seq, n)
    /\ UNCHANGED <<linkVars, clientSeq, zombies, mapNodeIsReg, nodeInfo, mapDiscovery>>

\* dial fails maxConnectTimes times: the goroutine ends, the client stays.
GiveUp(x, n) ==
    /\ DialLimit
    /\ up[x] /\ ~up[n]
    /\ tab[x].rpc[n].st = "dial"
    /\ tab' = [tab EXCEPT ![x].rpc[n].st = "gone"]
    /\ UNCHANGED <<linkVars, clientSeq, zombies, masterVars, clientQ, mapDiscovery>>

\* The agent's ReadMsg fails: OnClose reports it and connect dials again.
LinkEnds(x, n) ==
    /\ up[x]
    /\ tab[x].rpc[n].st = "up"
    /\ tab' = [tab EXCEPT ![x].rpc[n].st = "dial"]
    /\ triggerNodeConnectEvent(x, FALSE, tab[x].rpc[n].seq, n)
    /\ UNCHANGED <<up, life, crashes, clientSeq, zombies, mapNodeIsReg, nodeInfo,
                   mapDiscovery>>

LinkNoticesCrash(x, n) == ~Linked(x, n) /\ LinkEnds(x, n) /\ UNCHANGED breaks

LinkBreaks(x, n) ==
    /\ Linked(x, n)
    /\ breaks < MaxBreaks
    /\ LinkEnds(x, n)
    /\ breaks' = breaks + 1

\* The agent of a client that discovery has closed ends and reports it.
ZombieEnds(x, z) ==
    /\ up[x]
    /\ zombies' = [zombies EXCEPT ![x] = @ \ {z}]
    /\ triggerNodeConnectEvent(x, FALSE, z.seq, z.node)
    /\ UNCHANGED <<linkVars, tab, clientSeq, mapNodeIsReg, nodeInfo, mapDiscovery>>

-----------------------------------------------------------------------------
(* Changing a table *)

\* Every removal closes the client: its agent, if it runs, is left to end.
ClosedClients(x, D) ==
    {[node |-> n, seq |-> tab[x].rpc[n].seq] : n \in {m \in D : IsConnected(tab[x], m)}}

\* Node x removes D and then enters N.
ChangeTable(x, D, immediately, N, info) ==
    LET gone == Removed(tab[x], x, D, immediately)
        less == serviceDiscoveryDelNodeInfo(tab[x], x, D, immediately)
        fresh == \E n \in N \ {x} : less.rpc[n] = NoClient
        seq == clientSeq[x] + 1
    IN /\ fresh => clientSeq[x] < MaxClients
       /\ tab' = [tab EXCEPT ![x] = serviceDiscoverySetNodeInfo(less, x, N, info, seq)]
       /\ clientSeq' = IF fresh THEN [clientSeq EXCEPT ![x] = seq] ELSE clientSeq
       /\ zombies' = [zombies EXCEPT ![x] = @ \cup ClosedClients(x, gone)]

-----------------------------------------------------------------------------
(* A node starts and stops *)

\* The discovery client's OnStart: every configured master is entered and dialled;
\* serviceDiscoverySetNodeInfo skips the node itself.
addDiscoveryMaster(x) == ChangeTable(x, {}, TRUE, {Master}, [n \in Nodes |-> MasterCfg])

\* The master's OnStart: it lists itself.
MasterOnStart ==
    /\ mapNodeIsReg' = [mapNodeIsReg EXCEPT ![Master] = TRUE]
    /\ nodeInfo' = nodeInfo \cup {Master}

Start(x) ==
    /\ ~up[x]
    /\ up' = [up EXCEPT ![x] = TRUE]
    /\ life' = [life EXCEPT ![x] = @ + 1]
    /\ addDiscoveryMaster(x)
    /\ IF x = Master THEN MasterOnStart ELSE UNCHANGED <<mapNodeIsReg, nodeInfo>>
    /\ UNCHANGED <<masterQ, clientQ, mapDiscovery, breaks, crashes>>

\* A process dies with all its state.
Crash(x) ==
    /\ up[x]
    /\ crashes < MaxCrashes
    /\ crashes' = crashes + 1
    /\ up' = [up EXCEPT ![x] = FALSE]
    /\ tab' = [tab EXCEPT ![x] = EmptyTable(x, Public[x])]
    /\ clientSeq' = [clientSeq EXCEPT ![x] = 0]
    /\ zombies' = [zombies EXCEPT ![x] = {}]
    /\ clientQ' = [clientQ EXCEPT ![x] = <<>>]
    /\ mapDiscovery' = [mapDiscovery EXCEPT ![x] = {}]
    /\ IF x = Master
       THEN masterQ' = <<>> /\ mapNodeIsReg' = [n \in Nodes |-> FALSE] /\ nodeInfo' = {}
       ELSE UNCHANGED masterVars
    /\ UNCHANGED <<life, breaks>>

-----------------------------------------------------------------------------
(* The master service *)

\* GoNode(n, SubServiceDiscover, m) for every n of N: a local call for the master
\* itself, otherwise over its connection; without one the call fails and the
\* error is ignored.
SubServiceDiscover(N, m) ==
    clientQ' = [n \in Nodes |->
        IF n \in N /\ (n = Master \/ Linked(Master, n)) THEN Append(clientQ[n], m) ELSE clientQ[n]]

\* RpcBroadCastGo sends to the registered nodes.
RpcBroadCastGo(m) == SubServiceDiscover({n \in Nodes : mapNodeIsReg[n]}, m)

\* OnNodeConnected: the full list for a registered node.
MasterOnNodeConnected(n) ==
    /\ IF mapNodeIsReg[n] THEN SubServiceDiscover({n}, SubReq(TRUE, nodeInfo, None))
                          ELSE UNCHANGED clientQ
    /\ UNCHANGED <<tab, clientSeq, zombies, mapNodeIsReg, nodeInfo>>

\* OnNodeDisconnect: broadcast the removal, then forget the node and its client.
MasterOnNodeDisconnect(n) ==
    IF mapNodeIsReg[n]
    THEN /\ RpcBroadCastGo(SubReq(FALSE, {}, n))
         /\ mapNodeIsReg' = [mapNodeIsReg EXCEPT ![n] = FALSE]
         /\ nodeInfo' = nodeInfo \ {n}
         /\ ChangeTable(Master, {n}, TRUE, {}, Infos)
    ELSE UNCHANGED <<clientQ, tab, clientSeq, zombies, mapNodeIsReg, nodeInfo>>

\* RPC_RegServiceDiscover: tell the others, list the node, and replace the client
\* for it by a new one.
RPC_RegServiceDiscover(n) ==
    /\ RpcBroadCastGo(SubReq(FALSE, {n}, None))
    /\ mapNodeIsReg' = [mapNodeIsReg EXCEPT ![n] = TRUE]
    /\ nodeInfo' = nodeInfo \cup {n}
    /\ ChangeTable(Master, {n}, TRUE, {n}, Infos)

MasterHandles ==
    /\ up[Master] /\ masterQ # <<>>
    /\ masterQ' = Tail(masterQ)
    /\ LET ev == Head(masterQ) IN
        \/ ev.type = "connect" /\ MasterOnNodeConnected(ev.node)
        \/ ev.type = "disconnect" /\ MasterOnNodeDisconnect(ev.node)
        \/ ev.type = "reg" /\ RPC_RegServiceDiscover(ev.node)
    /\ UNCHANGED <<linkVars, mapDiscovery>>

-----------------------------------------------------------------------------
(* The discovery client service of node x *)

\* OnNodeConnected: register with the master that has come within reach. The
\* asynchronous call is lost if the connection is gone again.
ClientOnNodeConnected(x, n) ==
    /\ masterQ' = IF n \in Masters /\ Linked(x, n) THEN Append(masterQ, RegReq(x)) ELSE masterQ
    /\ UNCHANGED <<tab, clientSeq, zombies, mapDiscovery>>

\* OnNodeDisconnect: DiscardNode.
ClientOnNodeDisconnect(x, n) ==
    /\ tab' = [tab EXCEPT ![x] = DiscardNode(tab[x], x, n)]
    /\ UNCHANGED <<masterQ, clientSeq, zombies, mapDiscovery>>

\* RPC_SubServiceDiscover. A member skips nodes that publish nothing but the
\* discovery client. A full list also removes what it no longer names. There is
\* one master, so findNodeId fails for every removed node. The removals and entries
\* each take the lock; only on the master does another service use the table, and a
\* message to the master itself names one node.
RPC_SubServiceDiscover(x, m) ==
    LET named == {n \in m.infos : n # x /\ (x \in Masters \/ Public[n] # {DC})}
        willDel == (IF m.full THEN mapDiscovery[x] \ named ELSE {})
                   \cup (IF m.del # None /\ m.del # x THEN {m.del} ELSE {})
    IN /\ ChangeTable(x, willDel, FALSE, {n \in named : Wanted(x, n) # {}}, WantedInfos(x))
       /\ mapDiscovery' = [mapDiscovery EXCEPT ![x] = (@ \ willDel) \cup named]
       /\ UNCHANGED masterQ

ClientHandles(x) ==
    /\ up[x] /\ clientQ[x] # <<>>
    /\ clientQ' = [clientQ EXCEPT ![x] = Tail(@)]
    /\ LET ev == Head(clientQ[x]) IN
        \/ ev.type = "connect" /\ ClientOnNodeConnected(x, ev.node)
        \/ ev.type = "disconnect" /\ ClientOnNodeDisconnect(x, ev.node)
        \/ ev.type = "sub" /\ RPC_SubServiceDiscover(x, ev)
    /\ UNCHANGED <<linkVars, mapNodeIsReg, nodeInfo>>

-----------------------------------------------------------------------------
NodeNext(x) ==
    \/ Start(x) \/ Crash(x)
    \/ \E n \in Nodes : Dial(x, n) \/ GiveUp(x, n) \/ LinkNoticesCrash(x, n) \/ LinkBreaks(x, n)
    \/ \E z \in zombies[x] : ZombieEnds(x, z)
    \/ ClientHandles(x)

Next == MasterHandles \/ \E x \in Nodes : NodeNext(x)

\* What happens unless something fails: nodes are started, their goroutines run, a
\* dial to a live node succeeds in the end and a dead connection is noticed.
Runs ==
    \/ MasterHandles
    \/ \E x \in Nodes : \/ Start(x) \/ ClientHandles(x)
                        \/ \E n \in Nodes : Dial(x, n) \/ LinkNoticesCrash(x, n)

\* The cluster keeps running. Failures and restarts being bounded, none of these
\* steps can be put off for ever by the others, so more need not be assumed. No
\* failure is fair.
Fairness == WF_vars(Runs)

Spec == Init /\ [][Next]_vars
FairSpec == Spec /\ Fairness

-----------------------------------------------------------------------------
(* Properties *)

Messages == [type : {"connect", "disconnect", "reg"}, node : Nodes]
            \cup [type : {"sub"}, full : BOOLEAN, infos : SUBSET Nodes, del : Nodes \cup {None}]

TypeOK ==
    /\ up \in [Nodes -> BOOLEAN]
    /\ life \in [Nodes -> Nat]
    /\ tab \in [Nodes -> Tables]
    /\ clientSeq \in [Nodes -> 0..MaxClients]
    /\ zombies \in [Nodes -> SUBSET [node : Nodes, seq : 1..MaxClients]]
    /\ masterQ \in Seq(Messages)
    /\ clientQ \in [Nodes -> Seq(Messages)]
    /\ mapNodeIsReg \in [Nodes -> BOOLEAN]
    /\ nodeInfo \subseteq Nodes
    /\ mapDiscovery \in [Nodes -> SUBSET Nodes]
    /\ breaks \in 0..MaxBreaks /\ crashes \in 0..MaxCrashes

\* Every node's tables agree with one another whatever order registrations,
\* announcements, removals and connection events are handled in.
TablesSound == \A x \in Nodes : TableSound(tab[x], x)

\* Node x routes what it wants of node n.
Knows(x, n) == \A s \in Wanted(x, n) : n \in RouteTo(tab[x], s)

\* What the master has announced to a member and not withdrawn is in the member's
\* table: no full list, removal or lost connection handled since takes out a node that
\* the member counts among those it was told of.
AnnouncedIsRouted ==
    \A x \in Nodes \ {Master} : \A n \in mapDiscovery[x] : Knows(x, n)

\* If both run, x routes every public service it asks for of n, if n has one besides
\* the discovery client's.
SettledFor(x, n) == up[x] /\ up[n] /\ (x = Master \/ Public[n] # {DC}) => Knows(x, n)

Settled == \A x, n \in Nodes : SettledFor(x, n)

\* Service discovery converges: in the end, and for good, every node knows what it
\* should, whatever order the nodes start and the events are handled in.
Converges == <>[]Settled

\* The last the master hears of n is that its connection to n has ended, although n,
\* connected to the master, has registered over that and will not do so again.
Forgotten(n) ==
    /\ tab[Master].rpc[n].st = "dial" /\ tab[Master].rpc[n].life # 0
    /\ Linked(n, Master) /\ \A i \in DOMAIN clientQ[n] : clientQ[n][i] # NodeEvent(TRUE, Master)
    /\ \E i \in DOMAIN masterQ :
        /\ masterQ[i] = NodeEvent(FALSE, n)
        /\ \A j \in DOMAIN masterQ : masterQ[j] = RegReq(n) => j < i

\* n has given up dialling the master.
GaveUp(n) == tab[n].rpc[Master].st = "gone"
=============================================================================
