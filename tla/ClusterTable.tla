---------------------------- MODULE ClusterTable ----------------------------
(***************************************************************************)
(* The routing tables of one node's Cluster object (cluster/cluster.go):   *)
(* mapIdNode, mapServiceNode and mapRpc, and the two functions service     *)
(* discovery changes them with. Both hold cls.locker throughout, so they   *)
(* are operators from a table to a table.                                  *)
(*                                                                         *)
(* A table t is a record:                                                  *)
(*   t.id[n]   mapIdNode: the NodeInfo of n, or None                       *)
(*   t.svc[s]  mapServiceNode: the nodes that offer s; no key is {}        *)
(*   t.rpc[n]  mapRpc: the client for n, NoClient if there is none         *)
(* `self` is the node that owns the table. Its own services and client are *)
(* entered once at start and never change.                                 *)
(***************************************************************************)
EXTENDS Naturals

CONSTANTS Nodes,     \* the node ids of the configuration
          Masters,   \* masterDiscoveryNodeList
          Services,  \* service names
          None

ASSUME ClusterTableAssumption ==
    /\ Masters \subseteq Nodes
    /\ None \notin Nodes
    /\ None \notin Services

\* What discovery passes around of a NodeInfo. Every path that builds one
\* publishes a part of ServiceList; status is Normal (0) unless set.
NodeInfos == {i \in [ServiceList : SUBSET Services, PublicServiceList : SUBSET Services,
                     status : {"Normal", "Discard"}] :
                i.PublicServiceList \subseteq i.ServiceList}

\* nil is no NodeInfo.
ASSUME NilInfoAssumption == None \notin NodeInfos

\* An RpcClient: its clientSeq, where its connect goroutine is, and which life
\* of the remote process its connection leads to.
Clients == [seq : Nat \ {0}, st : {"dial", "up", "gone"}, life : Nat]
NoClient == [seq |-> 0, st |-> "none", life |-> 0]

\* RpcClient.IsConnected of the client in the table.
IsConnected(t, n) == t.rpc[n].st = "up"

Tables == [id : [Nodes -> NodeInfos \cup {None}],
           svc : [Services -> SUBSET Nodes],
           rpc : [Nodes -> Clients \cup {NoClient}]]

\* The table after LoadConfig, appendService and initLocalRpcClient: the node's own
\* services. The code also enters the node itself in mapIdNode and its local client,
\* which is always connected, in mapRpc; both functions below skip the node itself,
\* so those entries never change and are left out of the tables.
EmptyTable(self, own) ==
    [id |-> [n \in Nodes |-> None],
     svc |-> [s \in Services |-> IF s \in own THEN {self} ELSE {}],
     rpc |-> [n \in Nodes |-> NoClient]]

\* Fault: the number is not taken from clientSeq.
NewClientUnnumbered(seq) == [seq |-> seq - seq, st |-> "dial", life |-> 0]

\* NewRpcClient and Start.
NewClient(seq) == [seq |-> seq, st |-> "dial", life |-> 0]

\* Fault: only mapIdNode and mapRpc are cleaned.
delServiceNodeForgotten(t, D) == [s \in Services |-> t.svc[s] \ (D \ Nodes)]

\* delServiceNode for every service of the nodes in D: an emptied entry of
\* mapServiceNode is deleted, which is what {} stands for.
delServiceNode(t, D) ==
    [s \in Services |-> {n \in t.svc[s] :
        ~(n \in D /\ t.id[n] # None /\ s \in t.id[n].ServiceList)}]

\* serviceDiscoverySetNodeInfo for the nodes of N at once, each with info[n]: the
\* old services go, the public ones come in, and a client numbered seq is started
\* for a node that has none. The local node is skipped.
serviceDiscoverySetNodeInfo(t, self, N, info, seq) ==
    LET new == N \ {self}
        cleaned == delServiceNode(t, new)
    IN [id |-> [n \in Nodes |-> IF n \in new THEN info[n] ELSE t.id[n]],
        svc |-> [s \in Services |->
                    cleaned[s] \cup {n \in new : s \in info[n].PublicServiceList}],
        rpc |-> [n \in Nodes |-> IF n \in new /\ t.rpc[n] = NoClient
                                 THEN NewClient(seq)
                                 ELSE t.rpc[n]]]

\* The nodes of D that serviceDiscoveryDelNodeInfo really removes: never the
\* local node or a master, and unless `immediately` none that is connected. For
\* those the code sets status to Discard in its own copy of the NodeInfo.
Removed(t, self, D, immediately) ==
    {n \in D : /\ n # self /\ n \notin Masters
               /\ t.id[n] # None
               /\ immediately \/ ~IsConnected(t, n)}

\* serviceDiscoveryDelNodeInfo for the nodes of D at once.
serviceDiscoveryDelNodeInfo(t, self, D, immediately) ==
    LET gone == Removed(t, self, D, immediately)
    IN [id |-> [n \in Nodes |-> IF n \in gone THEN None ELSE t.id[n]],
        svc |-> delServiceNode(t, gone),
        rpc |-> [n \in Nodes |-> IF n \in gone THEN NoClient ELSE t.rpc[n]]]

\* Fault: the mark is not tested.
DiscardNodeUnmarked(t, self, n) == serviceDiscoveryDelNodeInfo(t, self, {n}, TRUE)

\* DiscardNode: removes the node if its entry is marked.
DiscardNode(t, self, n) ==
    IF t.id[n] # None /\ t.id[n].status = "Discard"
    THEN serviceDiscoveryDelNodeInfo(t, self, {n}, TRUE)
    ELSE t

\* GetNodeIdByService: the nodes a call to s may go to.
RouteTo(t, s) == t.svc[s]

-----------------------------------------------------------------------------
\* What makes a table usable: a call routed to another node finds that node's
\* entry, which offers the service, and a client to send it with; a node has an
\* entry exactly when it has a client; discovery never enters the owner itself.
TableSound(t, self) ==
    /\ \A s \in Services : \A n \in RouteTo(t, s) \ {self} :
        /\ t.id[n] # None
        /\ s \in t.id[n].PublicServiceList
        /\ t.rpc[n] # NoClient
    /\ \A n \in Nodes : t.id[n] # None <=> t.rpc[n] # NoClient
    /\ t.id[self] = None
=============================================================================
