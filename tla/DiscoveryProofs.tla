--------------------------- MODULE DiscoveryProofs ---------------------------
(***************************************************************************)
(* Theorems about the routing tables and about service discovery, for any  *)
(* set of nodes and services and any number of failures: the tables are    *)
(* sound (Inv), and what was announced is routed (RouteInv).               *)
(***************************************************************************)
EXTENDS Discovery, TLAPS

-----------------------------------------------------------------------------
(* The operations on a table *)

LEMMA EmptyTableSound ==
  ASSUME NEW self \in Nodes, NEW own \in SUBSET Services
  PROVE  EmptyTable(self, own) \in Tables /\ TableSound(EmptyTable(self, own), self)
  <1> DEFINE t == EmptyTable(self, own)
  <1>1. t \in Tables
    BY DEF EmptyTable, Tables
  <1>2. TableSound(t, self)
    BY DEF EmptyTable, TableSound, RouteTo
  <1> QED BY <1>1, <1>2

LEMMA NewClientType ==
  ASSUME NEW seq \in Nat \ {0}
  PROVE  NewClient(seq) \in Clients /\ NewClient(seq) # NoClient
  BY DEF NewClient, Clients, NoClient

LEMMA DelServiceNodeType ==
  ASSUME NEW t \in Tables, NEW D
  PROVE  delServiceNode(t, D) \in [Services -> SUBSET Nodes]
  BY DEF delServiceNode, Tables

\* Removing nodes takes their entries, clients and routes out together.
LEMMA DelNodeInfoSound ==
  ASSUME NEW t \in Tables, NEW self \in Nodes, NEW D, NEW immediately \in BOOLEAN,
         TableSound(t, self)
  PROVE  /\ serviceDiscoveryDelNodeInfo(t, self, D, immediately) \in Tables
         /\ TableSound(serviceDiscoveryDelNodeInfo(t, self, D, immediately), self)
  <1> DEFINE gone == Removed(t, self, D, immediately)
             r == serviceDiscoveryDelNodeInfo(t, self, D, immediately)
  <1>1. /\ r.id = [n \in Nodes |-> IF n \in gone THEN None ELSE t.id[n]]
        /\ r.svc = delServiceNode(t, gone)
        /\ r.rpc = [n \in Nodes |-> IF n \in gone THEN NoClient ELSE t.rpc[n]]
    BY DEF serviceDiscoveryDelNodeInfo
  <1>2. r \in Tables
    BY DelServiceNodeType DEF serviceDiscoveryDelNodeInfo, Tables
  <1>3. ASSUME NEW s \in Services, NEW n \in r.svc[s] \ {self}
        PROVE  r.id[n] # None /\ s \in r.id[n].PublicServiceList /\ r.rpc[n] # NoClient
    <2>1. n \in t.svc[s] \ {self} /\ n \in Nodes
      BY <1>1, <1>3 DEF delServiceNode, Tables
    <2>2. t.id[n] # None /\ s \in t.id[n].PublicServiceList /\ t.rpc[n] # NoClient
      BY <2>1 DEF TableSound, RouteTo
    <2>3. s \in t.id[n].ServiceList
      BY <2>1, <2>2 DEF Tables, NodeInfos
    <2>4. n \notin gone
      BY <1>1, <1>3, <2>2, <2>3 DEF delServiceNode
    <2> QED BY <1>1, <2>1, <2>2, <2>4
  <1>4. \A n \in Nodes : r.id[n] # None <=> r.rpc[n] # NoClient
    BY <1>1 DEF TableSound
  <1>5. r.id[self] = None
    BY <1>1 DEF TableSound
  <1> HIDE DEF r
  <1>6. TableSound(r, self)
    BY <1>3, <1>4, <1>5 DEF TableSound, RouteTo
  <1> QED BY <1>2, <1>6 DEF r

\* Entering nodes replaces their routes and gives each one a client.
LEMMA SetNodeInfoSound ==
  ASSUME NEW t \in Tables, NEW self \in Nodes, NEW N \in SUBSET Nodes,
         NEW info \in [Nodes -> NodeInfos], NEW seq \in Nat \ {0},
         TableSound(t, self)
  PROVE  /\ serviceDiscoverySetNodeInfo(t, self, N, info, seq) \in Tables
         /\ TableSound(serviceDiscoverySetNodeInfo(t, self, N, info, seq), self)
  <1> DEFINE new == N \ {self}
             r == serviceDiscoverySetNodeInfo(t, self, N, info, seq)
  <1>1. /\ r.id = [n \in Nodes |-> IF n \in new THEN info[n] ELSE t.id[n]]
        /\ r.svc = [s \in Services |-> delServiceNode(t, new)[s]
                                         \cup {n \in new : s \in info[n].PublicServiceList}]
        /\ r.rpc = [n \in Nodes |-> IF n \in new /\ t.rpc[n] = NoClient
                                    THEN NewClient(seq) ELSE t.rpc[n]]
    BY DEF serviceDiscoverySetNodeInfo
  <1>2. r \in Tables
    <2>1. [n \in Nodes |-> IF n \in new THEN info[n] ELSE t.id[n]] \in [Nodes -> NodeInfos \cup {None}]
      BY DEF Tables
    <2>2. [s \in Services |-> delServiceNode(t, new)[s]
              \cup {n \in new : s \in info[n].PublicServiceList}] \in [Services -> SUBSET Nodes]
      BY DelServiceNodeType
    <2>3. [n \in Nodes |-> IF n \in new /\ t.rpc[n] = NoClient THEN NewClient(seq) ELSE t.rpc[n]]
              \in [Nodes -> Clients \cup {NoClient}]
      BY NewClientType DEF Tables
    <2> QED BY <2>1, <2>2, <2>3 DEF serviceDiscoverySetNodeInfo, Tables
  <1>3. ASSUME NEW s \in Services, NEW n \in r.svc[s] \ {self}
        PROVE  r.id[n] # None /\ s \in r.id[n].PublicServiceList /\ r.rpc[n] # NoClient
    <2>1. CASE n \in new
      <3>1. n \in Nodes /\ r.id[n] = info[n] /\ info[n] # None
        BY <1>1, <2>1, NilInfoAssumption
      <3>2. r.rpc[n] # NoClient
        BY <1>1, <2>1, <3>1, NewClientType
      <3>3. n \notin delServiceNode(t, new)[s]
        <4>1. CASE n \notin t.svc[s]
          BY <4>1 DEF delServiceNode
        <4>2. CASE n \in t.svc[s]
          <5>1. t.id[n] # None /\ s \in t.id[n].PublicServiceList
            BY <1>3, <4>2 DEF TableSound, RouteTo
          <5>2. s \in t.id[n].ServiceList
            BY <3>1, <5>1 DEF Tables, NodeInfos
          <5> QED BY <2>1, <5>1, <5>2 DEF delServiceNode
        <4> QED BY <4>1, <4>2
      <3>4. s \in info[n].PublicServiceList
        BY <1>1, <1>3, <3>3
      <3> QED BY <3>1, <3>2, <3>4
    <2>2. CASE n \notin new
      <3>1. n \in t.svc[s] \ {self}
        BY <1>1, <1>3, <2>2 DEF delServiceNode
      <3>2. n \in Nodes
        BY <3>1 DEF Tables
      <3>3. t.id[n] # None /\ s \in t.id[n].PublicServiceList /\ t.rpc[n] # NoClient
        BY <3>1 DEF TableSound, RouteTo
      <3> QED BY <1>1, <2>2, <3>2, <3>3
    <2> QED BY <2>1, <2>2
  <1>4. ASSUME NEW n \in Nodes
        PROVE  r.id[n] # None <=> r.rpc[n] # NoClient
    <2>1. CASE n \in new
      <3>1. r.id[n] # None
        BY <1>1, <2>1, NilInfoAssumption
      <3>2. r.rpc[n] # NoClient
        BY <1>1, <2>1, NewClientType
      <3> QED BY <3>1, <3>2
    <2>2. CASE n \notin new
      BY <1>1, <2>2 DEF TableSound
    <2> QED BY <2>1, <2>2
  <1>5. r.id[self] = None
    BY <1>1 DEF TableSound
  <1> HIDE DEF r
  <1>6. TableSound(r, self)
    BY <1>3, <1>4, <1>5 DEF TableSound, RouteTo
  <1> QED BY <1>2, <1>6 DEF r

LEMMA DiscardNodeSound ==
  ASSUME NEW t \in Tables, NEW self \in Nodes, NEW n \in Nodes, TableSound(t, self)
  PROVE  DiscardNode(t, self, n) \in Tables /\ TableSound(DiscardNode(t, self, n), self)
  BY DelNodeInfoSound DEF DiscardNode

-----------------------------------------------------------------------------
(* The invariant *)

\* A client's number was generated by its process.
ClientsNumbered == \A x, n \in Nodes : tab[x].rpc[n].seq <= clientSeq[x]

Inv == TypeOK /\ ClientsNumbered /\ TablesSound

LEMMA MasterIsNode == Master \in Nodes /\ Masters = {Master}
  BY ClusterTableAssumption, DiscoveryAssumption

LEMMA InfosType ==
  /\ Infos \in [Nodes -> NodeInfos]
  /\ [n \in Nodes |-> MasterCfg] \in [Nodes -> NodeInfos]
  /\ \A x \in Nodes : WantedInfos(x) \in [Nodes -> NodeInfos]
  <1>1. Infos \in [Nodes -> NodeInfos]
    BY DiscoveryAssumption DEF Infos, InfoOf, NodeInfos
  <1>2. MasterCfg \in NodeInfos
    BY DEF MasterCfg, NodeInfos
  <1>3. ASSUME NEW x \in Nodes
        PROVE  WantedInfos(x) \in [Nodes -> NodeInfos]
    <2>1. ASSUME NEW n \in Nodes
          PROVE  Wanted(x, n) \in SUBSET Services
      BY DiscoveryAssumption DEF Wanted
    <2> QED BY <2>1 DEF WantedInfos, NodeInfos
  <1> QED BY <1>1, <1>2, <1>3

LEMMA EventTypes ==
  ASSUME NEW n \in Nodes
  PROVE  /\ \A b \in BOOLEAN : NodeEvent(b, n) \in Messages
         /\ RegReq(n) \in Messages
         /\ \A full \in BOOLEAN, infos \in SUBSET Nodes, del \in Nodes \cup {None} :
                SubReq(full, infos, del) \in Messages
  BY DEF NodeEvent, RegReq, SubReq, Messages

LEMMA NodeMessage ==
  ASSUME NEW m \in Messages, m.type # "sub"
  PROVE  m.node \in Nodes
  BY DEF Messages

LEMMA SubMessage ==
  ASSUME NEW m \in Messages, m.type = "sub"
  PROVE  m.full \in BOOLEAN /\ m.infos \in SUBSET Nodes /\ m.del \in Nodes \cup {None}
  BY DEF Messages

\* The table of one node changes and all the others stay.
LEMMA OneTable ==
  ASSUME Inv, NEW x \in Nodes, NEW t \in Tables, TableSound(t, x),
         tab' = [tab EXCEPT ![x] = t]
  PROVE  tab' \in [Nodes -> Tables] /\ TablesSound'
  BY DEF Inv, TypeOK, TablesSound

LEMMA ChangeTableInv ==
  ASSUME Inv, NEW x \in Nodes, NEW D \in SUBSET Nodes, NEW immediately \in BOOLEAN,
         NEW N \in SUBSET Nodes, NEW info \in [Nodes -> NodeInfos],
         ChangeTable(x, D, immediately, N, info)
  PROVE  /\ tab' \in [Nodes -> Tables]
         /\ TablesSound'
         /\ clientSeq' \in [Nodes -> 0..MaxClients]
         /\ ClientsNumbered'
         /\ zombies' \in [Nodes -> SUBSET [node : Nodes, seq : 1..MaxClients]]
  <1> DEFINE gone == Removed(tab[x], x, D, immediately)
             less == serviceDiscoveryDelNodeInfo(tab[x], x, D, immediately)
             seq == clientSeq[x] + 1
             r == serviceDiscoverySetNodeInfo(less, x, N, info, seq)
             fresh == \E n \in N \ {x} : less.rpc[n] = NoClient
  <1>1. /\ fresh => clientSeq[x] < MaxClients
        /\ tab' = [tab EXCEPT ![x] = r]
        /\ clientSeq' = IF fresh THEN [clientSeq EXCEPT ![x] = seq] ELSE clientSeq
        /\ zombies' = [zombies EXCEPT ![x] = zombies[x] \cup ClosedClients(x, gone)]
    BY DEF ChangeTable
  <1>2. tab[x] \in Tables /\ TableSound(tab[x], x) /\ clientSeq[x] \in Nat /\ seq \in Nat \ {0}
    BY DEF Inv, TypeOK, TablesSound
  <1>3. less \in Tables /\ TableSound(less, x)
    BY <1>2, DelNodeInfoSound
  <1>4. r \in Tables /\ TableSound(r, x)
    BY <1>2, <1>3, SetNodeInfoSound
  <1>5. tab' \in [Nodes -> Tables] /\ TablesSound'
    BY <1>1, <1>4, OneTable
  <1>6. clientSeq' \in [Nodes -> 0..MaxClients] /\ clientSeq'[x] = (IF fresh THEN seq ELSE clientSeq[x])
    <2>1. CASE fresh
      BY <1>1, <2>1, DiscoveryAssumption DEF Inv, TypeOK
    <2>2. CASE ~fresh
      BY <1>1, <2>2 DEF Inv, TypeOK
    <2> QED BY <2>1, <2>2
  <1>7. ClientsNumbered'
    <2>1. ASSUME NEW n \in Nodes
          PROVE  r.rpc[n].seq <= clientSeq'[x]
      <3>1. /\ r.rpc[n] = IF n \in N \ {x} /\ less.rpc[n] = NoClient THEN NewClient(seq) ELSE less.rpc[n]
            /\ less.rpc[n] = IF n \in gone THEN NoClient ELSE tab[x].rpc[n]
        BY DEF serviceDiscoverySetNodeInfo, serviceDiscoveryDelNodeInfo
      <3>2. less.rpc[n].seq <= clientSeq[x]
        BY <1>2, <3>1 DEF Inv, ClientsNumbered, NoClient
      <3>3. clientSeq[x] <= clientSeq'[x]
        BY <1>2, <1>6
      <3>4. CASE n \in N \ {x} /\ less.rpc[n] = NoClient
        <4>1. r.rpc[n] = NewClient(seq) /\ fresh
          BY <3>1, <3>4
        <4>2. clientSeq'[x] = seq
          BY <4>1, <1>6
        <4> HIDE DEF seq, r, fresh
        <4>3. NewClient(seq).seq = seq
          BY DEF NewClient
        <4> QED BY <4>1, <4>2, <4>3, <1>2
      <3>5. CASE ~(n \in N \ {x} /\ less.rpc[n] = NoClient)
        <4>1. r.rpc[n] = less.rpc[n]
          BY <3>1, <3>5
        <4>2. less.rpc[n].seq \in Nat /\ clientSeq'[x] \in Nat
          BY <1>3, <1>6 DEF Tables, Clients, NoClient
        <4> QED BY <1>2, <3>2, <3>3, <4>1, <4>2
      <3> QED BY <3>4, <3>5
    <2>2. ASSUME NEW y \in Nodes, NEW n \in Nodes
          PROVE  tab'[y].rpc[n].seq <= clientSeq'[y]
      <3>1. CASE y = x
        <4>1. tab'[y] = r
          BY <1>1, <3>1 DEF Inv, TypeOK
        <4> QED BY <2>1, <3>1, <4>1
      <3>2. CASE y # x
        <4>1. tab'[y] = tab[y] /\ clientSeq'[y] = clientSeq[y]
          BY <1>1, <3>2 DEF Inv, TypeOK
        <4> QED BY <4>1 DEF Inv, ClientsNumbered
      <3> QED BY <3>1, <3>2
    <2> QED BY <2>2 DEF ClientsNumbered
  <1>8. zombies' \in [Nodes -> SUBSET [node : Nodes, seq : 1..MaxClients]]
    <2>1. ASSUME NEW n \in gone, IsConnected(tab[x], n)
          PROVE  n \in Nodes /\ tab[x].rpc[n].seq \in 1..MaxClients
      <3>1. n \in Nodes
        BY <2>1 DEF Removed
      <3>2. tab[x].rpc[n] \in Clients
        BY <1>2, <2>1, <3>1 DEF IsConnected, Tables, NoClient
      <3>3. tab[x].rpc[n].seq <= clientSeq[x] /\ clientSeq[x] \in 0..MaxClients
        BY <3>1 DEF Inv, TypeOK, ClientsNumbered
      <3> QED BY <3>1, <3>2, <3>3, DiscoveryAssumption DEF Clients
    <2>2. ClosedClients(x, gone) \subseteq [node : Nodes, seq : 1..MaxClients]
      BY <2>1 DEF ClosedClients
    <2> QED BY <1>1, <2>2 DEF Inv, TypeOK
  <1> QED BY <1>5, <1>6, <1>7, <1>8

-----------------------------------------------------------------------------
(* One lemma per action *)

LEMMA TriggerType ==
  ASSUME Inv, NEW x \in Nodes, NEW n \in Nodes, NEW b \in BOOLEAN, NEW seq,
         triggerNodeConnectEvent(x, b, seq, n)
  PROVE  clientQ' \in [Nodes -> Seq(Messages)] /\ masterQ' \in Seq(Messages)
  <1>1. NodeEvent(b, n) \in Messages
    BY EventTypes
  <1>2. CASE tab[x].rpc[n].seq = seq
    <2>1. /\ clientQ' = [clientQ EXCEPT ![x] = Append(clientQ[x], NodeEvent(b, n))]
          /\ masterQ' = IF x = Master THEN Append(masterQ, NodeEvent(b, n)) ELSE masterQ
      BY <1>2 DEF triggerNodeConnectEvent
    <2>2. Append(clientQ[x], NodeEvent(b, n)) \in Seq(Messages)
      BY <1>1 DEF Inv, TypeOK
    <2>3. Append(masterQ, NodeEvent(b, n)) \in Seq(Messages)
      BY <1>1 DEF Inv, TypeOK
    <2> QED BY <2>1, <2>2, <2>3 DEF Inv, TypeOK
  <1>3. CASE tab[x].rpc[n].seq # seq
    BY <1>3 DEF triggerNodeConnectEvent, Inv, TypeOK
  <1> QED BY <1>2, <1>3

\* A client that changes its state and not its number, in either direction of the
\* life of a connection.
LEMMA ClientChanges ==
  ASSUME Inv, NEW x \in Nodes, NEW n \in Nodes, NEW c \in Clients,
         tab[x].rpc[n] \in Clients, c.seq = tab[x].rpc[n].seq,
         tab' = [tab EXCEPT ![x] = [tab[x] EXCEPT !.rpc = [tab[x].rpc EXCEPT ![n] = c]]],
         clientSeq' = clientSeq
  PROVE  tab' \in [Nodes -> Tables] /\ TablesSound' /\ ClientsNumbered'
  <1> DEFINE t == [tab[x] EXCEPT !.rpc = [tab[x].rpc EXCEPT ![n] = c]]
  <1>1. tab[x] \in Tables /\ TableSound(tab[x], x)
    BY DEF Inv, TypeOK, TablesSound
  <1>2. c # NoClient /\ tab[x].rpc[n] # NoClient
    BY DEF Clients, NoClient
  <1>3. t \in Tables
    BY <1>1 DEF Tables
  <1>4. /\ t.id = tab[x].id /\ t.svc = tab[x].svc
        /\ \A m \in Nodes : t.rpc[m] = NoClient <=> tab[x].rpc[m] = NoClient
        /\ \A m \in Nodes : t.rpc[m].seq = tab[x].rpc[m].seq
    BY <1>1, <1>2 DEF Tables
  <1>5. TableSound(t, x)
    <2>1. \A s \in Services : t.svc[s] \subseteq Nodes
      BY <1>3 DEF Tables
    <2> HIDE DEF t
    <2> QED BY <1>1, <1>4, <2>1 DEF TableSound, RouteTo
  <1>6. tab' \in [Nodes -> Tables] /\ TablesSound'
    BY <1>3, <1>5, OneTable
  <1>7. ClientsNumbered'
    <2>1. tab'[x] = t /\ \A y \in Nodes \ {x} : tab'[y] = tab[y]
      BY DEF Inv, TypeOK
    <2> HIDE DEF t
    <2> QED BY <1>4, <2>1 DEF Inv, ClientsNumbered
  <1> QED BY <1>6, <1>7

LEMMA DialInv ==
  ASSUME Inv, NEW x \in Nodes, NEW n \in Nodes, Dial(x, n)
  PROVE  Inv'
  <1> DEFINE old == tab[x].rpc[n]
             c == [old EXCEPT !.st = "up", !.life = life[n]]
  <1>1. old \in Clients
    BY DEF Dial, Inv, TypeOK, Tables, NoClient
  <1>2. c \in Clients /\ c.seq = old.seq
    BY <1>1 DEF Clients, Inv, TypeOK
  <1>3. tab' = [tab EXCEPT ![x] = [tab[x] EXCEPT !.rpc = [tab[x].rpc EXCEPT ![n] = c]]]
    <2>1. tab \in [Nodes -> Tables] /\ tab[x] \in Tables
      BY DEF Inv, TypeOK
    <2>2. DOMAIN tab[x].rpc = Nodes /\ "rpc" \in DOMAIN tab[x]
      BY <2>1 DEF Tables
    <2>3. tab' = [tab EXCEPT ![x].rpc[n].st = "up", ![x].rpc[n].life = life[n]]
      BY DEF Dial
    <2> QED BY <2>1, <2>2, <2>3
  <1>4. tab' \in [Nodes -> Tables] /\ TablesSound' /\ ClientsNumbered'
    BY <1>1, <1>2, <1>3, ClientChanges DEF Dial
  <1>5. clientQ' \in [Nodes -> Seq(Messages)] /\ masterQ' \in Seq(Messages)
    BY TriggerType DEF Dial
  <1> QED BY <1>4, <1>5 DEF Dial, linkVars, Inv, TypeOK

LEMMA GiveUpInv ==
  ASSUME Inv, NEW x \in Nodes, NEW n \in Nodes, GiveUp(x, n)
  PROVE  Inv'
  <1> DEFINE old == tab[x].rpc[n]
             c == [old EXCEPT !.st = "gone"]
  <1>1. old \in Clients
    BY DEF GiveUp, Inv, TypeOK, Tables, NoClient
  <1>2. c \in Clients /\ c.seq = old.seq
    BY <1>1 DEF Clients
  <1>3. tab' = [tab EXCEPT ![x] = [tab[x] EXCEPT !.rpc = [tab[x].rpc EXCEPT ![n] = c]]]
    BY DEF GiveUp
  <1>4. tab' \in [Nodes -> Tables] /\ TablesSound' /\ ClientsNumbered'
    BY <1>1, <1>2, <1>3, ClientChanges DEF GiveUp
  <1> QED BY <1>4 DEF GiveUp, linkVars, masterVars, Inv, TypeOK

LEMMA LinkEndsInv ==
  ASSUME Inv, NEW x \in Nodes, NEW n \in Nodes, LinkEnds(x, n), breaks' \in 0..MaxBreaks
  PROVE  Inv'
  <1> DEFINE old == tab[x].rpc[n]
             c == [old EXCEPT !.st = "dial"]
  <1>1. old \in Clients
    BY DEF LinkEnds, Inv, TypeOK, Tables, NoClient
  <1>2. c \in Clients /\ c.seq = old.seq
    BY <1>1 DEF Clients
  <1>3. tab' = [tab EXCEPT ![x] = [tab[x] EXCEPT !.rpc = [tab[x].rpc EXCEPT ![n] = c]]]
    BY DEF LinkEnds
  <1>4. tab' \in [Nodes -> Tables] /\ TablesSound' /\ ClientsNumbered'
    BY <1>1, <1>2, <1>3, ClientChanges DEF LinkEnds
  <1>5. clientQ' \in [Nodes -> Seq(Messages)] /\ masterQ' \in Seq(Messages)
    BY TriggerType DEF LinkEnds
  <1> QED BY <1>4, <1>5 DEF LinkEnds, Inv, TypeOK

LEMMA ZombieEndsInv ==
  ASSUME Inv, NEW x \in Nodes, NEW z \in zombies[x], ZombieEnds(x, z)
  PROVE  Inv'
  <1>1. z.node \in Nodes
    BY DEF Inv, TypeOK
  <1>2. clientQ' \in [Nodes -> Seq(Messages)] /\ masterQ' \in Seq(Messages)
    BY <1>1, TriggerType DEF ZombieEnds
  <1>3. zombies' \in [Nodes -> SUBSET [node : Nodes, seq : 1..MaxClients]]
    BY DEF ZombieEnds, Inv, TypeOK
  <1>4. TypeOK'
    BY <1>2, <1>3 DEF ZombieEnds, linkVars, Inv, TypeOK
  <1>5. ClientsNumbered' /\ TablesSound'
    BY DEF ZombieEnds, Inv, ClientsNumbered, TablesSound
  <1> QED BY <1>4, <1>5 DEF Inv

LEMMA StartInv ==
  ASSUME Inv, NEW x \in Nodes, Start(x)
  PROVE  Inv'
  <1>1. ChangeTable(x, {}, TRUE, {Master}, [n \in Nodes |-> MasterCfg])
    BY DEF Start, addDiscoveryMaster
  <1>2. /\ tab' \in [Nodes -> Tables]
        /\ TablesSound'
        /\ clientSeq' \in [Nodes -> 0..MaxClients]
        /\ ClientsNumbered'
        /\ zombies' \in [Nodes -> SUBSET [node : Nodes, seq : 1..MaxClients]]
    BY <1>1, ChangeTableInv, InfosType, MasterIsNode
  <1>3. up' \in [Nodes -> BOOLEAN]
    BY DEF Start, Inv, TypeOK
  <1>4. life' \in [Nodes -> Nat]
    BY DEF Start, Inv, TypeOK
  <1>5. mapNodeIsReg' \in [Nodes -> BOOLEAN] /\ nodeInfo' \subseteq Nodes
    <2>1. CASE x = Master
      <3>1. mapNodeIsReg' \in [Nodes -> BOOLEAN]
        BY <2>1 DEF Start, MasterOnStart, Inv, TypeOK
      <3>2. nodeInfo' \subseteq Nodes
        BY <2>1, MasterIsNode DEF Start, MasterOnStart, Inv, TypeOK
      <3> QED BY <3>1, <3>2
    <2>2. CASE x # Master
      BY <2>2 DEF Start, Inv, TypeOK
    <2> QED BY <2>1, <2>2
  <1> QED BY <1>2, <1>3, <1>4, <1>5 DEF Start, Inv, TypeOK

LEMMA CrashInv ==
  ASSUME Inv, NEW x \in Nodes, Crash(x)
  PROVE  Inv'
  <1>1. EmptyTable(x, Public[x]) \in Tables /\ TableSound(EmptyTable(x, Public[x]), x)
    BY EmptyTableSound, DiscoveryAssumption
  <1>2. tab' \in [Nodes -> Tables] /\ TablesSound'
    BY <1>1, OneTable DEF Crash
  <1>3. ClientsNumbered'
    <2>1. ASSUME NEW y \in Nodes, NEW n \in Nodes
          PROVE  tab'[y].rpc[n].seq <= clientSeq'[y]
      <3>1. CASE y = x
        <4>1. tab'[y].rpc[n] = NoClient /\ clientSeq'[y] = 0
          BY <3>1 DEF Crash, EmptyTable, Inv, TypeOK
        <4> QED BY <4>1 DEF NoClient
      <3>2. CASE y # x
        <4>1. tab'[y] = tab[y] /\ clientSeq'[y] = clientSeq[y]
          BY <3>2 DEF Crash, Inv, TypeOK
        <4> QED BY <4>1 DEF Inv, ClientsNumbered
      <3> QED BY <3>1, <3>2
    <2> QED BY <2>1 DEF ClientsNumbered
  <1>4. /\ clientSeq' \in [Nodes -> 0..MaxClients]
        /\ zombies' \in [Nodes -> SUBSET [node : Nodes, seq : 1..MaxClients]]
        /\ mapDiscovery' \in [Nodes -> SUBSET Nodes]
    BY DiscoveryAssumption DEF Crash, Inv, TypeOK
  <1>5. clientQ' \in [Nodes -> Seq(Messages)]
    BY DEF Crash, Inv, TypeOK
  <1>6. up' \in [Nodes -> BOOLEAN]
    BY DEF Crash, Inv, TypeOK
  <1>7. crashes' \in 0..MaxCrashes
    BY DiscoveryAssumption DEF Crash, Inv, TypeOK
  <1>8. masterQ' \in Seq(Messages) /\ mapNodeIsReg' \in [Nodes -> BOOLEAN] /\ nodeInfo' \subseteq Nodes
    <2>1. CASE x = Master
      <3>1. masterQ' = <<>> /\ mapNodeIsReg' = [n \in Nodes |-> FALSE] /\ nodeInfo' = {}
        BY <2>1 DEF Crash
      <3>2. [n \in Nodes |-> FALSE] \in [Nodes -> BOOLEAN]
        OBVIOUS
      <3>3. <<>> \in Seq(Messages) /\ {} \subseteq Nodes
        OBVIOUS
      <3> QED BY <3>1, <3>2, <3>3
    <2>2. CASE x # Master
      BY <2>2 DEF Crash, masterVars, Inv, TypeOK
    <2> QED BY <2>1, <2>2
  <1> QED BY <1>2, <1>3, <1>4, <1>5, <1>6, <1>7, <1>8 DEF Crash, Inv, TypeOK

LEMMA SubServiceDiscoverType ==
  ASSUME Inv, NEW N, NEW m \in Messages, SubServiceDiscover(N, m)
  PROVE  clientQ' \in [Nodes -> Seq(Messages)]
  <1>1. \A n \in Nodes : clientQ[n] \in Seq(Messages) /\ Append(clientQ[n], m) \in Seq(Messages)
    BY DEF Inv, TypeOK
  <1> QED BY <1>1 DEF SubServiceDiscover

\* What the handlers of the master service establish.
MasterPart ==
    /\ tab' \in [Nodes -> Tables] /\ TablesSound' /\ ClientsNumbered'
    /\ clientSeq' \in [Nodes -> 0..MaxClients]
    /\ zombies' \in [Nodes -> SUBSET [node : Nodes, seq : 1..MaxClients]]
    /\ clientQ' \in [Nodes -> Seq(Messages)]
    /\ mapNodeIsReg' \in [Nodes -> BOOLEAN]
    /\ nodeInfo' \subseteq Nodes

LEMMA MasterQuiet ==
  ASSUME Inv, UNCHANGED <<tab, clientSeq, zombies, mapNodeIsReg, nodeInfo>>,
         clientQ' \in [Nodes -> Seq(Messages)]
  PROVE  MasterPart
  BY DEF MasterPart, Inv, TypeOK, TablesSound, ClientsNumbered

LEMMA MasterOnNodeConnectedInv ==
  ASSUME Inv, NEW n \in Nodes, MasterOnNodeConnected(n)
  PROVE  MasterPart
  <1>1. clientQ' \in [Nodes -> Seq(Messages)]
    <2>1. CASE mapNodeIsReg[n]
      <3>1. SubServiceDiscover({n}, SubReq(TRUE, nodeInfo, None))
        BY <2>1 DEF MasterOnNodeConnected
      <3>2. SubReq(TRUE, nodeInfo, None) \in Messages
        BY EventTypes DEF Inv, TypeOK
      <3> QED BY <3>1, <3>2, SubServiceDiscoverType
    <2>2. CASE ~mapNodeIsReg[n]
      BY <2>2 DEF MasterOnNodeConnected, Inv, TypeOK
    <2> QED BY <2>1, <2>2
  <1> QED BY <1>1, MasterQuiet DEF MasterOnNodeConnected

LEMMA MasterOnNodeDisconnectInv ==
  ASSUME Inv, NEW n \in Nodes, MasterOnNodeDisconnect(n)
  PROVE  MasterPart
  <1>1. CASE mapNodeIsReg[n]
    <2>1. /\ RpcBroadCastGo(SubReq(FALSE, {}, n))
          /\ mapNodeIsReg' = [mapNodeIsReg EXCEPT ![n] = FALSE]
          /\ nodeInfo' = nodeInfo \ {n}
          /\ ChangeTable(Master, {n}, TRUE, {}, Infos)
      BY <1>1 DEF MasterOnNodeDisconnect
    <2>2. SubReq(FALSE, {}, n) \in Messages
      BY EventTypes
    <2>3. clientQ' \in [Nodes -> Seq(Messages)]
      BY <2>1, <2>2, SubServiceDiscoverType DEF RpcBroadCastGo
    <2>4. mapNodeIsReg' \in [Nodes -> BOOLEAN]
      BY <2>1 DEF Inv, TypeOK
    <2>5. nodeInfo' \subseteq Nodes
      BY <2>1 DEF Inv, TypeOK
    <2> QED BY <2>1, <2>3, <2>4, <2>5, ChangeTableInv, InfosType, MasterIsNode DEF MasterPart
  <1>2. CASE ~mapNodeIsReg[n]
    <2>1. UNCHANGED <<clientQ, tab, clientSeq, zombies, mapNodeIsReg, nodeInfo>>
      BY <1>2 DEF MasterOnNodeDisconnect
    <2> QED BY <2>1, MasterQuiet DEF Inv, TypeOK
  <1> QED BY <1>1, <1>2

LEMMA RegServiceDiscoverInv ==
  ASSUME Inv, NEW n \in Nodes, RPC_RegServiceDiscover(n)
  PROVE  MasterPart
  <1>1. SubReq(FALSE, {n}, None) \in Messages
    BY EventTypes
  <1>2. clientQ' \in [Nodes -> Seq(Messages)]
    BY <1>1, SubServiceDiscoverType DEF RPC_RegServiceDiscover, RpcBroadCastGo
  <1>3. mapNodeIsReg' \in [Nodes -> BOOLEAN]
    BY DEF RPC_RegServiceDiscover, Inv, TypeOK
  <1>4. nodeInfo' \subseteq Nodes
    BY DEF RPC_RegServiceDiscover, Inv, TypeOK
  <1>5. ChangeTable(Master, {n}, TRUE, {n}, Infos)
    BY DEF RPC_RegServiceDiscover
  <1> QED BY <1>2, <1>3, <1>4, <1>5, ChangeTableInv, InfosType, MasterIsNode DEF MasterPart

LEMMA MasterHandlesInv ==
  ASSUME Inv, MasterHandles
  PROVE  Inv'
  <1> DEFINE ev == Head(masterQ)
  <1>1. ev \in Messages /\ Tail(masterQ) \in Seq(Messages)
    BY DEF MasterHandles, Inv, TypeOK
  <1>2. MasterPart
    <2>1. CASE ev.type = "connect" /\ MasterOnNodeConnected(ev.node)
      BY <1>1, <2>1, NodeMessage, MasterOnNodeConnectedInv
    <2>2. CASE ev.type = "disconnect" /\ MasterOnNodeDisconnect(ev.node)
      BY <1>1, <2>2, NodeMessage, MasterOnNodeDisconnectInv
    <2>3. CASE ev.type = "reg" /\ RPC_RegServiceDiscover(ev.node)
      BY <1>1, <2>3, NodeMessage, RegServiceDiscoverInv
    <2> QED BY <2>1, <2>2, <2>3 DEF MasterHandles
  <1> QED BY <1>1, <1>2 DEF MasterHandles, MasterPart, linkVars, Inv, TypeOK

\* What the handlers of a node's discovery client service establish.
ClientPart ==
    /\ tab' \in [Nodes -> Tables] /\ TablesSound' /\ ClientsNumbered'
    /\ clientSeq' \in [Nodes -> 0..MaxClients]
    /\ zombies' \in [Nodes -> SUBSET [node : Nodes, seq : 1..MaxClients]]
    /\ masterQ' \in Seq(Messages)
    /\ mapDiscovery' \in [Nodes -> SUBSET Nodes]

LEMMA ClientOnNodeConnectedInv ==
  ASSUME Inv, NEW x \in Nodes, NEW n \in Nodes, ClientOnNodeConnected(x, n)
  PROVE  ClientPart
  <1>1. Append(masterQ, RegReq(x)) \in Seq(Messages)
    BY EventTypes DEF Inv, TypeOK
  <1>2. masterQ' \in Seq(Messages)
    BY <1>1 DEF ClientOnNodeConnected, Inv, TypeOK
  <1> QED BY <1>2 DEF ClientOnNodeConnected, ClientPart, Inv, TypeOK, TablesSound, ClientsNumbered

LEMMA ClientOnNodeDisconnectInv ==
  ASSUME Inv, NEW x \in Nodes, NEW n \in Nodes, ClientOnNodeDisconnect(x, n)
  PROVE  ClientPart
  <1> DEFINE t == DiscardNode(tab[x], x, n)
  <1>1. tab[x] \in Tables /\ TableSound(tab[x], x)
    BY DEF Inv, TypeOK, TablesSound
  <1>2. t \in Tables /\ TableSound(t, x)
    BY <1>1, DiscardNodeSound
  <1>3. tab' \in [Nodes -> Tables] /\ TablesSound'
    BY <1>2, OneTable DEF ClientOnNodeDisconnect
  <1>4. ASSUME NEW y \in Nodes, NEW m \in Nodes
        PROVE  tab'[y].rpc[m].seq <= clientSeq[y]
    <2>1. tab'[y].rpc[m] = tab[y].rpc[m] \/ tab'[y].rpc[m] = NoClient
      <3>1. t.rpc[m] = tab[x].rpc[m] \/ t.rpc[m] = NoClient
        BY DEF DiscardNode, serviceDiscoveryDelNodeInfo
      <3>2. tab'[y] = IF y = x THEN t ELSE tab[y]
        BY DEF ClientOnNodeDisconnect, Inv, TypeOK
      <3> HIDE DEF t
      <3> QED BY <3>1, <3>2
    <2>2. clientSeq[y] \in Nat
      BY DEF Inv, TypeOK
    <2> QED BY <2>1, <2>2 DEF Inv, ClientsNumbered, NoClient
  <1>5. ClientsNumbered'
    BY <1>4 DEF ClientOnNodeDisconnect, ClientsNumbered
  <1> QED BY <1>3, <1>5 DEF ClientOnNodeDisconnect, ClientPart, Inv, TypeOK

LEMMA SubServiceDiscoverInv ==
  ASSUME Inv, NEW x \in Nodes, NEW m \in Messages, m.type = "sub", RPC_SubServiceDiscover(x, m)
  PROVE  ClientPart
  <1> DEFINE named == {n \in m.infos : n # x /\ (x \in Masters \/ Public[n] # {DC})}
             willDel == (IF m.full THEN mapDiscovery[x] \ named ELSE {})
                        \cup (IF m.del # None /\ m.del # x THEN {m.del} ELSE {})
             N == {n \in named : Wanted(x, n) # {}}
  <1>1. /\ ChangeTable(x, willDel, FALSE, N, WantedInfos(x))
        /\ mapDiscovery' = [mapDiscovery EXCEPT ![x] = (mapDiscovery[x] \ willDel) \cup named]
        /\ masterQ' = masterQ
    BY DEF RPC_SubServiceDiscover
  <1>2. named \in SUBSET Nodes /\ N \in SUBSET Nodes
    BY SubMessage
  <1>3. willDel \in SUBSET Nodes
    BY SubMessage DEF Inv, TypeOK
  <1>4. mapDiscovery' \in [Nodes -> SUBSET Nodes]
    BY <1>1, <1>2 DEF Inv, TypeOK
  <1> HIDE DEF named, willDel, N
  <1> QED BY <1>1, <1>2, <1>3, <1>4, ChangeTableInv, InfosType DEF ClientPart, Inv, TypeOK

LEMMA ClientHandlesInv ==
  ASSUME Inv, NEW x \in Nodes, ClientHandles(x)
  PROVE  Inv'
  <1> DEFINE ev == Head(clientQ[x])
  <1>1. ev \in Messages /\ Tail(clientQ[x]) \in Seq(Messages)
    BY DEF ClientHandles, Inv, TypeOK
  <1>2. ClientPart
    <2>1. CASE ev.type = "connect" /\ ClientOnNodeConnected(x, ev.node)
      BY <1>1, <2>1, NodeMessage, ClientOnNodeConnectedInv
    <2>2. CASE ev.type = "disconnect" /\ ClientOnNodeDisconnect(x, ev.node)
      BY <1>1, <2>2, NodeMessage, ClientOnNodeDisconnectInv
    <2>3. CASE ev.type = "sub" /\ RPC_SubServiceDiscover(x, ev)
      BY <1>1, <2>3, SubServiceDiscoverInv
    <2> QED BY <2>1, <2>2, <2>3 DEF ClientHandles
  <1>3. clientQ' = [clientQ EXCEPT ![x] = Tail(clientQ[x])]
    BY DEF ClientHandles
  <1>4. clientQ' \in [Nodes -> Seq(Messages)]
    BY <1>1, <1>3 DEF Inv, TypeOK
  <1> QED BY <1>2, <1>4 DEF ClientHandles, ClientPart, linkVars, Inv, TypeOK

-----------------------------------------------------------------------------
LEMMA InvInit == Init => Inv
  <1> SUFFICES ASSUME Init PROVE Inv
    OBVIOUS
  <1>1. \A x \in Nodes : EmptyTable(x, Public[x]) \in Tables /\ TableSound(EmptyTable(x, Public[x]), x)
    BY EmptyTableSound, DiscoveryAssumption
  <1>2. tab \in [Nodes -> Tables] /\ TablesSound
    BY <1>1 DEF Init, TablesSound
  <1>3. ClientsNumbered
    <2> SUFFICES ASSUME NEW x \in Nodes, NEW n \in Nodes
                 PROVE  tab[x].rpc[n].seq <= clientSeq[x]
      BY DEF ClientsNumbered
    <2>1. tab[x] = EmptyTable(x, Public[x]) /\ clientSeq[x] = 0
      BY DEF Init
    <2>2. tab[x].rpc = [m \in Nodes |-> NoClient]
      BY <2>1 DEF EmptyTable
    <2>3. tab[x].rpc[n] = NoClient
      BY <2>2
    <2>4. NoClient.seq = 0
      BY DEF NoClient
    <2> QED BY <2>1, <2>3, <2>4
  <1>4. life \in [Nodes -> Nat] /\ clientSeq \in [Nodes -> 0..MaxClients]
    BY DiscoveryAssumption DEF Init
  <1>5. breaks \in 0..MaxBreaks /\ crashes \in 0..MaxCrashes
    BY DiscoveryAssumption DEF Init
  <1>6. up \in [Nodes -> BOOLEAN] /\ mapNodeIsReg \in [Nodes -> BOOLEAN]
    BY DEF Init
  <1>7. /\ zombies \in [Nodes -> SUBSET [node : Nodes, seq : 1..MaxClients]]
        /\ mapDiscovery \in [Nodes -> SUBSET Nodes]
        /\ nodeInfo \subseteq Nodes
    BY DEF Init
  <1>8. masterQ \in Seq(Messages) /\ clientQ \in [Nodes -> Seq(Messages)]
    BY DEF Init
  <1> QED BY <1>2, <1>3, <1>4, <1>5, <1>6, <1>7, <1>8 DEF Inv, TypeOK

LEMMA InvStep ==
  ASSUME Inv, [Next]_vars
  PROVE  Inv'
  <1>1. CASE UNCHANGED vars
    <2>1. TypeOK'
      BY <1>1 DEF vars, Inv, TypeOK
    <2>2. ClientsNumbered' /\ TablesSound'
      BY <1>1 DEF vars, Inv, ClientsNumbered, TablesSound
    <2> QED BY <2>1, <2>2 DEF Inv
  <1>2. CASE MasterHandles
    BY <1>2, MasterHandlesInv
  <1>3. CASE \E x \in Nodes : NodeNext(x)
    <2>1. PICK x \in Nodes : NodeNext(x)
      BY <1>3
    <2>2. CASE Start(x) \/ Crash(x) \/ ClientHandles(x)
      BY <2>2, StartInv, CrashInv, ClientHandlesInv
    <2>3. CASE \E z \in zombies[x] : ZombieEnds(x, z)
      BY <2>3, ZombieEndsInv
    <2>4. CASE \E n \in Nodes : Dial(x, n) \/ GiveUp(x, n)
      BY <2>4, DialInv, GiveUpInv
    <2>5. CASE \E n \in Nodes : LinkNoticesCrash(x, n)
      <3>1. PICK n \in Nodes : LinkEnds(x, n) /\ breaks' = breaks
        BY <2>5 DEF LinkNoticesCrash
      <3> QED BY <3>1, LinkEndsInv DEF Inv, TypeOK
    <2>6. CASE \E n \in Nodes : LinkBreaks(x, n)
      <3>1. PICK n \in Nodes : LinkEnds(x, n) /\ breaks < MaxBreaks /\ breaks' = breaks + 1
        BY <2>6 DEF LinkBreaks
      <3>2. breaks' \in 0..MaxBreaks
        BY <3>1, DiscoveryAssumption DEF Inv, TypeOK
      <3> QED BY <3>1, <3>2, LinkEndsInv
    <2> QED BY <2>1, <2>2, <2>3, <2>4, <2>5, <2>6 DEF NodeNext
  <1> QED BY <1>1, <1>2, <1>3 DEF Next

\* Every variable of every node keeps its type; in particular no node hands out a
\* client without a number, which is what triggerNodeConnectEvent tells the client
\* in the table from one that was replaced by.
THEOREM TypeCorrect == Spec => []TypeOK
  <1>1. Init => Inv
    BY InvInit
  <1>2. Inv /\ [Next]_vars => Inv'
    BY InvStep
  <1>3. Inv => TypeOK
    BY DEF Inv
  <1> QED BY <1>1, <1>2, <1>3, PTL DEF Spec

\* On every node, whatever is registered, announced, withdrawn, broken or crashed
\* and in whatever order it is handled, a route leads to a node whose entry offers
\* the service and which has a client.
THEOREM TablesStaySound == Spec => []TablesSound
  <1>1. Init => Inv
    BY InvInit
  <1>2. Inv /\ [Next]_vars => Inv'
    BY InvStep
  <1>3. Inv => TablesSound
    BY DEF Inv
  <1> QED BY <1>1, <1>2, <1>3, PTL DEF Spec

-----------------------------------------------------------------------------
(* What is announced is routed *)

\* No entry is marked: serviceDiscoveryDelNodeInfo marks a copy, so DiscardNode,
\* which a lost connection calls, never takes a node out of a table.
Unmarked(info) == info.status = "Normal"

NoMarks == \A x, n \in Nodes : tab[x].id[n] # None => Unmarked(tab[x].id[n])

\* A process that does not run has been announced nothing, so that a start, which
\* enters the master with no services, overwrites nothing it was announced.
DownKnowsNothing == \A x \in Nodes : ~up[x] => mapDiscovery[x] = {}

RouteInv == NoMarks /\ DownKnowsNothing /\ AnnouncedIsRouted

\* What a change of its table leaves node x with: an entry is an old one or the one
\* entered, the nodes entered are routed as their entries say, and those neither
\* removed nor entered keep their routes.
LEMMA ChangeTableRoutes ==
  ASSUME Inv, NEW x \in Nodes, NEW D \in SUBSET Nodes, NEW immediately \in BOOLEAN,
         NEW N \in SUBSET Nodes, NEW info \in [Nodes -> NodeInfos],
         ChangeTable(x, D, immediately, N, info)
  PROVE  /\ \A y \in Nodes \ {x} : tab'[y] = tab[y]
         /\ \A n \in Nodes : tab'[x].id[n] \in {None, tab[x].id[n], info[n]}
         /\ \A s \in Services, n \in N \ {x} :
                s \in info[n].PublicServiceList => n \in tab'[x].svc[s]
         /\ \A s \in Services, n \in Nodes \ (D \cup N) :
                n \in tab[x].svc[s] => n \in tab'[x].svc[s]
  <1> DEFINE gone == Removed(tab[x], x, D, immediately)
             less == serviceDiscoveryDelNodeInfo(tab[x], x, D, immediately)
             seq == clientSeq[x] + 1
             r == serviceDiscoverySetNodeInfo(less, x, N, info, seq)
  <1>1. tab' = [tab EXCEPT ![x] = r]
    BY DEF ChangeTable
  <1>2. tab'[x] = r /\ \A y \in Nodes \ {x} : tab'[y] = tab[y]
    BY <1>1 DEF Inv, TypeOK
  <1>3. /\ less.id = [n \in Nodes |-> IF n \in gone THEN None ELSE tab[x].id[n]]
        /\ less.svc = delServiceNode(tab[x], gone)
    BY DEF serviceDiscoveryDelNodeInfo
  <1>4. /\ r.id = [n \in Nodes |-> IF n \in N \ {x} THEN info[n] ELSE less.id[n]]
        /\ r.svc = [s \in Services |-> delServiceNode(less, N \ {x})[s]
                                         \cup {n \in N \ {x} : s \in info[n].PublicServiceList}]
    BY DEF serviceDiscoverySetNodeInfo
  <1>5. gone \subseteq D
    BY DEF Removed
  <1> HIDE DEF gone, less, r, seq
  <1>6. ASSUME NEW n \in Nodes
        PROVE  r.id[n] \in {None, tab[x].id[n], info[n]}
    BY <1>3, <1>4
  <1>7. ASSUME NEW s \in Services, NEW n \in N \ {x}, s \in info[n].PublicServiceList
        PROVE  n \in r.svc[s]
    BY <1>4, <1>7
  <1>8. ASSUME NEW s \in Services, NEW n \in Nodes \ (D \cup N), n \in tab[x].svc[s]
        PROVE  n \in r.svc[s]
    <2>1. n \in less.svc[s]
      BY <1>3, <1>5, <1>8 DEF delServiceNode
    <2>2. n \in delServiceNode(less, N \ {x})[s]
      BY <2>1 DEF delServiceNode
    <2> QED BY <1>4, <2>2
  <1> QED BY <1>2, <1>6, <1>7, <1>8

LEMMA InfosUnmarked ==
  /\ \A n \in Nodes : Unmarked(Infos[n])
  /\ \A n \in Nodes : Unmarked([m \in Nodes |-> MasterCfg][n])
  /\ \A x, n \in Nodes : /\ Unmarked(WantedInfos(x)[n])
                         /\ WantedInfos(x)[n].PublicServiceList = Wanted(x, n)
  BY DEF Unmarked, Infos, InfoOf, MasterCfg, WantedInfos

\* A change of a table marks no entry.
LEMMA ChangeTableUnmarked ==
  ASSUME NoMarks, NEW x \in Nodes, NEW info, \A n \in Nodes : Unmarked(info[n]),
         \A y \in Nodes \ {x} : tab'[y] = tab[y],
         \A n \in Nodes : tab'[x].id[n] \in {None, tab[x].id[n], info[n]}
  PROVE  NoMarks'
  <1>1. ASSUME NEW y \in Nodes, NEW n \in Nodes, tab'[y].id[n] # None
        PROVE  Unmarked(tab'[y].id[n])
    <2>1. CASE y # x
      BY <1>1, <2>1 DEF NoMarks
    <2>2. CASE y = x
      BY <1>1, <2>2 DEF NoMarks
    <2> QED BY <2>1, <2>2
  <1> QED BY <1>1 DEF NoMarks

\* A step that leaves every entry and every route alone, and announces nothing.
LEMMA SameRoutes ==
  ASSUME RouteInv, mapDiscovery' = mapDiscovery,
         \A x \in Nodes : up[x] => up'[x],
         \A x \in Nodes : tab'[x].id = tab[x].id /\ tab'[x].svc = tab[x].svc
  PROVE  RouteInv'
  <1>1. NoMarks'
    BY DEF RouteInv, NoMarks
  <1>2. DownKnowsNothing'
    BY DEF RouteInv, DownKnowsNothing
  <1>3. AnnouncedIsRouted'
    BY DEF RouteInv, AnnouncedIsRouted, Knows, RouteTo
  <1> QED BY <1>1, <1>2, <1>3 DEF RouteInv

\* A step of the client of one connection.
LEMMA LinkRoutes ==
  ASSUME Inv, RouteInv, NEW x \in Nodes, NEW n \in Nodes,
         Dial(x, n) \/ GiveUp(x, n) \/ LinkEnds(x, n)
  PROVE  RouteInv'
  <1>1. ASSUME NEW y \in Nodes
        PROVE  tab'[y].id = tab[y].id /\ tab'[y].svc = tab[y].svc
    <2>1. tab \in [Nodes -> Tables]
      BY DEF Inv, TypeOK
    <2>2. CASE Dial(x, n)
      BY <2>1, <2>2 DEF Dial, Tables
    <2>3. CASE GiveUp(x, n)
      BY <2>1, <2>3 DEF GiveUp, Tables
    <2>4. CASE LinkEnds(x, n)
      BY <2>1, <2>4 DEF LinkEnds, Tables
    <2> QED BY <2>2, <2>3, <2>4
  <1>2. up' = up /\ mapDiscovery' = mapDiscovery
    BY DEF Dial, GiveUp, LinkEnds, linkVars
  <1> QED BY <1>1, <1>2, SameRoutes

LEMMA StartRoutes ==
  ASSUME Inv, RouteInv, NEW x \in Nodes, Start(x)
  PROVE  RouteInv'
  <1>1. ChangeTable(x, {}, TRUE, {Master}, [n \in Nodes |-> MasterCfg])
    BY DEF Start, addDiscoveryMaster
  <1>2. NoMarks'
    <2> DEFINE info == [n \in Nodes |-> MasterCfg]
               D == {}
               N == {Master}
    <2>1. /\ D \in SUBSET Nodes /\ N \in SUBSET Nodes /\ info \in [Nodes -> NodeInfos]
          /\ ChangeTable(x, D, TRUE, N, info)
      BY <1>1, InfosType, MasterIsNode
    <2>2. /\ \A y \in Nodes \ {x} : tab'[y] = tab[y]
          /\ \A n \in Nodes : tab'[x].id[n] \in {None, tab[x].id[n], info[n]}
      <3> HIDE DEF info, D, N
      <3> QED BY <2>1, ChangeTableRoutes
    <2>3. \A n \in Nodes : Unmarked(info[n])
      BY InfosUnmarked
    <2> HIDE DEF info
    <2> QED BY <2>2, <2>3, ChangeTableUnmarked DEF RouteInv
  <1>3. mapDiscovery' = mapDiscovery /\ mapDiscovery[x] = {}
    BY DEF Start, RouteInv, DownKnowsNothing
  <1>4. \A y \in Nodes : up'[y] = (IF y = x THEN TRUE ELSE up[y])
    BY DEF Start, Inv, TypeOK
  <1>5. DownKnowsNothing'
    BY <1>3, <1>4 DEF RouteInv, DownKnowsNothing
  <1>6. \A y \in Nodes \ {x} : tab'[y] = tab[y]
    BY <1>1, ChangeTableRoutes, InfosType, MasterIsNode
  <1>7. AnnouncedIsRouted'
    BY <1>3, <1>6 DEF RouteInv, AnnouncedIsRouted, Knows
  <1> QED BY <1>2, <1>5, <1>7 DEF RouteInv

LEMMA CrashRoutes ==
  ASSUME Inv, RouteInv, NEW x \in Nodes, Crash(x)
  PROVE  RouteInv'
  <1>1. \A y \in Nodes : y # x => tab'[y] = tab[y] /\ mapDiscovery'[y] = mapDiscovery[y]
                                                    /\ up'[y] = up[y]
    BY DEF Crash, Inv, TypeOK
  <1>2. tab'[x].id = [n \in Nodes |-> None] /\ mapDiscovery'[x] = {}
    BY DEF Crash, Inv, TypeOK, EmptyTable
  <1>3. NoMarks'
    BY <1>1, <1>2 DEF RouteInv, NoMarks
  <1>4. DownKnowsNothing'
    BY <1>1, <1>2 DEF RouteInv, DownKnowsNothing
  <1>5. AnnouncedIsRouted'
    BY <1>1, <1>2 DEF RouteInv, AnnouncedIsRouted, Knows
  <1> QED BY <1>3, <1>4, <1>5 DEF RouteInv

\* The master service changes the table of its own node only.
LEMMA MasterHandlesRoutes ==
  ASSUME Inv, RouteInv, MasterHandles
  PROVE  RouteInv'
  <1> DEFINE ev == Head(masterQ)
  <1>1. ev \in Messages
    BY DEF MasterHandles, Inv, TypeOK
  <1>2. up' = up /\ mapDiscovery' = mapDiscovery
    BY DEF MasterHandles, linkVars
  <1>3. CASE tab' = tab
    BY <1>2, <1>3, SameRoutes
  <1>4. ASSUME NEW n \in Nodes, NEW N \in SUBSET Nodes, ChangeTable(Master, {n}, TRUE, N, Infos)
        PROVE  RouteInv'
    <2>1. NoMarks'
      <3>1. /\ \A y \in Nodes \ {Master} : tab'[y] = tab[y]
            /\ \A m \in Nodes : tab'[Master].id[m] \in {None, tab[Master].id[m], Infos[m]}
        <4> DEFINE D == {n}
        <4>1. D \in SUBSET Nodes /\ ChangeTable(Master, D, TRUE, N, Infos)
          BY <1>4
        <4> HIDE DEF D
        <4> QED BY <4>1, ChangeTableRoutes, InfosType, MasterIsNode
      <3> QED BY <3>1, ChangeTableUnmarked, InfosUnmarked, MasterIsNode DEF RouteInv
    <2>2. \A y \in Nodes \ {Master} : tab'[y] = tab[y]
      BY <1>4, ChangeTableRoutes, InfosType, MasterIsNode
    <2>3. DownKnowsNothing' /\ AnnouncedIsRouted'
      BY <1>2, <2>2 DEF RouteInv, DownKnowsNothing, AnnouncedIsRouted, Knows
    <2> QED BY <2>1, <2>3 DEF RouteInv
  <1>5. CASE ev.type = "connect" /\ MasterOnNodeConnected(ev.node)
    BY <1>3, <1>5 DEF MasterOnNodeConnected
  <1>6. CASE ev.type = "disconnect" /\ MasterOnNodeDisconnect(ev.node)
    <2>1. ev.node \in Nodes
      BY <1>1, <1>6, NodeMessage
    <2>2. tab' = tab \/ ChangeTable(Master, {ev.node}, TRUE, {}, Infos)
      BY <1>6 DEF MasterOnNodeDisconnect
    <2>3. {} \in SUBSET Nodes
      OBVIOUS
    <2> HIDE DEF ev
    <2> QED BY <1>3, <1>4, <2>1, <2>2, <2>3
  <1>7. CASE ev.type = "reg" /\ RPC_RegServiceDiscover(ev.node)
    <2>1. ev.node \in Nodes
      BY <1>1, <1>7, NodeMessage
    <2>2. ChangeTable(Master, {ev.node}, TRUE, {ev.node}, Infos)
      BY <1>7 DEF RPC_RegServiceDiscover
    <2> QED BY <1>4, <2>1, <2>2
  <1> QED BY <1>5, <1>6, <1>7 DEF MasterHandles

\* An announcement: what it removes from mapDiscovery is all it removes from the
\* table, and what it adds is entered with the services node x wants.
LEMMA SubServiceDiscoverRoutes ==
  ASSUME Inv, RouteInv, NEW x \in Nodes, up[x], up' = up,
         NEW m \in Messages, m.type = "sub", RPC_SubServiceDiscover(x, m)
  PROVE  RouteInv'
  <1> DEFINE named == {n \in m.infos : n # x /\ (x \in Masters \/ Public[n] # {DC})}
             willDel == (IF m.full THEN mapDiscovery[x] \ named ELSE {})
                        \cup (IF m.del # None /\ m.del # x THEN {m.del} ELSE {})
             N == {n \in named : Wanted(x, n) # {}}
             info == WantedInfos(x)
  <1>1. /\ ChangeTable(x, willDel, FALSE, N, info)
        /\ mapDiscovery' = [mapDiscovery EXCEPT ![x] = (mapDiscovery[x] \ willDel) \cup named]
    BY DEF RPC_SubServiceDiscover
  <1>2. named \in SUBSET Nodes /\ N \in SUBSET Nodes /\ x \notin named
    BY SubMessage
  <1>3. willDel \in SUBSET Nodes
    BY SubMessage DEF Inv, TypeOK
  <1>4. N \subseteq named /\ \A n \in named \ N : Wanted(x, n) = {}
    OBVIOUS
  <1>5. info \in [Nodes -> NodeInfos]
    BY InfosType
  <1>6. \A n \in Nodes : Unmarked(info[n]) /\ info[n].PublicServiceList = Wanted(x, n)
    BY InfosUnmarked
  <1>7. \A n \in Nodes : Wanted(x, n) \subseteq Services
    BY DiscoveryAssumption DEF Wanted
  <1> HIDE DEF named, willDel, N, info
  <1>8. NoMarks'
    <2>1. /\ \A y \in Nodes \ {x} : tab'[y] = tab[y]
          /\ \A n \in Nodes : tab'[x].id[n] \in {None, tab[x].id[n], info[n]}
      BY <1>1, <1>2, <1>3, <1>5, ChangeTableRoutes
    <2> QED BY <1>6, <2>1, ChangeTableUnmarked DEF RouteInv
  <1>9. /\ mapDiscovery'[x] = (mapDiscovery[x] \ willDel) \cup named
        /\ \A y \in Nodes \ {x} : mapDiscovery'[y] = mapDiscovery[y]
    BY <1>1 DEF Inv, TypeOK
  <1>10. DownKnowsNothing'
    BY <1>9 DEF RouteInv, DownKnowsNothing
  <1>11. /\ \A y \in Nodes \ {x} : tab'[y] = tab[y]
         /\ \A s \in Services, n \in N \ {x} :
                s \in info[n].PublicServiceList => n \in tab'[x].svc[s]
         /\ \A s \in Services, n \in Nodes \ (willDel \cup N) :
                n \in tab[x].svc[s] => n \in tab'[x].svc[s]
    BY <1>1, <1>2, <1>3, <1>5, ChangeTableRoutes
  <1>12. ASSUME NEW n \in mapDiscovery'[x], x # Master, NEW s \in Wanted(x, n)
         PROVE  n \in tab'[x].svc[s]
    <2>1. n \in Nodes /\ mapDiscovery[x] \subseteq Nodes
      BY <1>2, <1>9 DEF Inv, TypeOK
    <2>2. s \in Services
      BY <1>7, <2>1
    <2>3. CASE n \in named
      BY <1>2, <1>4, <1>6, <1>11, <2>1, <2>2, <2>3
    <2>4. CASE n \notin named
      <3>1. n \in mapDiscovery[x] \ willDel /\ n \notin N
        BY <1>4, <1>9, <2>4
      <3>2. n \in tab[x].svc[s]
        BY <1>12, <3>1 DEF RouteInv, AnnouncedIsRouted, Knows, RouteTo
      <3> QED BY <1>11, <2>1, <2>2, <3>1, <3>2
    <2> QED BY <2>3, <2>4
  <1>13. AnnouncedIsRouted'
    <2> SUFFICES ASSUME NEW y \in Nodes \ {Master}, NEW n \in mapDiscovery'[y],
                        NEW s \in Wanted(y, n)
                 PROVE  n \in tab'[y].svc[s]
      BY DEF AnnouncedIsRouted, Knows, RouteTo
    <2>1. CASE y = x
      BY <1>12, <2>1
    <2>2. CASE y # x
      BY <1>9, <1>11, <2>2 DEF RouteInv, AnnouncedIsRouted, Knows, RouteTo
    <2> QED BY <2>1, <2>2
  <1> QED BY <1>8, <1>10, <1>13 DEF RouteInv

LEMMA ClientHandlesRoutes ==
  ASSUME Inv, RouteInv, NEW x \in Nodes, ClientHandles(x)
  PROVE  RouteInv'
  <1> DEFINE ev == Head(clientQ[x])
  <1>1. ev \in Messages /\ up[x] /\ up' = up
    BY DEF ClientHandles, linkVars, Inv, TypeOK
  <1>2. CASE ev.type = "connect" /\ ClientOnNodeConnected(x, ev.node)
    BY <1>1, <1>2, SameRoutes DEF ClientOnNodeConnected
  <1>3. CASE ev.type = "disconnect" /\ ClientOnNodeDisconnect(x, ev.node)
    <2>1. PICK n \in Nodes : ClientOnNodeDisconnect(x, n)
      BY <1>1, <1>3, NodeMessage
    <2>2. DiscardNode(tab[x], x, n) = tab[x]
      BY DEF DiscardNode, RouteInv, NoMarks, Unmarked
    <2>3. tab' = [tab EXCEPT ![x] = tab[x]] /\ mapDiscovery' = mapDiscovery
      BY <2>1, <2>2 DEF ClientOnNodeDisconnect
    <2>4. \A y \in Nodes : tab'[y] = tab[y]
      BY <2>3 DEF Inv, TypeOK
    <2> QED BY <1>1, <2>3, <2>4, SameRoutes
  <1>4. CASE ev.type = "sub" /\ RPC_SubServiceDiscover(x, ev)
    BY <1>1, <1>4, SubServiceDiscoverRoutes
  <1> QED BY <1>2, <1>3, <1>4 DEF ClientHandles

LEMMA RouteInvInit == Init => RouteInv
  <1> SUFFICES ASSUME Init PROVE RouteInv
    OBVIOUS
  <1>1. NoMarks
    BY DEF Init, NoMarks, EmptyTable
  <1>2. DownKnowsNothing /\ AnnouncedIsRouted
    BY DEF Init, DownKnowsNothing, AnnouncedIsRouted
  <1> QED BY <1>1, <1>2 DEF RouteInv

LEMMA RouteInvStep ==
  ASSUME Inv, RouteInv, [Next]_vars
  PROVE  RouteInv'
  <1>1. CASE UNCHANGED vars
    BY <1>1, SameRoutes DEF vars
  <1>2. CASE MasterHandles
    BY <1>2, MasterHandlesRoutes
  <1>3. CASE \E x \in Nodes : NodeNext(x)
    <2>1. PICK x \in Nodes : NodeNext(x)
      BY <1>3
    <2>2. CASE Start(x) \/ Crash(x) \/ ClientHandles(x)
      BY <2>2, StartRoutes, CrashRoutes, ClientHandlesRoutes
    <2>3. CASE \E z \in zombies[x] : ZombieEnds(x, z)
      BY <2>3, SameRoutes DEF ZombieEnds, linkVars
    <2>4. CASE \E n \in Nodes : Dial(x, n) \/ GiveUp(x, n)
      BY <2>4, LinkRoutes
    <2>5. CASE \E n \in Nodes : LinkNoticesCrash(x, n) \/ LinkBreaks(x, n)
      BY <2>5, LinkRoutes DEF LinkNoticesCrash, LinkBreaks
    <2> QED BY <2>1, <2>2, <2>3, <2>4, <2>5 DEF NodeNext
  <1> QED BY <1>1, <1>2, <1>3 DEF Next

\* What the master has announced to a member and not withdrawn the member routes,
\* for any number of nodes, failures and restarts: neither a lost connection nor a
\* removal it was told of takes out a node that is still announced.
THEOREM AnnouncedStaysRouted == Spec => []AnnouncedIsRouted
  <1>1. Init => Inv /\ RouteInv
    BY InvInit, RouteInvInit
  <1>2. Inv /\ RouteInv /\ [Next]_vars => Inv' /\ RouteInv'
    BY InvStep, RouteInvStep
  <1>3. RouteInv => AnnouncedIsRouted
    BY DEF RouteInv
  <1> QED BY <1>1, <1>2, <1>3, PTL DEF Spec
=============================================================================
