# JRpcFrame: a TLA+ model of the framework's concurrent core

JRpcFrame is a distributed service framework in Go. A node runs services; each
service has one event queue; services call one another's methods, in the same
process or over TCP; a master node tells the others who offers what. This
directory holds the modules that model that core, the TLC configurations that
check them, and the TLAPS proofs of what holds for every value of the constants.

## 1. Inventory

### Remote calls, client side (`jrpc/rpcclient.go`, `jrpc/rpchandler.go`, `jrpc/rpc.go`)

* State: `pending` (sequence number to `Call`), `startSeq`, one timer per entry,
  `client.conn`; the `Call` objects, recycled through a pool; each service's
  `chanEvent`.
* Operations: `callRpc`, `goRpc`, `asyncCallRpc` and below them `RawGo`, `Go`,
  `AsyncCall`; `RpcClient.Run`, the reader; `handleRpcCallTimeout`; `RemovePending`;
  `HandlerRpcResponseCB`.
* Hard: the reader, the timer and the caller all reach for the same pooled object,
  partly without a lock; requests are dropped silently by a closing connection; the
  caller's queue may be full, when it is tested or only when the send comes, and the
  timer's send is made with the table locked; a callback may panic.
* Correct when: each call ends exactly once, with the outcome of its own request, and
  its `Call` goes back to the pool exactly once.

### Remote calls, server side (`jrpc/rpcserver.go`, `jrpc/rpchandler.go`)

* State: the pooled `RpcRequest` objects, the serving service's queue, Responders kept by
  methods.
* Operations: `RpcServerAgent.Run`, `PushRpcRequest`, `HandlerRpcRequest`,
  `WriteResponse`.
* Hard: replies in any order, after the connection is gone, twice, or never, through
  closures that read a pooled object when they run.
* Correct when: a request is answered at most once, on its own connection, under its
  own number, and success means the method ran.

### Calls inside a node (`jrpc/rpcserver.go`)

* State: as on the client side, and closures (`handleReply`) that hold the caller's
  `Call` and are run by the callee.
* Operations: `selfNodeRpcHandlerGo`, `selfNodeRpcHandlerAsyncGo`, the closures.
* Hard: a closure that runs after the timeout, or a second time, writes to an object
  that may belong to somebody else.
* Correct when: as on the client side.

### Cluster tables (`cluster/cluster.go`)

* State: `mapIdNode`, `mapServiceNode`, `mapRpc` (with the `RpcClient` of each node).
* Operations: `serviceDiscoverySetNodeInfo`, `serviceDiscoveryDelNodeInfo`,
  `delServiceNode`, `DiscardNode`, `triggerNodeConnectEvent`.
* Correct when: the three maps agree, so that a call routed to a node finds its entry
  and its client.

### Dynamic service discovery (`cluster/dynamicdiscovery.go`)

* State: the master's `mapNodeIsReg` and published list; each member's record of what
  it was told; queues of both services; connections.
* Operations: `RPC_RegServiceDiscover`, `RPC_SubServiceDiscover`, the connection event
  handlers of both services, dialling, crashing, restarting.
* Hard: announcements and connection events change the same tables from two services;
  connections are one-directional, so the end of an old one and the registration of a
  new life reach the master on different paths.
* Correct when: the tables stay consistent, announced nodes stay routed, and everybody
  ends up knowing what it asked for.

### TCP connection (`jnet/tcpconn.go`, `jnet/tcpmsgparser.go`, `memorypool/slicepool.go`)

* State: `writeChan`, `isClosed`, the socket, who holds each slice of the pool that all
  connections share, and the size class each slice is in.
* Operations: `WriteMsg`, `Write`, `Close`, `Destroy`, the writer goroutine and
  `freeChannel`; `ReadMsg`, `ReleaseReadMsg`; `MakeByteSlice`, `ReleaseByteSlice`.
* Hard: a slice changes hands between users, channel, writer, reader and pool, with
  an error path at every change; it is taken by size and given back by capacity.
* Correct when: nobody panics on a closed channel, a slice has one owner and the length
  asked for, messages leave in order, a graceful close flushes, and a closed connection
  ends.

### TCP server, client and connection manager (`jnet/tcpserver.go`, `tcpclient.go`, `connmanager.go`)

* State: the listener, `isClosed` of each side, the wait groups, `connMgr`, the dial
  counter.
* Operations: the accept loop, the agents, `TcpServer.Close`; `connect`, `dial`,
  `TcpClient.Close`; `Add`, `Remove`, `ClearConn`.
* Correct when: what is served is registered and within the limit, `Close` returns and
  leaves nothing behind, and a client that should end does.

### Timers (`jtimer/`)

* State: the wheels' slots and indices, the timers, the poller.
* Operations: `CreateTimerAfter`, `AddTimer`, `run` (turn and cascade),
  `GetTimerWithin`, periodic re-adding, `RomoveTimer`.
* Correct when: no timer is lost, repeated or much too late. Every RPC
  timeout rests on this.

### Services, events and modules (`service/`, `event/event.go`, `startNode` of `node/node.go`)

* State: each service's `chanEvent`, its goroutines and their count; the listeners of
  each publisher and the publishers each listener has a callback for; `child` and
  `descendants` of a service's modules; the node's `closeSig`.
* Operations: `pushEvent` and the three `Push...` above it; `Run` (take, dispatch, stop,
  `OnRelease`); `RegEventCb`, `UnRegEventCb`, `PublishEvent`, `BroadCastEvent`,
  `Destroy`; `AddModule`, `ReleaseModule`; the stop of the node.
* Hard: `pushEvent` tests a length and then sends, so it may block, in a handler, on the
  handler's own queue or with a publisher's lock held; registrations are kept at both
  ends; modules are kept in two maps that `ReleaseModule` does not always update
  together; several goroutines decide which of them is the last.
* Correct when: the two ends of a registration agree, a released module is out of
  `descendants` with its children and registrations, no module becomes unreachable, a service is released once and last, and
  the node stops.

### Other parts

The profiler is sequential bookkeeping for a report, off by default. Codecs, generated
protobuf code, configuration, the node's command line and the log are conversions and
sequential I/O.

### How the parts interact

    service --- callRpc/goRpc/asyncCallRpc --+-- RpcClient -- TcpConn ~~~ TcpConn -- RpcServerAgent -- callee's queue
        ^                                    |       |  ^                                                  |
        |                                    |       |  +------------- response -----------------------<---+
        |                                    |       +--- timer (TimeWheel) -> handleRpcCallTimeout
        +---- callback through chanEvent ----+-- local call: request with closure -> callee's queue
    Cluster tables: written by discovery, read by callRpc to find the RpcClient
    TcpClient/TcpServer: make and end connections; RpcClient turns that into the
    connection events that drive discovery
    Service: runs every handler above on its goroutines, from its queue

## 2. Modules

| Module | Models | EXTENDS / INSTANCE |
|---|---|---|
| `CallTable` | the pool of `Call`s, `pending`, timers, callback queues; the properties every kind of call shares | |
| `RpcClient` | calls to an arbitrary remote node | CallTable |
| `RpcServer` | the serving side of a connection | |
| `RpcSystem` | client and server together; the refinement | RpcClient, RpcServer |
| `LocalRpc` | calls within a node | CallTable |
| `ClusterTable` | the routing tables as records, their operations as operators | |
| `Discovery` | master, members, connections, crashes | ClusterTable |
| `SlicePool` | the size classes of the slice pool, as operators | |
| `TcpConn` | one connection, its writer and its reader | SlicePool |
| `TcpLink` | server, clients, connection managers | |
| `TimeWheel` | wheels, poller, timers | |
| `Events` | publishers and listeners | |
| `ModuleTree` | the modules of a service | |
| `Service` | the services of a node, from started to stopped | Events, ModuleTree |
| `MCDiscovery`, `MCService`, `MCTimeWheel` | configurations, services and wheels for TLC | the module they configure |
| `RpcClientProofs`, `RpcSystemProofs`, `LocalRpcProofs`, `DiscoveryProofs`, `TcpConnProofs`, `TcpLinkProofs`, `TimeWheelProofs`, `ServiceProofs` | theorems | the module they prove about (`RpcSystemProofs` extends `RpcClientProofs` too), TLAPS |

Operators whose comment begins with "Fault:" are mutations of the definition that
follows them. No specification uses them; they show which mistake each property would
catch, and `PROJECT.json` pairs them.

### How the models correspond to the code

**CallTable, RpcClient.** A `Call` is a record with the fields the code tests (`ref`,
`Seq`, `Err`, `callback`, and the number of strobes in `done`). A goroutine in the
issue path has a program counter: `lock` (the Call is made, `pendingLock` is next),
`write` (the entry is in `pending`, `WriteMsg` is next), `check` (`callRpc` is about to test `pCall.Err`), `done` (it waits). The reader
removes an entry in one step (`ReadResponse`) and strobes or queues in another
(`DeliverResponse`), because it does the second without the lock; the timeout handler
likewise (`handleRpcCallTimeout`, `FinishTimeout`), except that it keeps
`pendingLock`, so nothing that needs the lock happens in between. A push into a
service's queue is `pushEvent`: the test of the length is a step (`Admission`, which puts
the pusher into `admitted`), or refuses; the send is another, and waits while the channel
is full. Between them other pushers, the service's other events (`others`) included, may
fill it, and what the pusher holds it keeps while it waits. `WriteMsgDropped` is
the path on which `MsgParser.WriteMsg` discards the error of `conn.Write`. Parameters,
results and codecs are abstracted to success or error. `returned` is a history
variable: the outcomes each sequence number was given.

**RpcServer, RpcSystem.** One action per way a request can go: rejected by `Run`,
queued, refused by a full queue (answered, as in the code, only when nobody wants the
answer), refused by `HandlerRpcRequest`, run with a result, an error or a panic, or
kept by a method with a Responder that may reply much later. A queued request is a pooled
`RpcRequest`; its `handleReply` is a closure over the connection and that object, takes
the number from the object when it runs, and gives the object back. When `MethodsSound`
is `FALSE` a method that panics may have kept its Responder, and a Responder may be
called again: the closure then finds the object of another request. That it finds a
released one, and panics on its missing data, is not modelled. `RpcSystem` replaces the
open remote node of `RpcClient` by this server.

**LocalRpc.** A request carries what its closure captured: the pooled `Call` and, for
asynchronous calls, the number. The two closures are the actions under `Reply`; the
synchronous one takes the number from the Call when it runs. They run in time, late
unless `MethodsTimely`, and again, after a panic or because the method kept the Responder,
unless `MethodsSound`. Pushing the callback has the steps it has in `CallTable`, with the
entry already removed; pushing the request into the callee's queue is one step. The
callee is another service than the caller. Of the pooled `RpcRequest` these closures read
only the codec, so its pool is left out here.

**ClusterTable, Discovery.** A table is a record `[id, svc, rpc]` for the three maps.
Every handler of the two discovery services is one action, over the same table
operators. Each table operation holds the cluster's lock in the code; a handler calls
one or a few of them and the model runs the handler in one step. This is coarser than the
code in two places: `triggerNodeConnectEvent` publishes its event after it has released
the lock under which it tested the client, and on the master the two discovery services
may run between the operations of one `RPC_SubServiceDiscover`. A node's entry for itself
is left out of its table, because setting and deleting skip the node itself. A client
in `mapRpc` is numbered (`clientSeq`), so an event of a closed client can be told from
one of its successor, as `triggerNodeConnectEvent` does; closed clients whose agent has
not ended yet are `zombies`. `Crash` loses the process's memory, `Start` is a new life.

**SlicePool, TcpConn.** The channel is a sequence of slices with `nil` as the end mark.
`Write`, `Close` and `Destroy` are atomic because they hold the mutex. The unlocked
tests of `isClosed` in `WriteMsg` and `ReadMsg` are steps of their own, and so is
filling the slice. The reader takes a head, then a body of the length the head names,
and gives each back on every path, errors included. The pool counts how often each
slice is in it, so a double release shows as two. A slice keeps its capacity; it is
drawn from the class of the size asked for and returned to the class of its capacity.
`nil` has capacity 0, which belongs to the smallest class. Slices beyond the largest
class are made and dropped. `Write(nil)`, which nothing in the repository calls, is left
out. `Buffers` is memory: a buffer that no slice uses has
capacity 0 and may become a slice of any capacity. What is in a slice is the number of
the message written there, so that sending a slice somebody else has overwritten shows.

**TcpLink.** Program counters for the accept loop, each agent, each `connect`
goroutine and both `Close` methods, with a step wherever another goroutine can
intervene: between `wgLn.Add` and the goroutine that should have called it, between the
test of the limit and `connMgr.Add`, between `isClosed` and `connMgr.Add` on the client.
An accept may fail, temporarily (the loop goes on) or for good (it returns); an address
that does not resolve ends dialling at once.

**TimeWheel.** A timer is at most in one slot of one wheel (`at`). A wheel's turn moves
its slot down in one step, the poller scans the lowest wheel's slot timer by timer and
gives up the lock to re-add a periodic one, `RomoveTimer` visits the wheels one at a
time. The wheels do not drift: sleepers wake on time and work takes none, while `run`
sleeps a whole interval after its work.

**Events, ModuleTree, Service.** Every goroutine of a service has a program counter:
`select`, `run` (a hook, method or callback has control and may do anything the
framework offers), `send` (past the test of `pushEvent`), `lock` and `broadcast`
(within `BroadCastEvent`), `register` and `bind` (within `RegEventCb`), `release`,
`done`. One goroutine outside the services pushes calls. Releasing a module recurses
through the child maps; `ReleaseModule` gives the result of the recursion, and
`PanicRelease` what is left when it meets an entry of a module that is gone, which the
recursion may do after it has released some of the others. The maps have no lock, or one
that not all their users take. So they are changed only on the goroutine of the one
service `Host` that has a single goroutine, and registrations are withdrawn only from
`Host`'s own publishers; anything else is a data race, which in Go has no meaning to
model. A module does not release itself or one above it, and is not added while it is
already in the tree. Channels are buffered (`ChanCap` at least 1). `OnStart` does nothing and
`OnRelease` is one step, as in the framework's own defaults. What is still queued when a
service stops is dropped, and the modules' `OnRelease` is not called then: the code does
neither.

`PROJECT.json` maps every definition to its lines.

## 3. Runs

| Run | Instance | Distinct states | What it shows |
|---|---|---|---|
| `rpc_client` | 2 Calls, 1 caller, 1 handler, 2 sequence numbers, queue of 1, 2 connections | 175,186 | `PendingGuarded` every entry has a timer or one that is firing; `CompletedOnce`; `DoneMeansComplete` a caller wakes only when its call has ended; `NoPhantomReply`; `NoDoubleFree`; `NoLeak`; `EventuallyReturned` unless the timeout and a service wait on each other |
| `rpc_system` | the same with a server queue of 1 and 2 `RpcRequest`s | 652,842 | when methods are sound: `ServerIsARemoteNode` the server refines the open remote node; `SuccessMeansExecuted` |
| `local_rpc` | 2 Calls, 1 caller, 1 handler, 3 calls | 100,518 | when methods are timely and sound: `CompletedOnce`, `NoDoubleFree`, `LocalNoLeak`, `EventuallyReturned` |
| `local_late_reply` | the same with late replies | violation | `NoDoubleFree` fails (section 6) |
| `discovery` | a master and two members; one failure: a broken connection, or, without the second member, a crash and restart with dialling that may give up | 429,800 | `TablesSound`, `AnnouncedIsRouted`, `Heals` from every start order |
| `discovery_restart` | a master and a member, 1 crash | violation | `Converges` fails |
| `tcp_conn` | 2 users and a reader, memory for 3 slices, channel of 2, 3 messages, lengths in several classes | 643,974 | `NoPanic`, `OneOwner`, `SliceFits`, `SentInOrder`, `CloseFlushes`, `WriterEnds` |
| `tcp_nil_slice` | 1 user and a reader, memory for 2 slices, channel of 1, 2 messages | violation | `MakesWhatIsAsked` fails |
| `tcp_link` | 1 reconnecting client, 2 connections allowed, 4 ever made, 2 attempts per dial | 101,650 | `ServedIsRegistered`, `ClosedMeansQuiet`, `ServerCloseReturns`, `ClosedWhileRunningEnds`, `ClientsGiveUp` |
| `time_wheel` | 2 timers, 3 wheels of 2 slots, delays starting on each | 2,606,890 | `NeverOverdue`, `CalledInTime`, `CalledAsAsked`, `RemovedIsOut` |
| `timer_late` | the same | violation | `WithinMaxTimeDelay` fails |
| `service` | a service with one goroutine and up to 3 modules, one with two goroutines and a queue of 1, a goroutine outside | 642,705 | `ReleasedLast`, `BlockedMeansOvertaken`, `ListenersAgree`, `ReleasedIsGone`, `NoOrphans`, `StopReturns` |

Three of the liveness properties name what they do not promise; without the exception
each fails in the same model. `EventuallyReturned`: a call ends, unless a full queue
refused its response, or the timeout handler, which holds `pendingLock`, and a service
wait on each other (`RpcClientDeadlock.cfg`, section 6). `Heals`: for any two nodes
discovery settles for good, except for a node that the master forgets although it has
registered (`discovery_restart`), and for one that gave up dialling the master. `StopReturns`: the
signal stops the node, unless a goroutine stays blocked in `pushEvent`.

### Why the bounds are enough

* `rpc_client`: two Calls for two calls let an object be recycled while the other is
  in use; a queue of one fills; two connections let a reply outlive its own. The
  recycling hazard needs an object used twice, which two sequence numbers give. The
  channel has room for one event (`ChanCap`), as many as the test admits (`MaxEvents`);
  with one other event (`MaxOthers`) a push that passed the test meets a full channel.
* `rpc_system`: with two `RpcRequest` objects one can be kept by a Responder, across a
  broken connection, while the other is used again and again; the queue of one refuses.
* `local_rpc`: three calls over two objects. The callee's queue has room for all of
  them (`MaxRequests`): `PushRpcRequest` failing after `AddPending` is a hazard of its own (section 5).
* `discovery`: two nodes suffice for what happens between a node and the master, where
  a crash is allowed; a third lets one member be told of another, where a connection may
  break. `MaxClients` is never the reason a step is missing: no node creates that many
  clients within the other bounds.
* `tcp_conn`: the channel of two fills with three messages, and three buffers force a
  reuse while one is queued. With the head of 9 bytes a body of 503 fills a slice of 512
  exactly and one of 1091 needs another class; of the messages received one is below
  `minMsgLen`, one above `maxMsgLen` and one is beyond the largest class.
* `service`: the queue of two, as long as the limit that `pushEvent` tests, fills by two
  pushes between test and send; the queue of one is shorter than that limit, as
  `SetEventChannelNum` allows. A run has two pushes and one change of a map, or four
  changes: enough to add two modules, one of them with a child, release one through
  somebody else than its parent and meet the entry it left.
* `tcp_link`: four connections let the limit of two be met by connections that are
  ending. One client makes all of them by reconnecting.
* `time_wheel`: the real wheels have 12 hours, 60 minutes and 60 seconds; two slots each make every
  cascade and every wrap-around happen early. The proportions between margin, slot and
  delay are the real ones' kind: the finest slot is longer than the poller's margin.

Deadlock is not checked where the system may stop: callers need not call again,
connections and clocks are bounded, and a closed connection has nothing left to do.

### Fairness

* `RpcClient`, `LocalRpc`: weak fairness of every goroutine that has started a call and of
  timers: Go schedules runnable goroutines, and timers expire. Strong fairness of the sends
  into a service's channel (`DeliverResponse`, `FinishTimeout`, the push of a local reply):
  Go serves the goroutines that wait on a channel in the order they came, so a sender is
  not passed over for ever by others. Nothing is assumed of the network, of the remote node, of reconnecting
  or of new calls. `RpcSystem` adds none for the server.
* `LocalRpc` also requires the callee's goroutine to run; a method may still never
  reply.
* `Discovery`: weak fairness of one disjunction, `Runs`: nodes are started, goroutines
  run, a dial to a live node ends, a dead connection is noticed. Failures and restarts
  being bounded, none of these steps can be put off for ever by the others. No failure
  is fair.
* `TcpConn`: the writer goroutine runs and a write to a socket returns. Nothing is
  assumed of the users and of the reader.
* `Service`: goroutines are scheduled, user code returns. No push, no change and no
  signal is fair.
* `TcpLink`: goroutines run; the reading loop of a connection that has been closed at
  either end ends (`WriterEnds` of `TcpConn` closes the socket, TCP tells the peer). No
  error is fair.
* `TimeWheel` states no liveness: `NeverOverdue` is its bounded form.

### Assumptions about timing and methods

They are constants or guards, so that what depends on them can be seen.

* `CallerTimely`: no reply overtakes its caller on the instructions between `WriteMsg`
  and `Done()`. `RpcClientEarlyReply.cfg` is without it.
* The 15-second timeout of a call does not overtake a caller that is still issuing it
  (guard of `handleRpcCallTimeout`, in every run).
* `MethodsTimely`: a local method that replies does so within `callRpcTimeout`.
  `local_late_reply` is the run without it.
* `MethodsSound`, an assumption about users' methods: a Responder is called once, and a
  method that panics has not kept it. `RpcSystemPanicReply.cfg` and
  `LocalRpcPanicReply.cfg` are without it.
* `DialLimit`: `TRUE` in `discovery`, where dialling may give up after
  `maxConnectTimes` attempts; `FALSE` in `discovery_restart`, where the peer is up
  before they are spent.
* `TimeWheel`: sleepers wake on time and work takes no time, and the channel to the
  consumer does not fill.

## 4. Proofs

All are checked by TLAPS for every value of the constants that the `ASSUME`s of the
modules allow: any number of Calls, goroutines, nodes, services, slices and modules, any
bounds.

| Theorem | Says | Inductive invariant |
|---|---|---|
| `RpcClientProofs!TypeCorrect` | `Spec => []TypeOK` | `TypeOK` |
| `RpcClientProofs!TableGuarded`, `ToldOnce`, `StrobedWhenComplete`, `RepliesAreReal`, `ReleasedOnce`, `NothingLeaks` | `CallerTimely => (Spec => []P)` for `PendingGuarded`, `CompletedOnce`, `DoneMeansComplete`, `NoPhantomReply`, `NoDoubleFree`, `NoLeak` | `CallInv` |
| `RpcSystemProofs!ServerImplementsRemote` | `MethodsSound => (SystemSpec => ServerIsARemoteNode)`, the refinement | `SystemInv` |
| `RpcSystemProofs!SuccessIsReal` | `CallerTimely /\ MethodsSound => (SystemSpec => []SuccessMeansExecuted)` | `CallInv` and `AnswersEarned` |
| `LocalRpcProofs!LocalToldOnce`, `LocalPoolSound`, `LocalNothingLeaks` | `CalleeTimely => (Spec => []P)` for `CompletedOnce`, `NoDoubleFree`, `LocalNoLeak` | `LocalInv` |
| `DiscoveryProofs!TypeCorrect`, `TablesStaySound` | `Spec => []TypeOK`, `Spec => []TablesSound` | `Inv` |
| `DiscoveryProofs!AnnouncedStaysRouted` | `Spec => []AnnouncedIsRouted` | `Inv /\ RouteInv` |
| `TcpConnProofs!NeverPanics` | `Spec => []NoPanic` | `PanicInv` |
| `TcpConnProofs!SlicesHaveOneOwner`, `SlicesFit` | `Spec => []OneOwner`, `Spec => []SliceFits` | `SliceInv` |
| `TcpConnProofs!MessagesInOrder`, `NothingUnsent` | `Spec => []SentInOrder`, `Spec => []CloseFlushes` | `SliceInv /\ FlowInv` |
| `TcpConnProofs!ClassesFit` | a slice made for any size the pool serves goes back to the class it was drawn from, and every slice of a class is long enough for every size of it | none: arithmetic |
| `TcpLinkProofs!TypeCorrect`, `ServerKeepsTrack`, `ServerCloseIsFinal` | `Spec => []TypeOK`, `Spec => []ServedIsRegistered`, `Spec => []ClosedMeansQuiet` | `SvInv` |
| `TimeWheelProofs!RemoverCatches` | `Spec => []RemovedIsOut` | `BaseInv` |
| `TimeWheelProofs!OverdueBounded`, `CallsInTime` | `Spec => []NeverOverdue`, `Spec => []CalledInTime` | `BaseInv /\ TurnsInv` |
| `TimeWheelProofs!CallsAsAsked` | `Separated => (Spec => []CalledAsAsked)` | `BaseInv /\ CountInv` |
| `ServiceProofs!LastOneReleases`, `OnlyOvertakenBlock`, `BothEndsAgree`, `ReleaseIsComplete`, `ModulesReachable` | `Spec => []P` for `ReleasedLast`, `BlockedMeansOvertaken`, `ListenersAgree`, `ReleasedIsGone`, `NoOrphans` | `ServiceInv` |

The inductive invariants were checked with TLC before they were proved.

### The inductive invariants

* **`CallInv`.** The properties speak of one moment of a call; to keep them one has to
  know where every Call and every number is. A Call that is not in use is as `Clear` left
  it (`FreeIsClear`); a number not generated yet is nowhere (`FreshUnused`); a number
  belongs to one Call and one goroutine (`NumbersUnique`). Then one part per place: the
  table, the timeout being handled, the reader's hand, the queues, the goroutines that
  have just got a number, are sending, or wait. Each says that the Call there is in use,
  has its number, has been told nothing, and is nowhere else. A push that waits for room
  keeps its Call where it was, so it adds no place. `OutcomesOK` ties what was
  returned to what the remote node answered.
* **`SystemInv`, `AnswersEarned`.** The refinement maps the requests of the open client
  to those on the wire and those held by an `RpcRequest` in use whose `handleReply` is for
  the open connection. It works because a number is written once and is in one of these
  places only (`WrittenOnce`, `InOnePlace`), and because an object in use is held by one
  event of the queue or one Responder and a free one by none (`HeldOnce`): so the number a
  closure reads is still the one it was made for, and when the server answers, it leaves
  the mapped set exactly then. `HeldOnce` is what a second reply breaks, hence
  `MethodsSound`.
  A step of the system is a step of `RpcClient`, so `CallInv` holds there too; and the
  server writes success only for a request whose method ran.
* **`LocalInv`.** Like `CallInv`, with the closures in the place of the reader: as long
  as a request is queued or kept by a method, its Call is the entry of `pending` under the
  request's own number (`RequestsOK`), in one request only (`RequestsOnce`); a reply that
  has removed the entry and is being pushed holds a Call nobody else has (`PushingOK`).
* **`Inv`, `RouteInv`.** `ClientsNumbered` (no client in a table has a number the process
  has not handed out yet) keeps a new client's number above every old one's. Each table
  operator has a lemma: sound tables in, sound tables out. For `AnnouncedIsRouted`:
  no entry is ever marked `Discard` (`NoMarks`, the lost mark of section 5), therefore
  `DiscardNode` removes nothing when a client's end is noticed; and a process that is
  down has been told nothing (`DownKnowsNothing`).
* **`PanicInv`.** `NoPanic` says nothing about when the channel is closed; the invariant
  adds that it is closed only if `isClosed` is set, which is what `Write`, `Close` and
  `doDestroy` test under the mutex.
* **`SliceInv`.** `OneOwner` counts places; the invariant says which goroutine has a
  slice at which program counter (`HandsOK`), that the places exclude one another
  (`SlicesOwned`), and that a slice has the capacity its class gives it (`CapsOK`), from
  which `ClassesFit` gives `SliceFits`.
* **`FlowInv`.** What has been sent, the slice in the writer's hand and the channel, in
  this order, are the messages accepted; no content in it changes because each slice has
  one owner. The end mark is last.
* **`SvInv`.** `Accepting` (a connection in the backlog or in the loop's hands is there
  once and has no agent yet), `Phases` (`isClosed` is set once `Close` has begun, and
  after `wgLn.Wait()` the loop holds no connection), `Registered` (served or about to be
  served means in `connMgr`; after `ClearConn`, closed), `Limited` (neither `connMgr` nor
  what is served exceeds `MaxConnNum`; by cardinality of finite sets). `TypeOK` there
  needs `TimesLeft` (a client that dials has an attempt left) and `Held` (a goroutine past
  accept or dial holds a connection).
* **`BaseInv`.** Who sleeps until when, what the poller holds at which program counter, and
  the remover: a timer that fires once only moves down, one wheel at a time, and so does
  the remover, so the wheels it has visited are all above the timer's (`RemoverOK`).
* **`TurnsInv`.** `NeverOverdue` says that the bound has not passed; to keep it one has to
  know when the timer's slot will be turned. The time of that turn, `wake` of its wheel and
  one interval for each slot the pointer has to go, is at most the due time and the slack
  (`Early`); on the lowest wheel the slot is in the poller's reach by then, and at the last
  moment the poller is awake and has yet to take the timer (`LastChance`). Adding a timer
  and moving it down establish this (`\div` and `%`), turns and the clock preserve it.
  `addTimer` chooses the highest wheel whose interval the delay reaches; that there is one
  follows from every set of natural numbers having a least element (`LeastElement`).
* **`CountInv`.** Calls made, the call on the poller's list and calls left to arm are
  together the calls asked for, wherever the timer is: in a slot, about to be scanned,
  being re-added. A listed timer back in a slot is not due again in the same scan, which is
  what `Separated` is for.
* **`ServiceInv`.** `StopInv`: `goroutineNum` is the number of goroutines still running,
  so the one that brings it to 0 is the last. `PushInv`: between test and send a queue has
  grown only if the sender is marked as overtaken. `MapInv`: who is within `RegEventCb`,
  and how far. `TreeInv`: `Subtree` is the least set closed under the child maps; adding
  a module and releasing one, completely or up to a panic, keep every module in
  `descendants` below the service or below one that failed.

### What the theorems assume

* `CallerTimely`, `MethodsTimely` and `MethodsSound`: the assumptions of section 3. They
  are hypotheses of the theorems, and section 6 shows that none can be dropped.
  `CalleeTimely` is `MethodsTimely`, `MethodsSound` and a callee's queue with room for
  every request that is issued (`MaxRequests >= MaxSeq`): without it `PushRpcRequest` may
  fail after `AddPending` (`rpcserver.go:272`).
* `Separated`, for `CallsAsAsked`: the poller's look-ahead is not longer than a slot of the
  lowest wheel, and no period is shorter than the look-ahead. The first is so in the code
  (100 ms and 1 s); the second is up to the user, and a shorter period is the hazard at
  `timewheel.go:198`.
* `TimeWheelAssumption`: the wheels are nested, each has a slot, and `None` is not a timer,
  a slot or a record.
* `ServiceAssumption`: each service has a finite number of goroutines and at least one, as
  `Init` of a service sets; `SetGoRoutineNum(0)` would make a service that never runs and
  is never released. Channels have room for at least one event; `SetEventChannelNum(0)`,
  an unbuffered channel, is left out. Services and modules are distinct objects, and exactly one goroutine
  belongs to `Host`.
* Otherwise only that the constants have their types.

### What is only model-checked

Every liveness property (`EventuallyReturned`, `Heals`, `WriterEnds`,
`ServerCloseReturns`, `ClosedWhileRunningEnds`, `ClientsGiveUp`, `StopReturns`): fairness is
out of the prover's reach. Every safety property that a passing run checks is a theorem.

## 5. Hazards

`PROJECT.json` lists what is hard to test, at its line, with the properties that would
catch it. Those without a property say why; the most important are:

* `tcpclient.go:101`: a client closed between the test of `isClosed` and `connMgr.Add`
  keeps its connection for ever. `ClosedWhileRunningEnds` is stated for clients whose
  agent runs; the same formula without that premise fails in `TcpLink`.
* `cluster.go:184`: the `Discard` mark is set on a copy of the `NodeInfo` and is lost.
  The model does what the code does, so `DiscardNode` never finds a marked entry.
* `rpcserver.go:272`: a local call refused by a full queue leaves its pending entry
  and timer behind.
* `rpcclient.go:318`, `rpchandler.go:97`, `rpcserver.go:256`: the deadlock under
  `pendingLock` and the second and the late reply. They happen in the models; the
  properties exempt them or assume them away, by name, and section 6 shows them.
* `event.go:190`: `removeRegListenerInfo` writes a map without the lock that
  `BroadCastEvent` holds while it iterates over it. Go ends the process; `Service`
  assumes the confinement that avoids it (section 2).

## 6. Findings

Found by the violation runs:

* **`local_late_reply`** (`jrpc/rpcserver.go:312`). A local asynchronous method that
  replies after the timeout finds no pending entry and releases the Call, which the
  callback queued by the timeout releases as well. `mempool.go:97` panics on that:
  "Repeatedly freeing memory".
* **`discovery_restart`** (`cluster/dynamicdiscovery.go:141`). A member restarts and
  registers before the master has handled the end of its previous connection;
  `OnNodeDisconnect` then removes the new registration, and nothing repeats it. The
  comment at `dynamicdiscovery.go:184` intends disconnection before connection.
* **`tcp_nil_slice`** (`jnet/tcpconn.go:192`). `Close` on a full channel releases its
  end mark, `nil`, into the smallest class of the shared pool. The next message of up to
  512 bytes, of any connection, draws it, and `[:size]` panics. `slicepool.go:63` says
  that `MakeByteSlice` takes a slice of size `size` from the pools.
* **`timer_late`** (`jtimer/timewheel.go:88`). A timer that starts on a higher wheel is
  put into the slot its delay rounds down to, and handed down when the wheel has passed
  that slot: it may be called up to one slot of that wheel late, a minute or an hour.
  `timescheduler.go:12` calls the 100 ms of `MaxTimeDelay` the maximum error, and line 121
  logs more as an error. `NeverOverdue` and `CalledInTime` state the bound that holds.

Each of these configurations checks one more property that the code does not keep; TLC
finds the violation within seconds (module and configuration as named):

* **`RpcClientDeadlock.cfg`, `RpcClient`** (`jrpc/rpcclient.go:318`). `TimeoutIsHandled`:
  the timeout handler passes the test of `pushEvent`, the queue fills, and it waits in the
  send with `pendingLock` held; the service that should make room is in `AsyncCall` and
  waits for `pendingLock`. Every later call of that client stops there too.
* **`RpcClientEarlyReply.cfg`, `RpcClient`** (`jrpc/rpchandler.go:262`).
  `DoneMeansComplete`: after the request is written, `callRpc` reads `pCall.Err` without
  synchronisation. If the reader has stored an error response and not yet strobed `done`,
  `callRpc` returns and releases the Call; the strobe then completes whichever call gets
  the object next. `rpc.go:58` says of `done` "Strobes when call is complete."
* **`RpcSystemPanicReply.cfg`, `RpcSystem`** (`jrpc/rpcserver.go:133`). `AnswerIsOwn`: a
  method keeps its Responder and panics; the recover replies and releases the request.
  The object goes to another request, and the Responder answers under that one's number.
* **`LocalRpcPanicReply.cfg`, `LocalRpc`** (`jrpc/rpcserver.go:312`). `NoDoubleFree`: the
  same in a local asynchronous call. The second reply finds no entry and releases the Call
  that the first has queued, however quick it is.
* **`LocalRpcStaleReply.cfg`, `LocalRpc`** (`jrpc/rpcserver.go:256`). `OwnReply`: a local
  synchronous method replies after the timeout. The closure reads the number from its Call,
  which another call has by then, and completes that call.
* **`ServiceStaleChild.cfg`, `MCService`** (`service/module.go:95`).
  `ChildrenAreDescendants`: a module released through an ancestor stays in its parent's
  child map. Releasing the parent later panics on the entry.

## 7. Not modelled

* Registration of methods by reflection, choice among several target nodes, a service
  calling its own methods directly, raw requests as a path of their own.
* Several masters; static discovery and configuration (they are constants).
* `seqMap` and the property map of a connection, which the framework does not use.
* Data races on the unlocked maps of events and modules, and a module that releases
  itself or one above it while it runs; a module added in two places at once.
* An unbuffered event channel; `TcpConn.Write(nil)`; the pool of `RpcRequest`s in local
  calls; a closure that meets a released `RpcRequest`.
* The wrap of the 32-bit timer id and of sequence numbers; `DelayFunc` by reflection.
* The profiler: off by default, sequential.
* Codecs, generated code, command line, log: pure conversion and I/O.

## 8. Plan

The order was: calls, their server, local calls; tables and discovery; connections;
timers; services, events and modules; reading and the size classes; then the proofs of
every safety property and of the refinement. What is left, in order:

1. The close window of `TcpClient` (`tcpclient.go:101`) and the full local queue
   (`rpcserver.go:272`) as properties of their own.
2. The publishing of connection events as a step of its own, after the lock is released.
3. Discovery with several masters.
