------------------------------- MODULE Service -------------------------------
(***************************************************************************)
(* The services of a node: their goroutines and event queues, how they are *)
(* started and stopped (service/service.go, service/servicemgr.go,         *)
(* startNode in node/node.go), the events they exchange (module Events)    *)
(* and the modules of one of them (module ModuleTree).                     *)
(*                                                                         *)
(* A goroutine that runs a hook, a method or a callback may do anything    *)
(* the framework offers: push an event, broadcast one, register for        *)
(* events, add and release modules. pushEvent is two steps, the test of    *)
(* the length and the send, which blocks on a full channel.                *)
(*                                                                         *)
(* The maps of listeners and modules are changed only on the goroutine of  *)
(* a service that has just one, Host, and registrations are withdrawn only *)
(* from Host's own publishers: anything else races with the unlocked reads *)
(* of EventHandler and BroadCastEvent.                                     *)
(***************************************************************************)
EXTENDS Events, ModuleTree

CONSTANTS Services,
          Workers, ServiceOf,  \* goroutines of the services, and whose they are
          Pushers,             \* other goroutines: connections, timers, the cluster
          Host,                \* the service with modules; it has one goroutine
          Registered, Pushed,  \* registrations made and events pushed in OnInit
          Limit,               \* maxServiceEventChannel
          ChanCap,             \* capacity of chanEvent: SetEventChannelNum or Limit; a
                               \* channel without a buffer is left out
          Rpc,                 \* an RPC request or response
          Stale,               \* an event whose publisher was replaced
          Budgets              \* bounds: how often events are pushed, maps changed

Procs == Workers \cup Pushers
WorkersOf(s) == {w \in Workers : ServiceOf[w] = s}

ASSUME ServiceAssumption ==
    /\ ServiceOf \in [Workers -> Services]
    /\ IsFiniteSet(Workers) /\ \A s \in Services : WorkersOf(s) # {}
    /\ Host \in Services /\ Cardinality(WorkersOf(Host)) = 1
    /\ Limit \in Nat \ {0}
    /\ ChanCap \in [Services -> Nat \ {0}]
    /\ Listeners = Services /\ Publishers = Services \cup Modules
    /\ Services \cap Modules = {}
    /\ Registered \subseteq Services \X Services
    /\ Pushed \in [Services -> Seq({Rpc})]
    /\ \A s \in Services : Len(Pushed[s]) <= ChanCap[s]
    /\ {Rpc, Stale} \cap Publishers = {} /\ Rpc # Stale
    /\ Free \notin Procs /\ Workers \cap Pushers = {}
    /\ Budgets \subseteq [push : Nat, change : Nat]

VARIABLES queue,         \* chanEvent of each service
          at,            \* where each goroutine is
          ev, to,        \* the event it pushes, and to which service
          todo,          \* the listeners its BroadCastEvent has still to visit
          goroutineNum,  \* Service.goroutineNum
          releases,      \* how often OnRelease of each service has run
          closeSig,      \* closeSig is closed
          stopped,       \* WaitStopAll has returned
          left,          \* what is left of the budget
          overtaken      \* history: somebody else pushed between its test and its send

procVars == <<at, ev, to, todo, overtaken>>
stopVars == <<goroutineNum, releases, closeSig, stopped>>
vars == <<queue, procVars, stopVars, left, eventVars, treeVars>>

\* InitServiceMgr and StartAll are over: every OnInit has returned and the goroutines
\* have run OnStart, which is empty unless a service redefines it.
Init ==
    /\ EventsInit(Registered) /\ TreeInit
    /\ queue = Pushed
    /\ at = [x \in Procs |-> IF x \in Workers THEN "select" ELSE "idle"]
    /\ ev = [x \in Procs |-> Stale] /\ to = [x \in Procs |-> Host]
    /\ todo = [x \in Procs |-> {}]
    /\ goroutineNum = [s \in Services |-> Cardinality(WorkersOf(s))]
    /\ releases = [s \in Services |-> 0]
    /\ closeSig = FALSE /\ stopped = FALSE
    /\ left \in Budgets
    /\ overtaken = [x \in Procs |-> FALSE]

\* x, running user code or being a pusher with nothing to do, pushes an event.
Pushes(x) ==
    /\ at[x] \in {"run", "idle"}
    /\ left.push > 0
    /\ left' = [left EXCEPT !.push = @ - 1]

\* Host's goroutine, running user code, changes the listeners or the modules.
MayChange(w) == at[w] = "run" /\ ServiceOf[w] = Host /\ left.change > 0

Changes(w) ==
    /\ MayChange(w)
    /\ left' = [left EXCEPT !.change = @ - 1]

Goto(x, where) == at' = [at EXCEPT ![x] = where]

\* x forgets the event it was busy with.
Forget(x) ==
    /\ ev' = [ev EXCEPT ![x] = Stale]
    /\ to' = [to EXCEPT ![x] = Host]

-----------------------------------------------------------------------------
(* pushEvent *)

\* x pushes on behalf of BroadCastEvent.
Broadcasting(x) == ev[x] \in Publishers /\ locker[ev[x]] = x

\* Fault: off by one.
IsFullLate(s) == Len(queue[s]) > Limit

\* The test of pushEvent.
IsFull(s) == Len(queue[s]) >= Limit

\* PushEvent, PushRpcRequest and PushRpcResponse up to the send. A full queue is an
\* error, which callers log or ignore.
PushTest(x, s, e) ==
    /\ Pushes(x)
    /\ ~IsFull(s)
    /\ ev' = [ev EXCEPT ![x] = e] /\ to' = [to EXCEPT ![x] = s]
    /\ Goto(x, "send")
    /\ UNCHANGED <<queue, todo, overtaken, stopVars, eventVars, treeVars>>

PushRefused(x, s) ==
    /\ Pushes(x)
    /\ IsFull(s)
    /\ UNCHANGED <<queue, procVars, stopVars, eventVars, treeVars>>

\* `s.chanEvent <- ev`
Send(x) ==
    /\ at[x] = "send"
    /\ Len(queue[to[x]]) < ChanCap[to[x]]
    /\ queue' = [queue EXCEPT ![to[x]] = Append(@, ev[x])]
    /\ overtaken' = [y \in Procs |->
          y # x /\ (overtaken[y] \/ (at[y] = "send" /\ to[y] = to[x]))]
    /\ IF Broadcasting(x) THEN Goto(x, "broadcast") /\ UNCHANGED <<ev, to>>
       ELSE Goto(x, IF x \in Pushers THEN "idle" ELSE "run") /\ Forget(x)
    /\ UNCHANGED <<todo, stopVars, left, eventVars, treeVars>>

-----------------------------------------------------------------------------
(* What a service's code may do with events *)

\* The publishers in the hands of w's service.
OwnPublishers(w) == {ServiceOf[w]} \cup (IF ServiceOf[w] = Host THEN descendants ELSE {})

BroadCastEvent(w, p) ==
    /\ Pushes(w) /\ p \in OwnPublishers(w)
    /\ ev' = [ev EXCEPT ![w] = p]
    /\ Goto(w, "lock")
    /\ UNCHANGED <<queue, to, todo, overtaken, stopVars, eventVars, treeVars>>

BroadCastLocks(w) ==
    /\ at[w] = "lock"
    /\ LockPublisher(ev[w], w)
    /\ todo' = [todo EXCEPT ![w] = mapRegListener[ev[w]]]
    /\ Goto(w, "broadcast")
    /\ UNCHANGED <<queue, ev, to, overtaken, stopVars, left, treeVars>>

\* The next listener, in the order of a Go map: any. Its error is ignored.
BroadCastNext(w, l) ==
    /\ at[w] = "broadcast" /\ l \in todo[w]
    /\ todo' = [todo EXCEPT ![w] = @ \ {l}]
    /\ to' = [to EXCEPT ![w] = l]
    /\ Goto(w, IF IsFull(l) THEN "broadcast" ELSE "send")
    /\ UNCHANGED <<queue, ev, overtaken, stopVars, left, eventVars, treeVars>>

BroadCastEnds(w) ==
    /\ at[w] = "broadcast" /\ todo[w] = {}
    /\ UnlockPublisher(ev[w])
    /\ Goto(w, "run") /\ Forget(w)
    /\ UNCHANGED <<queue, todo, overtaken, stopVars, left, treeVars>>

\* RegEventCb of Host's listener with a service or a module of its own.
RegEventCb(w, p) ==
    /\ Changes(w) /\ p \in Services \cup descendants
    /\ ev' = [ev EXCEPT ![w] = p]
    /\ Goto(w, "register")
    /\ UNCHANGED <<queue, to, todo, overtaken, stopVars, eventVars, treeVars>>

RegListener(w) ==
    /\ at[w] = "register"
    /\ addRegListenerInfo(Host, ev[w])
    /\ Goto(w, "bind")
    /\ UNCHANGED <<queue, ev, to, todo, overtaken, stopVars, left, treeVars>>

RegBind(w) ==
    /\ at[w] = "bind"
    /\ addBindEvent(Host, ev[w])
    /\ Goto(w, "run") /\ Forget(w)
    /\ UNCHANGED <<queue, todo, overtaken, stopVars, left, treeVars>>

\* UnRegEventReceiverFunc.
UnReg(w, p) ==
    /\ Changes(w) /\ p \in OwnPublishers(w)
    /\ Host \in mapRegListener[p]
    /\ UnRegEventCb(Host, p)
    /\ UNCHANGED <<queue, procVars, stopVars, treeVars>>

-----------------------------------------------------------------------------
(* What Host's code may do with modules *)

\* AddModule gives x, and what x adds, a new publisher: events of an earlier one
\* that are still queued name an object nobody is bound to.
AddsModule(w, m, x, K, ok) ==
    /\ Changes(w)
    /\ AddModule(m, x, K, ok)
    /\ queue' = [s \in Services |-> [i \in DOMAIN queue[s] |->
          IF queue[s][i] \in Republished(m, x, K) THEN Stale ELSE queue[s][i]]]
    /\ UNCHANGED <<procVars, stopVars, eventVars>>

ReleasesModule(w, m, x) ==
    /\ Changes(w)
    /\ ReleaseModule(m, x)
    /\ Destroy(Subtree(x))
    /\ UNCHANGED <<queue, procVars, stopVars>>

\* The panic ends the callback; EventHandler recovers it.
ReleasePanics(w, m, x, v, S) ==
    /\ Changes(w)
    /\ PanicRelease(m, x, v, S)
    /\ Destroy(Partly(S))
    /\ Goto(w, "select")
    /\ UNCHANGED <<queue, ev, to, todo, overtaken, stopVars>>

-----------------------------------------------------------------------------
(* Run *)

\* The hook, method or callback returns.
Returns(w) ==
    /\ at[w] = "run"
    /\ Goto(w, "select")
    /\ UNCHANGED <<queue, ev, to, todo, overtaken, stopVars, left, eventVars, treeVars>>

\* `case ev := <-s.chanEvent`: EventHandler drops an event without a callback.
Take(w) ==
    LET s == ServiceOf[w]
        e == Head(queue[s])
    IN /\ at[w] = "select" /\ queue[s] # <<>>
       /\ queue' = [queue EXCEPT ![s] = Tail(@)]
       /\ Goto(w, IF e = Rpc \/ HasCallback(s, e) THEN "run" ELSE "select")
       /\ UNCHANGED <<ev, to, todo, overtaken, stopVars, left, eventVars, treeVars>>

\* Fault: the signal is received by one goroutine instead of closing the channel.
SeeCloseOnce(w) ==
    LET s == ServiceOf[w] IN
    /\ at[w] = "select" /\ closeSig
    /\ \A v \in Workers : at[v] \notin {"release", "done"}
    /\ goroutineNum' = [goroutineNum EXCEPT ![s] = @ - 1]
    /\ Goto(w, IF goroutineNum'[s] <= 0 THEN "release" ELSE "done")
    /\ UNCHANGED <<queue, ev, to, todo, overtaken, releases, closeSig, stopped, left, eventVars, treeVars>>

\* Fault: the goroutine that sees the signal first releases the service.
SeeCloseFirst(w) ==
    LET s == ServiceOf[w] IN
    /\ at[w] = "select" /\ closeSig
    /\ goroutineNum' = [goroutineNum EXCEPT ![s] = @ - 1]
    /\ Goto(w, IF \A v \in WorkersOf(s) : at[v] # "done" THEN "release" ELSE "done")
    /\ UNCHANGED <<queue, ev, to, todo, overtaken, releases, closeSig, stopped, left, eventVars, treeVars>>

\* `case <-closeSig`, whether or not events are queued, and the atomic decrement
\* that tells the last goroutine to release the service.
SeeClose(w) ==
    LET s == ServiceOf[w] IN
    /\ at[w] = "select" /\ closeSig
    /\ goroutineNum' = [goroutineNum EXCEPT ![s] = @ - 1]
    /\ Goto(w, IF goroutineNum'[s] <= 0 THEN "release" ELSE "done")
    /\ UNCHANGED <<queue, ev, to, todo, overtaken, releases, closeSig, stopped, left, eventVars, treeVars>>

\* OnRelease, then wg.Done.
Release(w) ==
    /\ at[w] = "release"
    /\ releases' = [releases EXCEPT ![ServiceOf[w]] = @ + 1]
    /\ Goto(w, "done")
    /\ UNCHANGED <<queue, ev, to, todo, overtaken, goroutineNum, closeSig, stopped, left, eventVars, treeVars>>

-----------------------------------------------------------------------------
(* startNode, once the services run *)

\* The signal of the operating system: close(n.closeSig).
Signal ==
    /\ ~closeSig
    /\ closeSig' = TRUE
    /\ UNCHANGED <<queue, procVars, goroutineNum, releases, stopped, left, eventVars, treeVars>>

WaitStopAll ==
    /\ closeSig /\ ~stopped
    /\ \A w \in Workers : at[w] = "done"
    /\ stopped' = TRUE
    /\ UNCHANGED <<queue, procVars, goroutineNum, releases, closeSig, left, eventVars, treeVars>>

-----------------------------------------------------------------------------
\* What w's user code begins: PublishEvent to one listener or a local call, a
\* broadcast, registrations, modules. OnInit of an added module adds at most one more.
Begins(w) ==
    \/ \E s \in Services : PushRefused(w, s) \/ \E e \in {Rpc} \cup OwnPublishers(w) : PushTest(w, s, e)
    \/ \E p \in Publishers : BroadCastEvent(w, p) \/ RegEventCb(w, p) \/ UnReg(w, p)
    \/ /\ MayChange(w)
       /\ \E m \in Live, x \in Modules, K \in {{}} \cup {{y} : y \in Modules}, ok \in BOOLEAN :
            AddsModule(w, m, x, K, ok)
    \/ /\ MayChange(w)
       /\ \E m \in Live, x \in descendants :
            \/ ReleasesModule(w, m, x)
            \/ \E v \in Subtree(x), S \in SUBSET descendants : ReleasePanics(w, m, x, v, S)

\* What the runtime lets w go on with.
Continues(w) ==
    \/ Send(w) \/ BroadCastLocks(w) \/ BroadCastEnds(w) \/ RegListener(w) \/ RegBind(w)
    \/ \E l \in Listeners : BroadCastNext(w, l)
    \/ Returns(w) \/ Take(w) \/ SeeClose(w) \/ Release(w)

\* Calls and responses arrive from outside. The connection events that
\* triggerNodeConnectEvent pushes differ only in going through EventHandler.
PusherNext(x) ==
    \/ \E s \in Services : PushTest(x, s, Rpc) \/ PushRefused(x, s)
    \/ Send(x)

Next ==
    \/ \E w \in Workers : Begins(w) \/ Continues(w)
    \/ \E x \in Pushers : PusherNext(x)
    \/ Signal \/ WaitStopAll

\* Goroutines are scheduled and user code returns. What is pushed being bounded, the
\* select takes the signal in the end and a sender that finds room gets its turn, so
\* more need not be assumed. No push, no change and no signal is fair.
Fairness == WF_vars(WaitStopAll \/ \E w \in Workers : Continues(w))

Spec == Init /\ [][Next]_vars /\ Fairness

-----------------------------------------------------------------------------
(* Properties *)

\* OnRelease of a service runs once, after the last of its goroutines has handled
\* its last event, and before WaitStopAll lets the process end.
ReleasedLast ==
    \A s \in Services :
        /\ releases[s] <= 1
        /\ releases[s] = 1 => \A w \in WorkersOf(s) : at[w] = "done"
        /\ stopped => releases[s] = 1

\* x waits for room in a queue.
Blocked(x) == at[x] = "send" /\ Len(queue[to[x]]) >= ChanCap[to[x]]

\* A queue that holds at least maxServiceEventChannel events blocks a goroutine only
\* if another one pushed between its test and its send; a smaller one, which the
\* test does not know, always may.
BlockedMeansOvertaken ==
    \A x \in Procs : Blocked(x) /\ ChanCap[to[x]] >= Limit => overtaken[x]

\* After the signal the node stops, unless a goroutine stays blocked in pushEvent
\* for ever: nothing else can keep WaitStopAll from returning.
StopReturns == (closeSig ~> stopped) \/ <>[](\E w \in Workers : Blocked(w))

\* Publisher and listener agree on who is registered, except within RegEventCb.
ListenersAgree ==
    \A l \in Listeners, p \in Publishers :
        (\A w \in WorkersOf(l) : at[w] = "bind" => ev[w] # p) =>
            (l \in mapRegListener[p] <=> p \in mapBindPublisherCb[l])

\* ReleaseModule, for the module that was named and for all those below it, alone or
\* cut short by a panic: what was released cannot be found through the service, keeps
\* no children, and no event of it, queued or to come, has a callback. What the child
\* maps of other modules still hold of it is the subject of ChildrenAreDescendants.
ReleasedIsGone ==
    \A x \in Modules \ attached :
        /\ x \notin descendants /\ child[x] = {}
        /\ mapRegListener[x] = {} /\ \A l \in Listeners : ~HasCallback(l, x)

\* `child map[uint32]IModule //children` next to `descendants //the ancestor's
\* descendants`: a child of a module of the service is a module of the service. The
\* code breaks it: ReleaseModule deletes from the caller's child map, not from the
\* parent's.
ChildrenAreDescendants == \A m \in Live : child[m] \subseteq descendants

\* Every module of a service can be reached to be released: from the service, or
\* from a module whose own OnInit failed.
NoOrphans ==
    \A x \in descendants : \E m \in {Root} \cup (attached \ descendants) : x \in Subtree(m)
=============================================================================
