------------------------------ MODULE LocalRpc ------------------------------
(***************************************************************************)
(* Calls between services of one node: selfNodeRpcHandlerGo and            *)
(* selfNodeRpcHandlerAsyncGo of jrpc/rpcserver.go, the local branches of   *)
(* callRpc, goRpc and asyncCallRpc, and HandlerRpcRequest on the callee.   *)
(*                                                                         *)
(* Nothing goes over the wire: the request carries a closure, handleReply, *)
(* that holds on to the caller's pooled Call. The callee, or whoever keeps *)
(* the Responder, runs that closure at any later time.                     *)
(***************************************************************************)
EXTENDS CallTable

CONSTANTS Callers,       \* goroutines that run callRpc and goRpc
          MaxRequests,   \* maxServiceEventChannel of the callee
          MethodsTimely, \* TRUE: a method that replies at all does so within
                         \* callRpcTimeout. FALSE: a reply may be later.
          MethodsSound   \* TRUE: handleReply runs at most once for a request: a
                         \* Responder is called once, and a method that panics has
                         \* neither called nor kept it. FALSE: it may run again.

ASSUME LocalRpcAssumption ==
    /\ MaxRequests \in Nat
    /\ MethodsTimely \in BOOLEAN
    /\ MethodsSound \in BOOLEAN
    /\ None \notin Callers
    /\ Callers \cap Handlers = {}

VARIABLES pc,      \* where a goroutine is: before AddPending, or waiting for Done
          my,      \* its local variables: the Call and the seq it was given
          queue,   \* the callee's chanEvent: requests to handle
          serving, \* requests whose handleReply may yet be called
          pushing, \* asynchronous replies between RemovePending and PushRpcResponse
          replies  \* history: the outcomes the callee produced

localVars == <<pc, my, queue, serving, pushing, replies>>
vars == <<tableVars, localVars>>

Procs == Callers \cup Handlers

\* A request has a kind, "call", "async" or "go", and what its closure handleReply
\* captured: pCall and, in the asynchronous variant, callSeq. goRpc has no closure.

Idle == [call |-> None, seq |-> 0]

Init ==
    /\ TableInit
    /\ pc = [p \in Procs |-> "idle"]
    /\ my = [p \in Procs |-> Idle]
    /\ queue = <<>>
    /\ serving = {}
    /\ pushing = {}
    /\ replies = {}

-----------------------------------------------------------------------------
(* The calling side *)

\* rpcHandler.PushRpcRequest(req)
QueueFull == Len(queue) >= MaxRequests

\* selfNodeRpcHandlerGo for callRpc and selfNodeRpcHandlerAsyncGo, up to AddPending:
\* a number, and a Call that carries the callback of a service that passes one.
NewLocalCall(p) ==
    /\ pc[p] = "idle"
    /\ startSeq < MaxSeq
    /\ startSeq' = startSeq + 1
    /\ \E k \in Pooled :
        /\ my' = [my EXCEPT ![p] = [call |-> k, seq |-> startSeq']]
        /\ call' = [call EXCEPT ![k] = IF p \in Handlers THEN [InUse(k, startSeq') EXCEPT !.callback = p]
                                                         ELSE InUse(k, startSeq')]
    /\ pc' = [pc EXCEPT ![p] = "lock"]
    /\ UNCHANGED <<pending, timers, firing, chanEvent, others, admitted, lost, crashed, returned,
                   queue, serving, pushing, replies>>

\* selfNodeRpcHandlerGo when no local service has the name: Seq 0, Err and a
\* token, and no entry.
ServiceNotFound(c) ==
    /\ pc[c] = "idle"
    /\ startSeq < MaxSeq
    /\ startSeq' = startSeq + 1
    /\ \E k \in Pooled :
        /\ my' = [my EXCEPT ![c] = [call |-> k, seq |-> startSeq']]
        /\ call' = [call EXCEPT ![k] = [InUse(k, 0) EXCEPT !.Err = "err", !.done = 1]]
    /\ pc' = [pc EXCEPT ![c] = "done"]
    /\ UNCHANGED <<pending, timers, firing, chanEvent, others, admitted, lost, crashed, returned,
                   queue, serving, pushing, replies>>

\* The rest of selfNodeRpcHandlerGo: the entry is made before the push, which the 15 s
\* of callRpcTimeout are taken to outlast. A full queue leaves Err and a token in the
\* Call and does not take the entry back.
selfNodeRpcHandlerGo(c) ==
    /\ pc[c] = "lock"
    /\ LockFree
    /\ AddPending(my[c].seq, my[c].call)
    /\ IF QueueFull
       THEN /\ call' = [call EXCEPT ![my[c].call].Err = "err", ![my[c].call].done = 1]
            /\ UNCHANGED queue
       ELSE /\ queue' = Append(queue, [kind |-> "call", call |-> my[c].call, seq |-> my[c].seq])
            /\ UNCHANGED call
    /\ pc' = [pc EXCEPT ![c] = "done"]
    /\ UNCHANGED <<startSeq, firing, chanEvent, others, admitted, lost, crashed, returned,
                   my, serving, pushing, replies>>

\* asyncCallRpc runs the callback itself when selfNodeRpcHandlerAsyncGo fails.
CallbackAtOnce(s) == Return(s, "err")

\* The rest of selfNodeRpcHandlerAsyncGo. When the push fails entry and Call stay
\* behind.
selfNodeRpcHandlerAsyncGo(h) ==
    /\ pc[h] = "lock"
    /\ LockFree
    /\ AddPending(my[h].seq, my[h].call)
    /\ IF QueueFull
       THEN CallbackAtOnce(my[h].seq) /\ UNCHANGED queue
       ELSE /\ queue' = Append(queue, [kind |-> "async", call |-> my[h].call, seq |-> my[h].seq])
            /\ UNCHANGED returned
    /\ pc' = [pc EXCEPT ![h] = "idle"]
    /\ my' = [my EXCEPT ![h] = Idle]
    /\ UNCHANGED <<call, startSeq, firing, chanEvent, others, admitted, lost, crashed,
                   serving, pushing, replies>>

\* goRpc: the Call only brings back the error of a failed push and is released at
\* once; nobody else has seen it.
goRpc ==
    /\ startSeq < MaxSeq
    /\ startSeq' = startSeq + 1
    /\ \E k \in Pooled :
        queue' = IF QueueFull THEN queue
                 ELSE Append(queue, [kind |-> "go", call |-> k, seq |-> startSeq'])
    /\ UNCHANGED <<call, pending, timers, firing, chanEvent, others, admitted, lost, crashed, returned,
                   pc, my, serving, pushing, replies>>

\* callRpc: pCall.Done().Err, then ReleaseCall.
Done(c) ==
    /\ pc[c] = "done"
    /\ call[my[c].call].done = 1
    /\ Return(my[c].seq, call[my[c].call].Err)
    /\ ReleaseCall(my[c].call)
    /\ pc' = [pc EXCEPT ![c] = "idle"]
    /\ my' = [my EXCEPT ![c] = Idle]
    /\ UNCHANGED <<startSeq, pending, timers, firing, chanEvent, others, admitted, lost,
                   queue, serving, pushing, replies>>

-----------------------------------------------------------------------------
(* The called side *)

\* Service.Run takes the request and HandlerRpcRequest starts on it.
HandlerRpcRequest ==
    /\ queue # <<>>
    /\ serving' = serving \cup {r \in {Head(queue)} : r.kind # "go"}
    /\ queue' = Tail(queue)
    /\ UNCHANGED <<tableVars, pc, my, pushing, replies>>

\* The closure of selfNodeRpcHandlerGo. It reads pCall.Seq when it runs, and
\* whatever call it finds under that number it takes for its own.
HandleReply(r, e) ==
    /\ LET s == call[r.call].Seq
       IN IF s \in Seqs /\ pending[s] # None
          THEN /\ call[r.call].done = 0
               /\ RemovePending(s)
               /\ call' = [call EXCEPT ![r.call].Err = e, ![r.call].done = 1]
          ELSE UNCHANGED <<call, pending>>
    /\ UNCHANGED <<crashed, pushing>>

\* Fault: a reply that is an error is not pushed.
HandleAsyncReplyQuiet(r, e) ==
    IF pending[r.seq] # None
    THEN /\ RemovePending(r.seq)
         /\ call' = [call EXCEPT ![r.call].Err = e]
         /\ pushing' = IF e = "nil" THEN pushing \cup {r} ELSE pushing
         /\ UNCHANGED crashed
    ELSE /\ ReleaseCall(r.call)
         /\ UNCHANGED <<pending, pushing>>

\* The closure of selfNodeRpcHandlerAsyncGo up to the push. It removes by the number
\* it captured; if the entry is gone it releases the Call it captured.
HandleAsyncReply(r, e) ==
    IF pending[r.seq] # None
    THEN /\ RemovePending(r.seq)
         /\ call' = [call EXCEPT ![r.call].Err = e]
         /\ pushing' = pushing \cup {r}
         /\ UNCHANGED crashed
    ELSE /\ ReleaseCall(r.call)
         /\ UNCHANGED <<pending, pushing>>

\* The method returns, panics and is recovered, or its Responder is called, maybe
\* much later: handleReply runs, which takes pendingLock. `kept` says that a Responder
\* is still around that somebody will call.
Reply(r, e, kept) ==
    /\ LockFree
    /\ kept => ~MethodsSound
    /\ serving' = IF kept THEN serving ELSE serving \ {r}
    /\ replies' = replies \cup {[seq |-> r.seq, Err |-> e]}
    /\ IF r.kind = "async" THEN HandleAsyncReply(r, e) ELSE HandleReply(r, e)
    /\ UNCHANGED <<startSeq, timers, firing, chanEvent, others, admitted, lost, returned, pc, my, queue>>

\* The closure's pCall.rpcHandler.PushRpcResponse(pCall), without the lock. A Call that
\* somebody has cleared has no rpcHandler: the nil call panics, and so does the second
\* handleReply that the recover makes.
PushReply(r) ==
    /\ IF call[r.call].callback = None
       THEN crashed' = TRUE /\ UNCHANGED <<chanEvent, admitted, lost>>
       ELSE PushRpcResponse(<<"reply", r.seq>>, call[r.call].callback, r.call) /\ UNCHANGED crashed
    /\ pushing' = pushing \ {r}
    /\ UNCHANGED <<call, startSeq, pending, timers, firing, others, returned, pc, my, queue,
                   serving, replies>>

\* Fault: the closure releases the Call whose result it cannot convert.
NoReplyReleases(r) ==
    /\ serving' = serving \ {r}
    /\ ReleaseCall(r.call)
    /\ UNCHANGED <<startSeq, pending, timers, firing, chanEvent, others, admitted, lost, returned,
                   pc, my, queue, pushing, replies>>

\* The Responder is never called, or the closure of selfNodeRpcHandlerGo cannot
\* convert the result and returns.
NoReply(r) ==
    /\ serving' = serving \ {r}
    /\ UNCHANGED <<tableVars, pc, my, queue, pushing, replies>>

-----------------------------------------------------------------------------
(* Timeout, callback and the other events of a service *)

\* The reply to s may still come.
Unanswered(s) == \E r \in serving \cup {queue[i] : i \in DOMAIN queue} : r.seq = s

handleRpcCallTimeout(s) ==
    /\ MethodsTimely => ~Unanswered(s)
    /\ FireTimeout(s)
    /\ UNCHANGED localVars

FinishTimeout == DeliverTimeout /\ UNCHANGED localVars

\* A closure or the timeout passes the test of pushEvent.
Admission ==
    /\ (\E r \in pushing : Admit(<<"reply", r.seq>>, r.call)) \/ AdmitTimeout
    /\ UNCHANGED localVars

RunCallback(h) ==
    /\ pc[h] = "idle"
    /\ \E panics \in BOOLEAN : HandlerRpcResponseCB(h, panics)
    /\ UNCHANGED localVars

OtherEvent(h) == PushOther(h) /\ UNCHANGED localVars

HandleOther(h) ==
    /\ pc[h] = "idle"
    /\ TakeOther(h)
    /\ UNCHANGED localVars

-----------------------------------------------------------------------------
Answering ==
    \E r \in serving :
        (\E e \in {"nil", "err"}, kept \in BOOLEAN : Reply(r, e, kept)) \/ NoReply(r)

Next ==
    \/ \E p \in Procs : NewLocalCall(p)
    \/ \E c \in Callers : selfNodeRpcHandlerGo(c) \/ ServiceNotFound(c) \/ Done(c)
    \/ \E h \in Handlers : \/ selfNodeRpcHandlerAsyncGo(h) \/ RunCallback(h)
                           \/ OtherEvent(h) \/ HandleOther(h)
    \/ goRpc
    \/ HandlerRpcRequest
    \/ Answering
    \/ Admission \/ \E r \in pushing : PushReply(r)
    \/ \E s \in Seqs : handleRpcCallTimeout(s)
    \/ FinishTimeout

\* Runnable goroutines run and armed timers expire; goroutines blocked on a channel
\* get their turn. A method is not required to reply: NoReply is one of the ways its
\* part may end.
Fairness ==
    /\ \A c \in Callers : WF_vars(selfNodeRpcHandlerGo(c) \/ Done(c))
    /\ \A h \in Handlers :
        /\ WF_vars(selfNodeRpcHandlerAsyncGo(h))
        /\ WF_vars(RunCallback(h))
        /\ WF_vars(HandleOther(h))
    /\ WF_vars(HandlerRpcRequest)
    /\ WF_vars(Answering)
    /\ WF_vars(Admission)
    /\ SF_vars(\E r \in pushing : PushReply(r))
    /\ \A s \in Seqs : WF_vars(handleRpcCallTimeout(s))
    /\ SF_vars(FinishTimeout)

Spec == Init /\ [][Next]_vars
FairSpec == Spec /\ Fairness

-----------------------------------------------------------------------------
(* Properties *)

\* The outcome a caller or callback gets is the one the callee produced for that very
\* call: a Call recycled by the pool does not carry an old reply into a new call. The
\* code breaks it: the closure of a synchronous call reads the number from the Call when
\* it runs, however late that is.
OwnReply ==
    \A s \in Seqs : \A i \in DOMAIN returned[s] :
        returned[s][i] = "nil" => [seq |-> s, Err |-> "nil"] \in replies

\* Every Call out of the pool is in somebody's hands, whichever of the reply, the
\* missing reply and the timeout comes: unless its response was refused by a full
\* queue or its callback panicked.
LocalNoLeak ==
    \A k \in Calls : call[k].ref =>
        \/ \E p \in Procs : my[p].call = k
        \/ \E s \in Seqs : pending[s] = k
        \/ \E r \in pushing : r.call = k
        \/ \E h \in Handlers : \E i \in DOMAIN chanEvent[h] : chanEvent[h][i] = k
        \/ k \in lost

\* Everyone waits on everyone: the timeout holds pendingLock until a service takes
\* something from its full queue, and the service waits for pendingLock in AddPending.
Deadlocked == \E h \in Handlers : HeldUp(h) /\ pc[h] = "lock"

\* Every local call that became pending is answered in the end, by the reply or by
\* the timeout, unless a full queue refused the response or the timeout and a service
\* wait on each other.
EventuallyReturned == \A s \in Seqs : pending[s] # None ~> (Settled(s) \/ Deadlocked)
=============================================================================
