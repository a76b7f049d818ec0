----------------------------- MODULE RpcClient -----------------------------
(***************************************************************************)
(* RpcClient of jrpc/rpcclient.go talking to a remote node, together with  *)
(* the code of jrpc/rpchandler.go that calls it: callRpc (synchronous),    *)
(* goRpc (no reply wanted) and asyncCallRpc (with a callback).             *)
(*                                                                         *)
(* Goroutines: one per member of Callers, running callRpc or goRpc; one    *)
(* per member of Handlers, a service issuing asynchronous calls and        *)
(* running the callbacks queued for it; the reader, which is the           *)
(* connection's agent; and one per expired timer. Their steps are split    *)
(* where another goroutine can observe a Call half-way.                    *)
(*                                                                         *)
(* The remote node is open: it may answer any request it received, with a  *)
(* result or an error, or never. RpcServer supplies the real one.          *)
(***************************************************************************)
EXTENDS CallTable

CONSTANTS Callers,      \* goroutines that run callRpc and goRpc
          MaxConns,     \* bound on the connections made
          CallerTimely  \* TRUE: a reply never overtakes its caller on the few
                        \* instructions from WriteMsg to Done(). FALSE: it may.

ASSUME RpcClientAssumption ==
    /\ MaxConns \in Nat
    /\ CallerTimely \in BOOLEAN
    /\ None \notin Callers
    /\ Callers \cap Handlers = {}

VARIABLES pc,        \* where each goroutine is in the issue path
          my,        \* its local variables: the Call, its seq, noReply
          conn,      \* number of the connection in client.conn, 0 for nil
          isOpen,    \* that connection is not closed
          reader,    \* the Call the reader has removed and not yet strobed
          requests,  \* requests on their way on the open connection
          responses, \* responses on their way back
          answers    \* history: every response the server produced

netVars == <<conn, isOpen, requests, responses, answers>>
clientVars == <<pc, my, reader>>
vars == <<tableVars, clientVars, netVars>>

Procs == Callers \cup Handlers

\* `seq` is the number generated for the goroutine's call, 0 when none was;
\* unlike Call.Seq it survives what others do to the pooled object.
NoLocal == [call |-> None, seq |-> 0, noReply |-> FALSE]
Locals == [call : Calls \cup {None}, seq : 0..MaxSeq, noReply : BOOLEAN]

Requests == [seq : Seqs, noReply : BOOLEAN]
Responses == [seq : Seqs, Err : {"nil", "err"}]

Init ==
    /\ TableInit
    /\ pc = [p \in Procs |-> "idle"]
    /\ my = [p \in Procs |-> NoLocal]
    /\ conn = 0 /\ isOpen = FALSE
    /\ reader = None
    /\ requests = {} /\ responses = {} /\ answers = {}

\* The issue path of seq has not yet reached Done() or handed the call over.
Issuing(s) == \E p \in Procs : pc[p] \in {"lock", "write", "check"} /\ my[p].seq = s

-----------------------------------------------------------------------------
(* Issuing a call *)

\* Go and RawGo when encoding fails or there is no connection yet: the Call
\* comes back with Err set and Seq 0, and was never pending. An encoding error
\* in Go comes before generateSeq, the other two after it.
RawGoFails(c, noReply) ==
    /\ pc[c] = "idle"
    /\ \E k \in Pooled, s \in {startSeq, startSeq + 1} :
        /\ s <= MaxSeq
        /\ startSeq' = s
        /\ call' = [call EXCEPT ![k] = [InUse(k, 0) EXCEPT !.Err = "err"]]
        /\ my' = [my EXCEPT ![c] = [call |-> k, noReply |-> noReply,
                                    seq |-> IF s = startSeq THEN 0 ELSE s]]
    /\ pc' = [pc EXCEPT ![c] = "check"]
    /\ UNCHANGED <<pending, timers, chanEvent, others, admitted, lost, crashed, reader, firing, returned, netVars>>

\* RawGo up to AddPending, or to the write when no reply is wanted: NewCall and
\* generateSeq.
RawGo(c, noReply) ==
    /\ pc[c] = "idle"
    /\ conn # 0
    /\ startSeq < MaxSeq
    /\ startSeq' = startSeq + 1
    /\ \E k \in Pooled :
        /\ call' = [call EXCEPT ![k] = InUse(k, startSeq')]
        /\ my' = [my EXCEPT ![c] = [call |-> k, seq |-> startSeq', noReply |-> noReply]]
    /\ pc' = [pc EXCEPT ![c] = IF noReply THEN "write" ELSE "lock"]
    /\ UNCHANGED <<pending, timers, chanEvent, others, admitted, lost, crashed, reader, firing,
                   returned, netVars>>

\* asyncCallRpc when AsyncCall fails before it takes a Call: the callback runs
\* at once with the error.
AsyncCallFails(h) ==
    /\ pc[h] = "idle"
    /\ startSeq < MaxSeq
    /\ startSeq' = startSeq + 1
    /\ Return(startSeq', "err")
    /\ UNCHANGED <<call, pending, timers, chanEvent, others, admitted, lost, crashed, pc, my, reader,
                   firing, netVars>>

\* AsyncCall up to AddPending. The service's goroutine is inside the call from here
\* on, and takes nothing from its queue.
AsyncCall(h) ==
    /\ pc[h] = "idle"
    /\ conn # 0
    /\ startSeq < MaxSeq
    /\ startSeq' = startSeq + 1
    /\ \E k \in Pooled :
        /\ call' = [call EXCEPT ![k] = [InUse(k, startSeq') EXCEPT !.callback = h]]
        /\ my' = [my EXCEPT ![h] = [call |-> k, seq |-> startSeq', noReply |-> FALSE]]
    /\ pc' = [pc EXCEPT ![h] = "lock"]
    /\ UNCHANGED <<pending, timers, chanEvent, others, admitted, lost, crashed, reader, firing,
                   returned, netVars>>

\* AddPending, once pendingLock is free.
EnterPending(p) ==
    /\ pc[p] = "lock"
    /\ LockFree
    /\ AddPending(my[p].seq, my[p].call)
    /\ pc' = [pc EXCEPT ![p] = "write"]
    /\ UNCHANGED <<call, startSeq, chanEvent, others, admitted, lost, crashed, my, reader, firing,
                   returned, netVars>>

\* Where a goroutine goes once WriteMsg returned nil: callRpc and goRpc look at
\* the Call, asyncCallRpc is finished.
AfterWrite(p) ==
    /\ pc' = [pc EXCEPT ![p] = IF p \in Callers THEN "check" ELSE "idle"]
    /\ my' = IF p \in Callers THEN my ELSE [my EXCEPT ![p] = NoLocal]

\* conn.WriteMsg queues the request on the connection.
WriteMsg(p) ==
    /\ pc[p] = "write"
    /\ isOpen
    /\ requests' = requests \cup {[seq |-> my[p].seq, noReply |-> my[p].noReply]}
    /\ AfterWrite(p)
    /\ UNCHANGED <<tableVars, reader, conn, isOpen, responses, answers>>

\* The connection's queue is full: it is destroyed, but MsgParser.WriteMsg drops
\* the error of conn.Write and reports success.
WriteMsgDropped(p) ==
    /\ pc[p] = "write"
    /\ isOpen
    /\ isOpen' = FALSE /\ requests' = {} /\ responses' = {}
    /\ AfterWrite(p)
    /\ UNCHANGED <<tableVars, reader, conn, answers>>

\* Fault: RawGo releases the Call on a failed write, as AsyncCall does.
WriteMsgFailsReleases(p) ==
    /\ pc[p] = "write"
    /\ LockFree
    /\ RemovePending(call[my[p].call].Seq)
    /\ ReleaseCall(my[p].call)
    /\ pc' = [pc EXCEPT ![p] = IF p \in Callers THEN "check" ELSE "idle"]
    /\ my' = IF p \in Callers THEN my ELSE [my EXCEPT ![p] = NoLocal]
    /\ UNCHANGED <<startSeq, timers, chanEvent, others, admitted, lost, returned, reader, firing, netVars>>

\* Fault: AsyncCall does not release it.
WriteMsgFailsLeaks(p) ==
    /\ pc[p] = "write"
    /\ LockFree
    /\ RemovePending(call[my[p].call].Seq)
    /\ pc' = [pc EXCEPT ![p] = IF p \in Callers THEN "check" ELSE "idle"]
    /\ my' = IF p \in Callers THEN my ELSE [my EXCEPT ![p] = NoLocal]
    /\ call' = IF p \in Callers
               THEN [call EXCEPT ![my[p].call].Seq = 0, ![my[p].call].Err = "err"] ELSE call
    /\ UNCHANGED <<startSeq, timers, chanEvent, others, admitted, lost, crashed, returned, reader, firing, netVars>>

\* conn.WriteMsg fails: the connection is closed, or the message is too long.
\* RawGo leaves the error in the Call; AsyncCall releases the Call and
\* asyncCallRpc runs the callback itself.
WriteMsgFails(p) ==
    /\ pc[p] = "write"
    /\ LockFree
    /\ RemovePending(call[my[p].call].Seq)
    /\ IF p \in Callers
       THEN /\ call' = [call EXCEPT ![my[p].call].Seq = 0, ![my[p].call].Err = "err"]
            /\ pc' = [pc EXCEPT ![p] = "check"]
            /\ UNCHANGED <<my, crashed, returned>>
       ELSE /\ ReleaseCall(my[p].call)
            /\ Return(my[p].seq, "err")
            /\ pc' = [pc EXCEPT ![p] = "idle"]
            /\ my' = [my EXCEPT ![p] = NoLocal]
    /\ UNCHANGED <<startSeq, timers, chanEvent, others, admitted, lost, reader, firing, netVars>>

\* The caller is finished with its Call: it takes the error out and releases it.
Finish(c) ==
    /\ ReleaseCall(my[c].call)
    /\ IF my[c].noReply THEN UNCHANGED returned
                        ELSE Return(my[c].seq, call[my[c].call].Err)
    /\ pc' = [pc EXCEPT ![c] = "idle"]
    /\ my' = [my EXCEPT ![c] = NoLocal]
    /\ UNCHANGED <<startSeq, pending, timers, chanEvent, others, admitted, lost, reader, firing, netVars>>

\* Fault: callRpc does not wait for Done().
CheckErrOnly(c) ==
    /\ pc[c] = "check"
    /\ Finish(c)

\* goRpc, and callRpc on `if pCall.Err != nil`: release without Done().
CheckErr(c) ==
    /\ pc[c] = "check"
    /\ call[my[c].call].Err # "nil" \/ my[c].noReply
    /\ Finish(c)

\* callRpc goes on to wait.
EnterDone(c) ==
    /\ pc[c] = "check"
    /\ call[my[c].call].Err = "nil" /\ ~my[c].noReply
    /\ pc' = [pc EXCEPT ![c] = "done"]
    /\ UNCHANGED <<tableVars, my, reader, netVars>>

\* Call.Done() receives the token, then ReleaseCall.
Done(c) ==
    /\ pc[c] = "done"
    /\ call[my[c].call].done = 1
    /\ Finish(c)

-----------------------------------------------------------------------------
(* Completing a call *)

\* RpcClientAgent.Run takes a response off the connection, removes its entry
\* and writes Err. A response nobody waits for is logged.
ReadResponse(m) ==
    /\ isOpen
    /\ reader = None
    /\ LockFree
    /\ CallerTimely => ~Issuing(m.seq)
    /\ responses' = responses \ {m}
    /\ IF pending[m.seq] = None
       THEN UNCHANGED <<call, pending, reader>>
       ELSE /\ reader' = pending[m.seq]
            /\ call' = [call EXCEPT ![pending[m.seq]].Err = m.Err]
            /\ RemovePending(m.seq)
    /\ UNCHANGED <<startSeq, timers, chanEvent, others, admitted, lost, crashed, pc, my, firing, returned,
                   conn, isOpen, requests, answers>>

\* A response that cannot be decoded is skipped.
SkipResponse(m) ==
    /\ isOpen
    /\ reader = None
    /\ responses' = responses \ {m}
    /\ UNCHANGED <<tableVars, clientVars, conn, isOpen, requests, answers>>

\* The last part of Run's loop body: the send of PushRpcResponse, or done <- v.
DeliverResponse ==
    /\ reader # None
    /\ Strobe(<<"reader">>, reader)
    /\ reader' = None
    /\ UNCHANGED <<startSeq, pending, timers, others, crashed, pc, my, firing, returned, netVars>>

\* The timeout of seq s. The 15 s of callRpcTimeout are taken to outlast what is left
\* of the issue path of s once its timer is armed.
handleRpcCallTimeout(s) ==
    /\ ~Issuing(s)
    /\ FireTimeout(s)
    /\ UNCHANGED <<clientVars, netVars>>

FinishTimeout == DeliverTimeout /\ UNCHANGED <<clientVars, netVars>>

\* The reader or the timeout passes the test of pushEvent.
Admission ==
    /\ (reader # None /\ Admit(<<"reader">>, reader)) \/ AdmitTimeout
    /\ UNCHANGED <<clientVars, netVars>>

RunCallback(h) ==
    /\ pc[h] = "idle"
    /\ \E panics \in BOOLEAN : HandlerRpcResponseCB(h, panics)
    /\ UNCHANGED <<clientVars, netVars>>

OtherEvent(h) == PushOther(h) /\ UNCHANGED <<clientVars, netVars>>

HandleOther(h) ==
    /\ pc[h] = "idle"
    /\ TakeOther(h)
    /\ UNCHANGED <<clientVars, netVars>>

-----------------------------------------------------------------------------
(* The connection and the remote node *)

\* TcpClient.connect: one goroutine dials, runs the agent and dials again, so a
\* new connection is made only when the reader is out of Run. NewAgent stores it.
Connect ==
    /\ ~isOpen /\ reader = None
    /\ conn < MaxConns
    /\ conn' = conn + 1
    /\ isOpen' = TRUE
    /\ UNCHANGED <<tableVars, clientVars, requests, responses, answers>>

\* The connection breaks, with everything on it.
Disconnect ==
    /\ isOpen
    /\ isOpen' = FALSE /\ requests' = {} /\ responses' = {}
    /\ UNCHANGED <<tableVars, clientVars, conn, answers>>

\* The remote node answers a request, one that wanted no reply included.
Answer(q, e) ==
    /\ requests' = requests \ {q}
    /\ responses' = responses \cup {[seq |-> q.seq, Err |-> e]}
    /\ answers' = answers \cup {[seq |-> q.seq, Err |-> e]}
    /\ UNCHANGED <<tableVars, clientVars, conn, isOpen>>

\* The remote node takes a request and never answers it.
Ignore(q) ==
    /\ requests' = requests \ {q}
    /\ UNCHANGED <<tableVars, clientVars, conn, isOpen, responses, answers>>

-----------------------------------------------------------------------------
Issue(p) == EnterPending(p) \/ WriteMsg(p) \/ WriteMsgDropped(p) \/ WriteMsgFails(p)

CallerNext(c) ==
    \/ \E noReply \in BOOLEAN : RawGo(c, noReply) \/ RawGoFails(c, noReply)
    \/ Issue(c)
    \/ CheckErr(c) \/ EnterDone(c) \/ Done(c)

HandlerNext(h) ==
    \/ AsyncCall(h) \/ AsyncCallFails(h)
    \/ Issue(h)
    \/ RunCallback(h) \/ OtherEvent(h) \/ HandleOther(h)

ClientNext ==
    \/ \E c \in Callers : CallerNext(c)
    \/ \E h \in Handlers : HandlerNext(h)
    \/ \E m \in responses : ReadResponse(m) \/ SkipResponse(m)
    \/ Admission \/ DeliverResponse
    \/ \E s \in Seqs : handleRpcCallTimeout(s)
    \/ FinishTimeout
    \/ Connect \/ Disconnect

RemoteNext ==
    \E q \in requests : (\E e \in {"nil", "err"} : Answer(q, e)) \/ Ignore(q)

Next == ClientNext \/ RemoteNext

\* Go schedules every runnable goroutine, and an armed timer expires: a step of
\* a goroutine that stays enabled is taken. Goroutines blocked on a channel are
\* served in the order they came, so one whose send becomes possible again and
\* again gets its turn. Nothing is assumed of the network, of the remote node or of
\* whether anyone makes another call or sends another event.
Fairness ==
    /\ \A c \in Callers : WF_vars(Issue(c) \/ CheckErr(c) \/ EnterDone(c) \/ Done(c))
    /\ \A h \in Handlers :
        /\ WF_vars(Issue(h))
        /\ WF_vars(RunCallback(h))
        /\ WF_vars(HandleOther(h))
    /\ WF_vars(Admission)
    /\ SF_vars(DeliverResponse)
    /\ SF_vars(FinishTimeout)
    /\ \A s \in Seqs : WF_vars(handleRpcCallTimeout(s))

Spec == Init /\ [][Next]_vars
FairSpec == Spec /\ Fairness

-----------------------------------------------------------------------------
(* Properties *)

TypeOK ==
    /\ TableTypeOK
    /\ admitted \subseteq {<<"reader">>, <<"timeout">>}
    /\ pc \in [Procs -> {"idle", "lock", "write", "check", "done"}]
    /\ my \in [Procs -> Locals]
    /\ conn \in 0..MaxConns
    /\ isOpen \in BOOLEAN
    /\ reader \in Calls \cup {None}
    /\ requests \subseteq Requests
    /\ responses \subseteq Responses
    /\ answers \subseteq Responses

\* Success is reported for a call only if the remote node answered that call,
\* with its own sequence number, successfully.
NoPhantomReply ==
    \A s \in Seqs : \A i \in DOMAIN returned[s] :
        returned[s][i] = "nil" => [seq |-> s, Err |-> "nil"] \in answers

\* Every Call out of the pool is in somebody's hands, unless its response was
\* refused by a full queue or its callback panicked.
NoLeak ==
    \A k \in Calls : call[k].ref =>
        \/ \E p \in Procs : my[p].call = k
        \/ \E s \in Seqs : pending[s] = k
        \/ reader = k
        \/ \E h \in Handlers : \E i \in DOMAIN chanEvent[h] : chanEvent[h][i] = k
        \/ k \in lost

\* Everyone waits on everyone: the timeout holds pendingLock until a service takes
\* something from its full queue, and the service is in AsyncCall, waiting for
\* pendingLock to make an entry or to take it back.
Deadlocked ==
    \E h \in Handlers :
        /\ HeldUp(h)
        /\ pc[h] = "lock" \/ (pc[h] = "write" /\ ~isOpen)

\* Every call that became pending is answered in the end: its user gets the reply,
\* an error or the timeout, unless a full queue refused the response, or the timeout
\* and a service wait on each other.
EventuallyReturned == \A s \in Seqs : pending[s] # None ~> (Settled(s) \/ Deadlocked)

\* AddPending gives each pending call "a function that handles the timeout of the
\* rpc call": with it, the call ends however busy its service is. The code breaks it:
\* the handler may wait for a service that waits for its lock.
TimeoutIsHandled == \A s \in Seqs : pending[s] # None ~> Settled(s)
=============================================================================
