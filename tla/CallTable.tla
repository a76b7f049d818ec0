----------------------------- MODULE CallTable -----------------------------
(***************************************************************************)
(* The bookkeeping every RPC path of a client shares: the pool of Call     *)
(* objects (jrpc/rpc.go, memorypool/mempool.go), the table of pending      *)
(* calls keyed by sequence number and the timers armed for them            *)
(* (jrpc/rpcclient.go).                                                    *)
(*                                                                         *)
(* A Call is a pooled Go object that callers, the connection's reader, the *)
(* timer goroutines and the services all reach through pointers, so it is  *)
(* modelled by identity: `call[k]` holds the fields of object k whether or *)
(* not k is in the pool.                                                   *)
(***************************************************************************)
EXTENDS Naturals, Sequences, FiniteSets

CONSTANTS Calls,     \* the Call objects the pool hands out
          Handlers,  \* the services that pass callbacks
          MaxSeq,    \* bound on the sequence numbers generated
          MaxEvents, \* maxServiceEventChannel, the limit pushEvent tests
          ChanCap,   \* capacity of a service's chanEvent (SetEventChannelNum)
          MaxOthers, \* bound on the other events waiting in a service's queue
          None       \* nil

ASSUME CallTableAssumption ==
    /\ MaxSeq \in Nat
    /\ MaxEvents \in Nat
    /\ ChanCap \in Nat \ {0}
    /\ MaxOthers \in Nat
    /\ None \notin Calls
    /\ None \notin Handlers

VARIABLES call,      \* the fields of every Call object
          startSeq,  \* RpcClient.startSeq, the last number generated
          pending,   \* RpcClient.pending, seq -> Call
          timers,    \* the seqs whose timeout is still armed in GlobelTimer
          firing,    \* the timeout handler that holds pendingLock, and its Call
          chanEvent, \* Service.chanEvent of each service: the responses queued
          others,    \* the number of requests, timers and events queued with them
          admitted,  \* the goroutines between the test of pushEvent and its send:
                     \* <<"reader">>, <<"timeout">>, or <<"reply", seq>> of LocalRpc
          lost,      \* Calls nobody will release: PushRpcResponse refused them or
                     \* their callback panicked
          crashed,   \* PoolEx.Put has panicked with "Repeatedly freeing memory"
          returned   \* history: what each seq's user was told, in order

tableVars == <<call, startSeq, pending, timers, firing, chanEvent, others, admitted,
               lost, crashed, returned>>

Seqs == 1..MaxSeq

\* Call.Err. A reply error and a local send error differ from a timeout only
\* in who wrote them.
Errs == {"nil", "err", "timeout"}

\* The fields of a Call that the control flow reads. `callback` names the
\* service whose callback the call carries; `done` is the number of tokens in
\* the channel of capacity 1.
CallRecords == [ref : BOOLEAN, Seq : 0..MaxSeq, Err : Errs,
                callback : Handlers \cup {None}, done : 0..1]

\* The object as Call.Clear and UnRef leave it. A non-empty done channel is
\* replaced by an empty one.
Cleared == [ref |-> FALSE, Seq |-> 0, Err |-> "nil", callback |-> None, done |-> 0]

NoHold == [seq |-> 0, call |-> None]

TableInit ==
    /\ call = [k \in Calls |-> Cleared]
    /\ startSeq = 0
    /\ pending = [s \in Seqs |-> None]
    /\ timers = {}
    /\ firing = NoHold
    /\ chanEvent = [h \in Handlers |-> <<>>]
    /\ others = [h \in Handlers |-> 0]
    /\ admitted = {}
    /\ lost = {}
    /\ crashed = FALSE
    /\ returned = [s \in Seqs |-> <<>>]

\* pendingLock is held across steps only by the timeout handler.
LockFree == firing.call = None

\* The user of sequence number s is told outcome e.
Return(s, e) ==
    returned' = [q \in Seqs |-> IF q = s THEN Append(returned[q], e) ELSE returned[q]]

\* PoolEx.Get: some object that is not in use. The channel behind the pool is
\* first in first out and grows on demand; any free object stands for both.
Pooled == {k \in Calls : ~call[k].ref}

\* Fault: the Call gets the number after the one generated for it.
InUseWrongSeq(k, seq) == [call[k] EXCEPT !.ref = TRUE, !.Seq = seq + 1]

\* NewCall, and the number given to the Call. PoolEx.Get marks the object as in
\* use; the other fields are what Put and later writers left there.
InUse(k, seq) == [call[k] EXCEPT !.ref = TRUE, !.Seq = seq]

\* PoolEx.Put: panics when the object is already free, otherwise clears it.
ReleaseCall(k) ==
    /\ call' = IF call[k].ref THEN [call EXCEPT ![k] = Cleared] ELSE call
    /\ crashed' = (crashed \/ ~call[k].ref)

\* Fault: the timer is not created.
AddPendingUntimed(s, k) ==
    /\ pending' = [pending EXCEPT ![s] = k]
    /\ UNCHANGED timers

\* RpcClient.AddPending: the entry and its timer are made under pendingLock.
AddPending(s, k) ==
    /\ pending' = [pending EXCEPT ![s] = k]
    /\ timers' = timers \cup {s}

\* Fault: the entry is looked up and not deleted.
RemovePendingKeeps(s) == s \in 0..MaxSeq /\ UNCHANGED pending

\* RpcClient.removePending. pendingTimer is never filled in, so the timer stays
\* armed; sequence number 0 removes nothing.
RemovePending(s) == pending' = [q \in Seqs |-> IF q = s THEN None ELSE pending[q]]

\* len(s.chanEvent): responses share the queue with everything else a service does.
QueueLen(h) == Len(chanEvent[h]) + others[h]

\* The first half of PushRpcResponse: goroutine `who`, which holds the finished
\* Call k, passes the test of pushEvent.
Admit(who, k) ==
    /\ who \notin admitted
    /\ call[k].callback # None
    /\ QueueLen(call[k].callback) < MaxEvents
    /\ admitted' = admitted \cup {who}
    /\ UNCHANGED <<call, startSeq, pending, timers, firing, chanEvent, others, lost,
                   crashed, returned>>

\* The second half. A goroutine that passed the test sends, and blocks while the
\* channel is full; one that fails the test drops the Call, and no caller in jrpc
\* looks at the error.
PushRpcResponse(who, h, k) ==
    IF who \in admitted
    THEN /\ QueueLen(h) < ChanCap
         /\ chanEvent' = [chanEvent EXCEPT ![h] = Append(@, k)]
         /\ admitted' = admitted \ {who}
         /\ UNCHANGED lost
    ELSE /\ QueueLen(h) >= MaxEvents
         /\ lost' = lost \cup {k}
         /\ UNCHANGED <<chanEvent, admitted>>

\* How the reader and the timeout hand a finished call back: to the service of
\* its callback, or by strobing done, which blocks while a token is there.
Strobe(who, k) ==
    IF call[k].callback # None
    THEN PushRpcResponse(who, call[k].callback, k) /\ UNCHANGED call
    ELSE /\ call[k].done = 0
         /\ call' = [call EXCEPT ![k].done = 1]
         /\ UNCHANGED <<chanEvent, admitted, lost>>

\* Somebody sends the service a request, a timer or an event; Service.Run takes it
\* from the queue. Which of the events it takes next is left open.
PushOther(h) ==
    /\ QueueLen(h) < ChanCap
    /\ others[h] < MaxOthers
    /\ others' = [others EXCEPT ![h] = @ + 1]
    /\ UNCHANGED <<call, startSeq, pending, timers, firing, chanEvent, admitted, lost,
                   crashed, returned>>

TakeOther(h) ==
    /\ others[h] > 0
    /\ others' = [others EXCEPT ![h] = @ - 1]
    /\ UNCHANGED <<call, startSeq, pending, timers, firing, chanEvent, admitted, lost,
                   crashed, returned>>

\* Fault: Err is not written.
FireTimeoutSilently(s) ==
    /\ s \in timers
    /\ LockFree
    /\ timers' = timers \ {s}
    /\ firing' = IF pending[s] = None THEN firing ELSE [seq |-> s, call |-> pending[s]]
    /\ UNCHANGED <<call, startSeq, pending, chanEvent, others, admitted, lost, crashed, returned>>

\* handleRpcCallTimeout takes pendingLock, finds the call and writes Err. A call
\* that is gone is finished.
FireTimeout(s) ==
    /\ s \in timers
    /\ LockFree
    /\ timers' = timers \ {s}
    /\ IF pending[s] = None
       THEN UNCHANGED <<call, firing>>
       ELSE /\ call' = [call EXCEPT ![pending[s]].Err = "timeout"]
            /\ firing' = [seq |-> s, call |-> pending[s]]
    /\ UNCHANGED <<startSeq, pending, chanEvent, others, admitted, lost, crashed, returned>>

\* Fault: the entry is removed and nobody is told.
DeliverTimeoutUntold ==
    /\ firing.call # None
    /\ RemovePending(call[firing.call].Seq)
    /\ firing' = NoHold
    /\ UNCHANGED <<call, startSeq, timers, chanEvent, others, admitted, lost, crashed, returned>>

\* The test of pushEvent in the timeout, which holds pendingLock.
AdmitTimeout == firing.call # None /\ Admit(<<"timeout">>, firing.call)

\* The rest of it: removePending by the Seq the Call holds now, hand the call
\* over, and unlock. A send that blocks, blocks with pendingLock held.
DeliverTimeout ==
    /\ firing.call # None
    /\ RemovePending(call[firing.call].Seq)
    /\ Strobe(<<"timeout">>, firing.call)
    /\ firing' = NoHold
    /\ UNCHANGED <<startSeq, timers, others, crashed, returned>>

\* Service.Run takes a response event; HandlerRpcResponseCB runs the callback and
\* releases the Call. A panic in between is recovered and skips the release: the
\* callback's own, or that of a Call whose callback is nil again.
HandlerRpcResponseCB(h, panics) ==
    /\ chanEvent[h] # <<>>
    /\ LET k == Head(chanEvent[h]) IN
        IF call[k].callback = None
        THEN UNCHANGED <<call, lost, crashed, returned>>
        ELSE /\ Return(call[k].Seq, call[k].Err)
             /\ IF panics THEN lost' = lost \cup {k} /\ UNCHANGED <<call, crashed>>
                          ELSE ReleaseCall(k) /\ UNCHANGED lost
    /\ chanEvent' = [chanEvent EXCEPT ![h] = Tail(@)]
    /\ UNCHANGED <<startSeq, pending, timers, firing, others, admitted>>

-----------------------------------------------------------------------------
TableTypeOK ==
    /\ call \in [Calls -> CallRecords]
    /\ startSeq \in 0..MaxSeq
    /\ pending \in [Seqs -> Calls \cup {None}]
    /\ timers \subseteq Seqs
    /\ firing \in [seq : 0..MaxSeq, call : Calls \cup {None}]
    /\ chanEvent \in [Handlers -> Seq(Calls)]
    /\ others \in [Handlers -> 0..MaxOthers]
    /\ lost \subseteq Calls
    /\ crashed \in BOOLEAN
    /\ returned \in [Seqs -> Seq(Errs)]

\* An entry of the pending table is a live Call that still carries the entry's
\* number, and a timer stands behind it: removePending by call.Seq in the
\* timeout removes the right entry, and no entry can outlive its timeout.
PendingGuarded ==
    \A s \in Seqs : pending[s] # None =>
        /\ call[pending[s]].ref
        /\ call[pending[s]].Seq = s
        /\ s \in timers \/ firing.seq = s

\* A call completes once: of the reply, the timeout and the failed send exactly
\* one reaches the caller or its callback.
CompletedOnce == \A s \in Seqs : Len(returned[s]) <= 1

\* Done "strobes when call is complete", and pending holds the calls not
\* complete: whoever has been told the outcome of a call has no entry left.
DoneMeansComplete == \A s \in Seqs : returned[s] # <<>> => pending[s] = None

\* PoolEx.Put never finds an object that was released before.
NoDoubleFree == ~crashed

\* Service h is the timeout's prisoner: the timeout holds pendingLock and waits for
\* room in the queue of h.
HeldUp(h) ==
    /\ firing.call # None
    /\ call[firing.call].callback = h
    /\ <<"timeout">> \in admitted
    /\ QueueLen(h) >= ChanCap

\* The user of s was told, or the Call of s was dropped.
Settled(s) == returned[s] # <<>> \/ \E k \in lost : call[k].Seq = s
=============================================================================
