-------------------------- MODULE RpcSystemProofs --------------------------
(***************************************************************************)
(* A client node and a server node together, for any Calls, callers,       *)
(* services and bounds.                                                    *)
(*                                                                         *)
(* First, the server is one of the remote nodes RpcClient allows: every    *)
(* step of the system is a step of RpcClient, or none, under the mapping   *)
(* of `requests` to Answerable. It rests on numbers being used once: a     *)
(* number is in one request, and that is in one place.                     *)
(*                                                                         *)
(* Second, the invariant of RpcClientProofs holds in the system, and with  *)
(* what the server writes only after running a method it shows that a      *)
(* caller told of success had its method run.                              *)
(***************************************************************************)
EXTENDS RpcSystem, RpcClientProofs

ReqRecords == [ref : BOOLEAN, seq : 0..MaxSeq, reply : 0..MaxConns]
Responders == [req : Reqs, conn : 0..MaxConns]

ServerTypeOK ==
    /\ req \in [Reqs -> ReqRecords]
    /\ queue \in Seq(Reqs)
    /\ deferred \subseteq Responders

\* Object o is in use and its request is going to be answered.
Owed(o) == req[o].ref /\ req[o].reply # 0

\* Goroutine p has not yet written its request.
Sending(p) == pc[p] \in {"lock", "write"}

\* Numbers have been generated for one goroutine each.
LocalNumbers ==
    /\ \A p \in Procs : my[p].seq <= startSeq
    /\ \A p, q \in Procs : my[p].seq = my[q].seq /\ my[p].seq # 0 => p = q

\* A request that was written has a number nobody is going to write again.
Written(s) == s <= startSeq /\ \A p \in Procs : Sending(p) => my[p].seq # s

WrittenOnce ==
    /\ \A q \in requests : Written(q.seq)
    /\ \A o \in Reqs : Owed(o) => req[o].seq \in Seqs /\ Written(req[o].seq)

\* It is on the wire or in one object.
InOnePlace ==
    /\ \A q, r \in requests : q.seq = r.seq => q = r
    /\ \A q \in requests, o \in Reqs : Owed(o) => q.seq # req[o].seq
    /\ \A o, x \in Reqs : Owed(o) /\ Owed(x) /\ req[o].seq = req[x].seq => o = x

\* An object in use has one holder, the queue or one Responder, whose closure has the
\* connection of the object's own handleReply.
HeldOnce ==
    /\ \A i \in DOMAIN queue : req[queue[i]].ref
    /\ \A i, j \in DOMAIN queue : queue[i] = queue[j] => i = j
    /\ \A d \in deferred : Owed(d.req) /\ req[d.req].reply = d.conn
    /\ \A d, x \in deferred : d.req = x.req => d = x
    /\ \A i \in DOMAIN queue : \A d \in deferred : queue[i] # d.req

\* Only an open connection carries requests, and nothing came in on one not yet made.
WireOK ==
    /\ requests # {} => isOpen
    /\ isOpen => conn # 0
    /\ \A o \in Reqs : req[o].reply <= conn

SystemInv ==
    TypeInv /\ ServerTypeOK /\ LocalNumbers /\ WrittenOnce /\ InOnePlace /\ HeldOnce /\ WireOK

-----------------------------------------------------------------------------
(* What the client's steps do to numbers and requests *)

\* A step that writes no request: a goroutine keeps its locals, drops them, or has just
\* got a new number, and the wire is left alone or emptied.
Quiet ==
    /\ startSeq' >= startSeq
    /\ \A p \in Procs : \/ my'[p] = my[p] /\ (Sending(p)' => Sending(p))
                        \/ my'[p].seq = 0 /\ ~Sending(p)'
                        \/ /\ my'[p].seq = startSeq' /\ startSeq' > startSeq
                           /\ \A r \in Procs : r # p => my'[r] = my[r]
    /\ requests' = requests \/ requests' = {}
    /\ isOpen' \/ requests' = {}
    /\ conn' >= conn
    /\ isOpen' => isOpen \/ conn' # 0

LEMMA QuietCaller ==
  ASSUME SystemInv, NEW c \in Callers, CallerNext(c), ~WriteMsg(c)
  PROVE  Quiet
  <1>1. c \in Procs /\ startSeq \in Nat /\ conn \in Nat /\ my \in [Procs -> Locals]
        /\ pc \in [Procs -> {"idle", "lock", "write", "check", "done"}]
    BY CallTableAssumption, RpcClientAssumption DEF SystemInv, TypeInv, TypeOK, TableTypeOK, Procs
  <1>2. requests = {} \/ isOpen
    BY DEF SystemInv, WireOK
  <1>3. ASSUME NEW b \in BOOLEAN, RawGo(c, b) PROVE Quiet
    BY <1>1, <1>2, <1>3 DEF RawGo, Quiet, Sending, netVars
  <1>4. ASSUME NEW b \in BOOLEAN, RawGoFails(c, b) PROVE Quiet
    BY <1>1, <1>2, <1>4 DEF RawGoFails, Quiet, Sending, netVars
  <1>5. CASE WriteMsgDropped(c)
    BY <1>1, <1>5 DEF WriteMsgDropped, AfterWrite, tableVars, Quiet, Sending
  <1>6. CASE WriteMsgFails(c)
    BY <1>1, <1>2, <1>6 DEF WriteMsgFails, Quiet, Sending, netVars
  <1>9. CASE EnterPending(c)
    BY <1>1, <1>2, <1>9 DEF EnterPending, Quiet, Sending, netVars
  <1>7. CASE CheckErr(c) \/ Done(c)
    BY <1>1, <1>2, <1>7 DEF CheckErr, Done, Finish, Quiet, Sending, netVars, NoLocal
  <1>8. CASE EnterDone(c)
    BY <1>1, <1>2, <1>8 DEF EnterDone, Quiet, Sending, netVars, tableVars
  <1> QED BY <1>3, <1>4, <1>5, <1>6, <1>7, <1>8, <1>9 DEF CallerNext, Issue

LEMMA QuietHandler ==
  ASSUME SystemInv, NEW h \in Handlers, HandlerNext(h), ~WriteMsg(h)
  PROVE  Quiet
  <1>1. h \in Procs /\ h \notin Callers /\ startSeq \in Nat /\ conn \in Nat /\ my \in [Procs -> Locals]
        /\ pc \in [Procs -> {"idle", "lock", "write", "check", "done"}]
    BY CallTableAssumption, RpcClientAssumption DEF SystemInv, TypeInv, TypeOK, TableTypeOK, Procs
  <1>2. requests = {} \/ isOpen
    BY DEF SystemInv, WireOK
  <1>3. CASE AsyncCall(h)
    BY <1>1, <1>2, <1>3 DEF AsyncCall, Quiet, Sending, netVars
  <1>4. CASE AsyncCallFails(h)
    BY <1>1, <1>2, <1>4 DEF AsyncCallFails, Quiet, Sending, netVars
  <1>5. CASE WriteMsgDropped(h)
    BY <1>1, <1>5 DEF WriteMsgDropped, AfterWrite, tableVars, Quiet, Sending, NoLocal
  <1>6. CASE WriteMsgFails(h)
    BY <1>1, <1>2, <1>6 DEF WriteMsgFails, Quiet, Sending, netVars, NoLocal
  <1>7. CASE RunCallback(h)
    <2>1. UNCHANGED <<startSeq, pc, my, requests, isOpen, conn>>
      BY <1>7 DEF RunCallback, HandlerRpcResponseCB, clientVars, netVars
    <2> QED BY <1>1, <1>2, <2>1 DEF Quiet, Sending
  <1>8. CASE OtherEvent(h) \/ HandleOther(h)
    <2>1. UNCHANGED <<startSeq, pc, my, requests, isOpen, conn>>
      BY <1>8 DEF OtherEvent, HandleOther, PushOther, TakeOther, clientVars, netVars
    <2> QED BY <1>1, <1>2, <2>1 DEF Quiet, Sending
  <1>9. CASE EnterPending(h)
    BY <1>1, <1>2, <1>9 DEF EnterPending, Quiet, Sending, netVars
  <1> QED BY <1>3, <1>4, <1>5, <1>6, <1>7, <1>8, <1>9 DEF HandlerNext, Issue

LEMMA ClientMoves ==
  ASSUME SystemInv, ClientNext
  PROVE  Quiet \/ \E p \in Procs : WriteMsg(p)
  <1>1. startSeq \in Nat /\ conn \in Nat /\ (requests = {} \/ isOpen)
    BY CallTableAssumption, RpcClientAssumption DEF SystemInv, TypeInv, TypeOK, TableTypeOK, WireOK
  <1>2. CASE \E c \in Callers : CallerNext(c)
    BY <1>2, QuietCaller DEF Procs
  <1>3. CASE \E h \in Handlers : HandlerNext(h)
    BY <1>3, QuietHandler DEF Procs
  <1>4. CASE \E m \in responses : ReadResponse(m) \/ SkipResponse(m)
    <2>1. UNCHANGED <<startSeq, pc, my, requests, isOpen, conn>>
      BY <1>4 DEF ReadResponse, SkipResponse, tableVars, clientVars
    <2> QED BY <1>1, <2>1 DEF Quiet, Sending
  <1>5. CASE Admission \/ DeliverResponse \/ FinishTimeout \/ \E s \in Seqs : handleRpcCallTimeout(s)
    <2>1. UNCHANGED <<startSeq, pc, my, requests, isOpen, conn>>
      BY <1>5 DEF Admission, Admit, AdmitTimeout, DeliverResponse, FinishTimeout, DeliverTimeout,
                  handleRpcCallTimeout, FireTimeout,
                  clientVars, netVars
    <2> QED BY <1>1, <2>1 DEF Quiet, Sending
  <1>6. CASE Connect \/ Disconnect
    <2>1. UNCHANGED <<startSeq, pc, my>> /\ conn' >= conn /\ (requests' = requests \/ requests' = {})
          /\ (isOpen' \/ requests' = {}) /\ (isOpen' => isOpen \/ conn' # 0)
      BY <1>1, <1>6 DEF Connect, Disconnect, tableVars, clientVars
    <2> QED BY <1>1, <2>1 DEF Quiet, Sending
  <1> QED BY <1>2, <1>3, <1>4, <1>5, <1>6 DEF ClientNext

-----------------------------------------------------------------------------
(* The invariant *)

LEMMA SystemInitInv == SystemInit => SystemInv
  <1> SUFFICES ASSUME SystemInit PROVE SystemInv
    OBVIOUS
  <1>1. TypeInv
    BY TypeInit DEF SystemInit
  <1>2. /\ DOMAIN queue = {} /\ queue \in Seq(Reqs) /\ deferred = {} /\ req \in [Reqs -> ReqRecords]
        /\ \A o \in Reqs : ~req[o].ref /\ req[o].reply = 0
    BY CallTableAssumption, RpcClientAssumption DEF SystemInit, Server!ServerInit, Server!Free, ReqRecords
  <1>3. requests = {} /\ startSeq = 0 /\ conn = 0 /\ ~isOpen /\ \A p \in Procs : my[p] = NoLocal
    BY DEF SystemInit, Init, TableInit
  <1>4. LocalNumbers
    BY <1>3 DEF LocalNumbers, NoLocal
  <1>5. ServerTypeOK /\ WrittenOnce /\ InOnePlace /\ HeldOnce /\ WireOK
    BY <1>2, <1>3 DEF ServerTypeOK, WrittenOnce, InOnePlace, HeldOnce, WireOK, Owed
  <1> QED BY <1>1, <1>4, <1>5 DEF SystemInv

\* The numbers of the server's state.
LEMMA ServerTyped ==
  ASSUME SystemInv
  PROVE  /\ startSeq \in Nat /\ conn \in Nat /\ Seqs \subseteq Nat
         /\ \A q \in requests : q.seq \in Seqs
         /\ \A o \in Reqs : req[o].ref \in BOOLEAN /\ req[o].seq \in Nat /\ req[o].reply \in Nat
         /\ \A p \in Procs : my[p].seq \in Nat
  BY CallTableAssumption, RpcClientAssumption
  DEF SystemInv, TypeInv, TypeOK, TableTypeOK, Locals, Requests, Seqs, ServerTypeOK, ReqRecords

LEMMA QuietInv ==
  ASSUME SystemInv, TypeInv', Quiet, UNCHANGED <<req, queue, deferred, executed>>
  PROVE  SystemInv'
  <1>1. /\ startSeq \in Nat /\ startSeq' \in Nat /\ conn \in Nat /\ conn' \in Nat
        /\ \A p \in Procs : my[p].seq \in Nat /\ my'[p].seq \in Nat
    BY CallTableAssumption, RpcClientAssumption DEF SystemInv, TypeInv, TypeOK, TableTypeOK, Locals
  <1>2. ServerTypeOK' /\ HeldOnce' /\ \A o \in Reqs : Owed(o)' = Owed(o)
    BY DEF SystemInv, ServerTypeOK, HeldOnce, Owed
  <1>3. LocalNumbers'
    <2>1. \A p \in Procs : my'[p].seq <= startSeq'
      BY <1>1 DEF Quiet, SystemInv, LocalNumbers
    <2>2. ASSUME NEW p \in Procs, NEW q \in Procs, my'[p].seq = my'[q].seq, my'[p].seq # 0, p # q
          PROVE  FALSE
      <3>1. my'[p] = my[p] \/ (my'[p].seq = startSeq' /\ startSeq' > startSeq /\ my'[q] = my[q])
        BY <2>2 DEF Quiet
      <3>2. my'[q] = my[q] \/ (my'[q].seq = startSeq' /\ startSeq' > startSeq /\ my'[p] = my[p])
        BY <2>2 DEF Quiet
      <3>3. my[p].seq <= startSeq /\ my[q].seq <= startSeq /\ (my[p].seq = my[q].seq /\ my[p].seq # 0 => p = q)
        BY DEF SystemInv, LocalNumbers
      <3> QED BY <1>1, <2>2, <3>1, <3>2, <3>3
    <2> QED BY <2>1, <2>2 DEF LocalNumbers
  <1>4. ASSUME NEW s \in Seqs, Written(s) PROVE Written(s)'
    <2>0. s \in Nat /\ s # 0
      BY CallTableAssumption DEF Seqs
    <2>1. s <= startSeq'
      BY <1>1, <1>4, <2>0 DEF Quiet, Written
    <2>2. ASSUME NEW p \in Procs, Sending(p)' PROVE my'[p].seq # s
      BY <1>1, <1>4, <2>0, <2>2 DEF Quiet, Written
    <2> QED BY <2>1, <2>2 DEF Written
  <1>5. WrittenOnce'
    <2>1. \A q \in requests' : q \in requests /\ q.seq \in Seqs
      BY ServerTyped DEF Quiet
    <2> QED BY <1>2, <1>4, <2>1 DEF SystemInv, WrittenOnce
  <1>6. InOnePlace'
    <2>1. requests' \subseteq requests
      BY DEF Quiet
    <2> QED BY <1>2, <2>1 DEF SystemInv, InOnePlace
  <1>7. WireOK'
    BY <1>1, ServerTyped DEF Quiet, SystemInv, WireOK
  <1> QED BY <1>2, <1>3, <1>5, <1>6, <1>7 DEF SystemInv

\* A goroutine writes its request: nobody else has the number, and it is not used before.
LEMMA WriteMsgInv ==
  ASSUME SystemInv, TypeInv', NEW p \in Procs, WriteMsg(p), UNCHANGED <<req, queue, deferred, executed>>
  PROVE  SystemInv'
  <1> DEFINE x == [seq |-> my[p].seq, noReply |-> my[p].noReply]
  <1>1. /\ Sending(p) /\ isOpen /\ isOpen' /\ conn' = conn /\ startSeq' = startSeq
        /\ requests' = requests \cup {x}
    BY DEF WriteMsg, tableVars, Sending
  <1>2. /\ \A r \in Procs : r # p => my'[r] = my[r] /\ Sending(r)' = Sending(r)
        /\ ~Sending(p)' /\ (my'[p] = my[p] \/ my'[p] = NoLocal)
    BY DEF WriteMsg, AfterWrite, SystemInv, TypeInv, TypeOK, Sending
  <1>3. my[p].seq \in Seqs /\ my[p].seq # 0 /\ Seqs \subseteq Nat /\ startSeq \in Nat
    BY CallTableAssumption DEF WriteMsg, SystemInv, TypeInv, LocalsOK, TypeOK, TableTypeOK, Seqs
  <1>4. ServerTypeOK' /\ HeldOnce' /\ \A o \in Reqs : Owed(o)' = Owed(o)
    BY DEF SystemInv, ServerTypeOK, HeldOnce, Owed
  <1>5. /\ \A q \in requests : q.seq # x.seq
        /\ \A o \in Reqs : Owed(o) => req[o].seq # x.seq
        /\ x.seq = my[p].seq
    BY <1>1 DEF SystemInv, WrittenOnce, Written
  <1>6. LocalNumbers'
    BY <1>1, <1>2, <1>3 DEF SystemInv, LocalNumbers, NoLocal
  <1>7. \A s : Written(s) => Written(s)'
    BY <1>1, <1>2 DEF Written
  <1>8. \A s : s = my[p].seq => Written(s)'
    BY <1>1, <1>2, <1>3 DEF SystemInv, LocalNumbers, Written
  <1> HIDE DEF x
  <1>9. WrittenOnce'
    BY <1>1, <1>4, <1>5, <1>7, <1>8 DEF SystemInv, WrittenOnce
  <1>10. InOnePlace'
    BY <1>1, <1>4, <1>5 DEF SystemInv, InOnePlace
  <1>11. WireOK'
    BY <1>1 DEF SystemInv, WireOK
  <1> QED BY <1>4, <1>6, <1>9, <1>10, <1>11 DEF SystemInv

LEMMA ClientStepInv ==
  ASSUME SystemInv, ClientStep
  PROVE  SystemInv'
  <1>1. TypeInv'
    BY TypeStep DEF ClientStep, SystemInv, Next
  <1> QED BY <1>1, ClientMoves, QuietInv, WriteMsgInv DEF ClientStep

-----------------------------------------------------------------------------
(* The server's steps *)

\* What a step of the server may write: nothing, or a reply with number s on connection c.
Replies(c, s, e) == Server!WriteResponse(c, s, e) \/ UNCHANGED <<responses, answers>>

RepliesTyped == responses \subseteq Responses /\ answers \subseteq Responses

LEMMA RepliesType ==
  ASSUME TypeInv, NEW c, NEW s, NEW e \in {"nil", "err"}, Replies(c, s, e),
         s \in Seqs \/ UNCHANGED <<responses, answers>>
  PROVE  RepliesTyped'
  <1>1. s \in Seqs => [seq |-> s, Err |-> e] \in Responses
    BY DEF Responses
  <1> QED BY <1>1 DEF Replies, RepliesTyped, Server!WriteResponse, TypeInv, TypeOK

\* A step of the server leaves the client alone.
LEMMA ServerFrame ==
  ASSUME SystemInv, UNCHANGED <<tableVars, clientVars, conn, isOpen>>, requests' \subseteq requests,
         RepliesTyped'
  PROVE  TypeInv' /\ LocalNumbers' /\ \A n : Written(n) => Written(n)'
  <1>1. UNCHANGED <<call, startSeq, pending, timers, firing, chanEvent, others, admitted, lost, crashed,
                    returned, pc, my, reader, conn, isOpen>>
    BY DEF tableVars, clientVars
  <1>4. TableTypeOK'
    BY <1>1 DEF SystemInv, TypeInv, TypeOK, TableTypeOK
  <1>5. TypeInv'
    BY <1>1, <1>4 DEF SystemInv, TypeInv, TypeOK, LocalsOK, RepliesTyped
  <1>6. LocalNumbers' /\ \A n : Written(n) => Written(n)'
    BY <1>1 DEF SystemInv, LocalNumbers, Written, Sending
  <1> QED BY <1>5, <1>6

\* The queue after its head was taken.
LEMMA QueueHead ==
  ASSUME ServerTypeOK, queue # <<>>, queue' = Tail(queue)
  PROVE  /\ Head(queue) \in Reqs
         /\ 1 \in DOMAIN queue /\ Head(queue) = queue[1]
         /\ queue' \in Seq(Reqs)
         /\ \A i \in DOMAIN queue' : i \in Nat /\ i + 1 \in DOMAIN queue /\ i + 1 # 1 /\ queue'[i] = queue[i + 1]
  BY DEF ServerTypeOK

\* An object is given back: it owes nothing any more, and the others are as they were.
LEMMA Released ==
  ASSUME ServerTypeOK, NEW o \in Reqs, Server!ReleaseRpcRequest(o)
  PROVE  /\ req' \in [Reqs -> ReqRecords]
         /\ ~req'[o].ref /\ req'[o].reply = 0
         /\ \A x \in Reqs : x # o => req'[x] = req[x]
  <1>1. Server!Free \in ReqRecords
    BY CallTableAssumption, RpcClientAssumption DEF Server!Free, ReqRecords
  <1> QED BY <1>1 DEF ServerTypeOK, Server!ReleaseRpcRequest, Server!Free

\* The requests on the wire and in the objects get fewer or stay.
LEMMA FewerRequests ==
  ASSUME SystemInv, UNCHANGED <<conn, isOpen>>, requests' \subseteq requests,
         \A x \in Reqs : req'[x] = req[x] \/ (~req'[x].ref /\ req'[x].reply = 0),
         \A n : Written(n) => Written(n)'
  PROVE  WrittenOnce' /\ InOnePlace' /\ WireOK'
  <1>1. \A x \in Reqs : Owed(x)' => Owed(x) /\ req'[x] = req[x]
    BY DEF Owed
  <1>2. \A x \in Reqs : req'[x].reply <= conn
    BY ServerTyped DEF SystemInv, WireOK
  <1>3. WrittenOnce'
    BY <1>1 DEF SystemInv, WrittenOnce
  <1>4. InOnePlace'
    BY <1>1 DEF SystemInv, InOnePlace
  <1> QED BY <1>2, <1>3, <1>4 DEF SystemInv, WireOK

\* Run leaves the request out.
LEMMA RefusedInv ==
  ASSUME SystemInv, UNCHANGED <<tableVars, clientVars>>, NEW q \in requests,
         Server!RejectRequest(q) \/ Server!RefuseFull(q)
  PROVE  SystemInv'
  <1>1. /\ UNCHANGED <<conn, isOpen, req, queue, deferred>> /\ requests' = requests \ {q}
        /\ Replies(conn, q.seq, "err") /\ q.seq \in Seqs
    BY ServerTyped DEF Server!RejectRequest, Server!RefuseFull, Server!serverVars, Replies
  <1>2. TypeInv' /\ LocalNumbers' /\ \A n : Written(n) => Written(n)'
    BY <1>1, RepliesType, ServerFrame DEF SystemInv
  <1>3. ServerTypeOK' /\ HeldOnce'
    BY <1>1 DEF SystemInv, ServerTypeOK, HeldOnce, Owed
  <1> QED BY <1>1, <1>2, <1>3, FewerRequests DEF SystemInv

\* Run takes an object for the request and queues it.
LEMMA PushedInv ==
  ASSUME SystemInv, UNCHANGED <<tableVars, clientVars>>, NEW q \in requests, Server!PushRpcRequest(q)
  PROVE  SystemInv'
  <1>1. PICK o \in Reqs : /\ ~req[o].ref
                          /\ req' = [req EXCEPT ![o] = Server!NewRpcRequest(q)]
                          /\ queue' = Append(queue, o)
    BY DEF Server!PushRpcRequest
  <1>2. /\ UNCHANGED <<conn, isOpen, responses, answers, deferred>> /\ requests' = requests \ {q}
        /\ q \in requests /\ q.seq \in Seqs /\ q.noReply \in BOOLEAN /\ conn \in 0..MaxConns /\ isOpen
    BY DEF Server!PushRpcRequest, SystemInv, TypeInv, TypeOK, Requests, WireOK
  <1>3. TypeInv' /\ LocalNumbers' /\ \A n : Written(n) => Written(n)'
    BY <1>2, RepliesType, ServerFrame DEF Replies, SystemInv
  <1>4. /\ req' \in [Reqs -> ReqRecords]
        /\ req'[o].ref /\ req'[o].seq = q.seq /\ (req'[o].reply = 0 \/ req'[o].reply = conn)
        /\ \A x \in Reqs : x # o => req'[x] = req[x]
    <2>1. Server!NewRpcRequest(q) \in ReqRecords
      BY <1>2, CallTableAssumption, RpcClientAssumption DEF Server!NewRpcRequest, ReqRecords, Seqs
    <2> QED BY <1>1, <2>1 DEF SystemInv, ServerTypeOK, Server!NewRpcRequest
  <1>5. /\ queue \in Seq(Reqs) /\ queue' \in Seq(Reqs)
        /\ \A i \in DOMAIN queue' : \/ i \in DOMAIN queue /\ queue'[i] = queue[i]
                                    \/ i = Len(queue) + 1 /\ queue'[i] = o
        /\ \A i \in DOMAIN queue : queue[i] # o /\ queue[i] \in Reqs
    BY <1>1 DEF SystemInv, ServerTypeOK, HeldOnce
  <1>6. \A x \in Reqs : /\ x # o => (Owed(x)' = Owed(x)) /\ req'[x] = req[x]
                        /\ Owed(x) => x # o
    BY <1>1, <1>4 DEF Owed
  <1>7. WrittenOnce'
    BY <1>2, <1>3, <1>4, <1>6 DEF SystemInv, WrittenOnce
  <1>8. InOnePlace'
    <2>1. \A w, r \in requests' : w.seq = r.seq => w = r
      BY <1>2 DEF SystemInv, InOnePlace
    <2>2. \A w \in requests' : w.seq # q.seq
      BY <1>2 DEF SystemInv, InOnePlace
    <2>3. \A x \in Reqs : x # o /\ Owed(x) => req[x].seq # q.seq
      BY <1>2 DEF SystemInv, InOnePlace
    <2> QED BY <1>2, <1>4, <1>6, <2>1, <2>2, <2>3 DEF SystemInv, InOnePlace
  <1>9. HeldOnce'
    <2>1. \A d \in deferred : d.req \in Reqs /\ d.req # o
      BY <1>6 DEF SystemInv, HeldOnce, ServerTypeOK, Responders
    <2>2. \A i \in DOMAIN queue' : req'[queue'[i]].ref
      BY <1>4, <1>5 DEF SystemInv, HeldOnce
    <2>3. \A i, j \in DOMAIN queue' : queue'[i] = queue'[j] => i = j
      BY <1>5 DEF SystemInv, HeldOnce
    <2>4. \A d \in deferred' : Owed(d.req)' /\ req'[d.req].reply = d.conn
      BY <1>2, <1>6, <2>1 DEF SystemInv, HeldOnce
    <2>5. \A i \in DOMAIN queue' : \A d \in deferred' : queue'[i] # d.req
      BY <1>2, <1>5, <2>1 DEF SystemInv, HeldOnce
    <2> QED BY <1>2, <2>2, <2>3, <2>4, <2>5 DEF SystemInv, HeldOnce
  <1>10. WireOK'
    <2>1. \A x \in Reqs : req'[x].reply <= conn
      BY <1>2, <1>4, ServerTyped DEF SystemInv, WireOK
    <2> QED BY <1>2, <2>1 DEF SystemInv, WireOK
  <1>11. ServerTypeOK'
    BY <1>2, <1>4, <1>5 DEF SystemInv, ServerTypeOK
  <1> QED BY <1>3, <1>7, <1>8, <1>9, <1>10, <1>11 DEF SystemInv

\* HandlerRpcRequest is finished with the head of the queue and has released it.
LEMMA HandledInv ==
  ASSUME SystemInv, UNCHANGED <<tableVars, clientVars>>, NEW o \in Reqs, Server!Begin(o),
         Server!ReleaseRpcRequest(o), UNCHANGED deferred,
         RepliesTyped'
  PROVE  SystemInv'
  <1>1. queue # <<>> /\ o = Head(queue) /\ queue' = Tail(queue) /\ UNCHANGED <<conn, isOpen, requests>>
    BY DEF Server!Begin
  <1>2. TypeInv' /\ LocalNumbers' /\ \A n : Written(n) => Written(n)'
    BY <1>1, ServerFrame
  <1>3. /\ req' \in [Reqs -> ReqRecords]
        /\ ~req'[o].ref /\ req'[o].reply = 0
        /\ \A x \in Reqs : x # o => req'[x] = req[x]
    BY Released DEF SystemInv
  <1>4. /\ 1 \in DOMAIN queue /\ o = queue[1] /\ queue' \in Seq(Reqs)
        /\ \A i \in DOMAIN queue' : i \in Nat /\ i + 1 \in DOMAIN queue /\ i + 1 # 1 /\ queue'[i] = queue[i + 1]
    BY <1>1, QueueHead DEF SystemInv
  <1>5. WrittenOnce' /\ InOnePlace' /\ WireOK'
    BY <1>1, <1>2, <1>3, FewerRequests
  <1>6. ServerTypeOK'
    BY <1>3, <1>4 DEF SystemInv, ServerTypeOK
  <1>7. HeldOnce'
    <2>1. \A i \in DOMAIN queue' : queue'[i] # o /\ queue'[i] \in Reqs
      BY <1>4 DEF SystemInv, HeldOnce
    <2>2. \A d \in deferred : d.req # o /\ d.req \in Reqs
      BY <1>4 DEF SystemInv, HeldOnce, ServerTypeOK, Responders
    <2>3. \A i \in DOMAIN queue' : req'[queue'[i]].ref
      BY <1>3, <1>4, <2>1 DEF SystemInv, HeldOnce
    <2>4. \A i, j \in DOMAIN queue' : queue'[i] = queue'[j] => i = j
      BY <1>4 DEF SystemInv, HeldOnce
    <2>5. \A d \in deferred' : Owed(d.req)' /\ req'[d.req].reply = d.conn
      BY <1>3, <2>2 DEF SystemInv, HeldOnce, Owed
    <2>6. \A i \in DOMAIN queue' : \A d \in deferred' : queue'[i] # d.req
      BY <1>4 DEF SystemInv, HeldOnce
    <2> QED BY <2>3, <2>4, <2>5, <2>6 DEF SystemInv, HeldOnce
  <1> QED BY <1>2, <1>5, <1>6, <1>7 DEF SystemInv

\* A method keeps its Responder: the object goes from the queue to the Responder.
LEMMA KeptInv ==
  ASSUME SystemInv, UNCHANGED <<tableVars, clientVars>>, NEW o \in Reqs, Server!Begin(o),
         req[o].reply # 0, UNCHANGED <<req, responses, answers>>,
         deferred' = deferred \cup {[req |-> o, conn |-> req[o].reply]}
  PROVE  SystemInv'
  <1> DEFINE t == [req |-> o, conn |-> req[o].reply]
  <1>1. /\ queue # <<>> /\ o = Head(queue) /\ queue' = Tail(queue) /\ UNCHANGED <<conn, isOpen, requests>>
        /\ Owed(o) /\ req[o].seq \in Seqs
    BY DEF Server!Begin, Owed, SystemInv, WrittenOnce
  <1>2. TypeInv' /\ LocalNumbers' /\ \A n : Written(n) => Written(n)'
    BY <1>1, RepliesType, ServerFrame DEF Replies, SystemInv
  <1>3. /\ 1 \in DOMAIN queue /\ o = queue[1] /\ queue' \in Seq(Reqs)
        /\ \A i \in DOMAIN queue' : i \in Nat /\ i + 1 \in DOMAIN queue /\ i + 1 # 1 /\ queue'[i] = queue[i + 1]
    BY <1>1, QueueHead DEF SystemInv
  <1>4. WrittenOnce' /\ InOnePlace' /\ WireOK'
    BY <1>1, <1>2, FewerRequests
  <1>5. t \in Responders /\ t.req = o /\ t.conn = req[o].reply
    BY DEF SystemInv, ServerTypeOK, ReqRecords, Responders
  <1>6. \A d \in deferred : d.req # o
    BY <1>3 DEF SystemInv, HeldOnce
  <1>7. \A x : Owed(x)' = Owed(x)
    BY DEF Owed
  <1> HIDE DEF t
  <1>8. deferred' = deferred \cup {t}
    BY DEF t
  <1>9. ServerTypeOK'
    BY <1>3, <1>5, <1>8 DEF SystemInv, ServerTypeOK
  <1>10. HeldOnce'
    <2>1. \A i \in DOMAIN queue' : req'[queue'[i]].ref
      BY <1>3 DEF SystemInv, HeldOnce
    <2>2. \A i, j \in DOMAIN queue' : queue'[i] = queue'[j] => i = j
      BY <1>3 DEF SystemInv, HeldOnce
    <2>3. \A d \in deferred' : Owed(d.req)' /\ req'[d.req].reply = d.conn
      BY <1>1, <1>5, <1>7, <1>8 DEF SystemInv, HeldOnce
    <2>4. \A d, x \in deferred' : d.req = x.req => d = x
      BY <1>5, <1>6, <1>8 DEF SystemInv, HeldOnce
    <2>5. \A i \in DOMAIN queue' : \A d \in deferred' : queue'[i] # d.req
      BY <1>3, <1>5, <1>8 DEF SystemInv, HeldOnce
    <2> QED BY <2>1, <2>2, <2>3, <2>4, <2>5 DEF HeldOnce
  <1> QED BY <1>2, <1>4, <1>9, <1>10 DEF SystemInv

\* A Responder is called and given up.
LEMMA RespondedInv ==
  ASSUME SystemInv, UNCHANGED <<tableVars, clientVars, conn, isOpen, requests, queue>>,
         NEW d \in deferred, deferred' = deferred \ {d}, Server!ReleaseRpcRequest(d.req),
         RepliesTyped'
  PROVE  SystemInv'
  <1>1. TypeInv' /\ LocalNumbers' /\ \A n : Written(n) => Written(n)'
    BY ServerFrame
  <1>2. d.req \in Reqs
    BY DEF SystemInv, ServerTypeOK, Responders
  <1>3. /\ req' \in [Reqs -> ReqRecords]
        /\ ~req'[d.req].ref /\ req'[d.req].reply = 0
        /\ \A x \in Reqs : x # d.req => req'[x] = req[x]
    BY <1>2, Released DEF SystemInv
  <1>4. WrittenOnce' /\ InOnePlace' /\ WireOK'
    BY <1>1, <1>3, FewerRequests
  <1>5. ServerTypeOK'
    BY <1>3 DEF SystemInv, ServerTypeOK
  <1>6. HeldOnce'
    <2>1. \A i \in DOMAIN queue : queue[i] # d.req /\ queue[i] \in Reqs
      BY DEF SystemInv, HeldOnce, ServerTypeOK
    <2>2. \A x \in deferred' : x \in deferred /\ x.req # d.req /\ x.req \in Reqs
      BY DEF SystemInv, HeldOnce, ServerTypeOK, Responders
    <2>3. \A i \in DOMAIN queue : req'[queue[i]].ref
      BY <1>3, <2>1 DEF SystemInv, HeldOnce
    <2>4. \A x \in deferred' : Owed(x.req)' /\ req'[x.req].reply = x.conn
      BY <1>3, <2>2 DEF SystemInv, HeldOnce, Owed
    <2> QED BY <2>2, <2>3, <2>4 DEF SystemInv, HeldOnce
  <1> QED BY <1>1, <1>4, <1>5, <1>6 DEF SystemInv

\* The four ways a step inside the server ends, when methods are sound: the head of the
\* queue is released, after a reply of its own or after none; a Responder takes it; or a
\* Responder is called, replies under the number of its own object, and is given up.
Handled(o, e) ==
    /\ Server!Begin(o) /\ Server!ReleaseRpcRequest(o) /\ UNCHANGED deferred
    /\ \/ UNCHANGED <<responses, answers>>
       \/ req[o].reply # 0 /\ Server!WriteResponse(req[o].reply, req[o].seq, e)

Kept(o) ==
    /\ Server!Begin(o) /\ req[o].reply # 0
    /\ UNCHANGED <<req, responses, answers>>
    /\ deferred' = deferred \cup {[req |-> o, conn |-> req[o].reply]}

Responded(d, e) ==
    /\ req[d.req].ref
    /\ Server!WriteResponse(d.conn, req[d.req].seq, e) /\ Server!ReleaseRpcRequest(d.req)
    /\ deferred' = deferred \ {d}
    /\ UNCHANGED <<conn, isOpen, requests, queue, executed>>

LEMMA InnerSteps ==
  ASSUME MethodsSound, Server!ServerNext
  PROVE  \/ \E q \in requests : Server!RejectRequest(q) \/ Server!RefuseFull(q)
         \/ \E q \in requests : Server!PushRpcRequest(q)
         \/ \E o \in Reqs, e \in {"nil", "err"} :
              Handled(o, e) /\ (e = "nil" => req[o].seq \in executed') /\ executed \subseteq executed'
         \/ \E o \in Reqs : Kept(o) /\ executed' = executed \cup {req[o].seq}
         \/ \E d \in deferred, e \in {"nil", "err"} : Responded(d, e)
  <1>1. ASSUME NEW o \in Reqs, Server!RefuseMethod(o) PROVE Handled(o, "err") /\ executed' = executed
    BY <1>1 DEF Server!RefuseMethod, Server!Reply, Server!HandleReply, Handled
  <1>2. ASSUME NEW o \in Reqs, NEW e \in {"nil", "err"}, NEW b \in BOOLEAN, Server!RunMethod(o, e, b)
        PROVE  Handled(o, e) /\ executed' = executed \cup {req[o].seq}
    BY <1>2 DEF Server!RunMethod, Server!Reply, Server!HandleReply, Handled
  <1>3. ASSUME NEW o \in Reqs, Server!RunResponderMethod(o)
        PROVE  (Handled(o, "nil") \/ Kept(o)) /\ executed' = executed \cup {req[o].seq}
    BY <1>3 DEF Server!RunResponderMethod, Handled, Kept
  <1>4. ASSUME NEW d \in deferred, NEW e \in {"nil", "err"}, NEW b \in BOOLEAN, Server!Respond(d, e, b)
        PROVE  Responded(d, e)
    BY <1>4 DEF Server!Respond, Server!HandleReply, Responded
  <1> HIDE DEF Handled, Kept, Responded
  <1>5. CASE \E o \in Reqs : Server!RefuseMethod(o)
    BY <1>1, <1>5
  <1>6. CASE \E o \in Reqs : Server!RunResponderMethod(o)
    BY <1>3, <1>6
  <1>7. CASE \E e \in {"nil", "err"}, b \in BOOLEAN : \E o \in Reqs : Server!RunMethod(o, e, b)
    BY <1>2, <1>7
  <1>8. CASE \E e \in {"nil", "err"}, b \in BOOLEAN : \E d \in deferred : Server!Respond(d, e, b)
    BY <1>4, <1>8
  <1> QED BY <1>5, <1>6, <1>7, <1>8 DEF Server!ServerNext

LEMMA ServerStepInv ==
  ASSUME SystemInv, MethodsSound, ServerStep
  PROVE  SystemInv'
  <1>1. UNCHANGED <<tableVars, clientVars>> /\ Server!ServerNext
    BY DEF ServerStep
  <1>2. CASE \E q \in requests : Server!RejectRequest(q) \/ Server!RefuseFull(q)
    BY <1>1, <1>2, RefusedInv
  <1>3. CASE \E q \in requests : Server!PushRpcRequest(q)
    BY <1>1, <1>3, PushedInv
  <1>4. ASSUME NEW o \in Reqs, NEW e \in {"nil", "err"}, Handled(o, e) PROVE SystemInv'
    <2>1. \/ UNCHANGED <<responses, answers>>
          \/ req[o].seq \in Seqs /\ Replies(req[o].reply, req[o].seq, e)
      BY <1>4 DEF Handled, Replies, SystemInv, WrittenOnce, Owed, Server!Begin
    <2>2. RepliesTyped'
      BY <2>1, RepliesType DEF Replies, SystemInv
    <2> QED BY <1>1, <1>4, <2>2, HandledInv DEF Handled
  <1>5. ASSUME NEW o \in Reqs, Kept(o) PROVE SystemInv'
    BY <1>1, <1>5, KeptInv DEF Kept
  <1>6. ASSUME NEW d \in deferred, NEW e \in {"nil", "err"}, Responded(d, e) PROVE SystemInv'
    <2>1. d.req \in Reqs /\ req[d.req].seq \in Seqs
      BY DEF SystemInv, ServerTypeOK, Responders, HeldOnce, WrittenOnce
    <2>2. RepliesTyped'
      BY <1>6, <2>1, RepliesType DEF Responded, Replies, SystemInv
    <2> QED BY <1>1, <1>6, <2>2, RespondedInv DEF Responded
  <1> QED BY <1>1, <1>2, <1>3, <1>4, <1>5, <1>6, InnerSteps

LEMMA SystemStepInv ==
  ASSUME SystemInv, MethodsSound, [SystemNext]_systemVars
  PROVE  SystemInv'
  <1>1. CASE UNCHANGED systemVars
    <2>1. TypeInv'
      BY <1>1, TypeStep DEF systemVars, SystemInv
    <2>2. UNCHANGED <<startSeq, pc, my, requests, isOpen, conn, req, queue, deferred>>
      BY <1>1 DEF systemVars, vars, tableVars, clientVars, netVars
    <2>3. LocalNumbers' /\ WrittenOnce' /\ InOnePlace' /\ HeldOnce' /\ WireOK' /\ ServerTypeOK'
      BY <2>2 DEF SystemInv, LocalNumbers, WrittenOnce, Written, Sending, InOnePlace, HeldOnce, Owed, WireOK,
                  ServerTypeOK
    <2> QED BY <2>1, <2>3 DEF SystemInv
  <1>2. CASE ClientStep
    BY <1>2, ClientStepInv
  <1>3. CASE ServerStep
    BY <1>3, ServerStepInv
  <1> QED BY <1>1, <1>2, <1>3 DEF SystemNext

LEMMA SystemInvariant == MethodsSound => (SystemSpec => []SystemInv)
  <1> SUFFICES ASSUME MethodsSound PROVE SystemSpec => []SystemInv
    OBVIOUS
  <1>1. SystemInv /\ [SystemNext]_systemVars => SystemInv'
    BY SystemStepInv
  <1> QED BY <1>1, SystemInitInv, PTL DEF SystemSpec

-----------------------------------------------------------------------------
(* A caller told of success had its method run *)

\* A success is written only for a request whose method ran.
AnswersEarned ==
    /\ \A d \in deferred : req[d.req].seq \in executed
    /\ AnswerIsOwn

LEMMA AnswersEarnedStep ==
  ASSUME SystemInv, MethodsSound, AnswersEarned, [SystemNext]_systemVars
  PROVE  AnswersEarned'
  <1>1. CASE UNCHANGED <<answers, req, deferred, executed>>
    BY <1>1 DEF AnswersEarned, AnswerIsOwn
  <1>2. CASE ClientStep
    <2>1. answers' = answers
      BY <1>2 DEF ClientStep, ClientNext, CallerNext, HandlerNext, Issue, RawGo, RawGoFails, AsyncCall,
                  AsyncCallFails, EnterPending, WriteMsg, WriteMsgDropped, WriteMsgFails, CheckErr, Done, Finish,
                  EnterDone, RunCallback, OtherEvent, HandleOther, ReadResponse, SkipResponse, Admission,
                  DeliverResponse, handleRpcCallTimeout, FinishTimeout, Connect, Disconnect, netVars
    <2> QED BY <1>1, <1>2, <2>1 DEF ClientStep
  <1>3. ASSUME NEW c, NEW s, NEW e \in {"nil", "err"}, Replies(c, s, e),
               e = "nil" => s \in executed', executed \subseteq executed'
        PROVE  AnswerIsOwn'
    <2>1. \A a \in answers' : a \in answers \/ a = [seq |-> s, Err |-> e]
      BY <1>3 DEF Replies, Server!WriteResponse
    <2> QED BY <1>3, <2>1 DEF AnswersEarned, AnswerIsOwn
  <1>4. CASE ServerStep
    <2>1. \A d \in deferred : d.req \in Reqs
      BY DEF SystemInv, ServerTypeOK, Responders
    <2>2. ASSUME NEW q \in requests, Server!RejectRequest(q) \/ Server!RefuseFull(q)
          PROVE  AnswersEarned'
      <3>1. Replies(conn, q.seq, "err") /\ UNCHANGED <<req, deferred, executed>>
        BY <2>2 DEF Server!RejectRequest, Server!RefuseFull, Server!serverVars, Replies
      <3> QED BY <1>3, <3>1 DEF AnswersEarned
    <2>3. ASSUME NEW q \in requests, Server!PushRpcRequest(q) PROVE AnswersEarned'
      <3>1. PICK o \in Reqs : ~req[o].ref /\ req' = [req EXCEPT ![o] = Server!NewRpcRequest(q)]
        BY <2>3 DEF Server!PushRpcRequest
      <3>2. UNCHANGED <<answers, deferred, executed>>
        BY <2>3 DEF Server!PushRpcRequest
      <3>3. \A d \in deferred : req'[d.req] = req[d.req]
        BY <2>1, <3>1 DEF SystemInv, HeldOnce, Owed, ServerTypeOK
      <3> QED BY <3>2, <3>3 DEF AnswersEarned, AnswerIsOwn
    <2>4. ASSUME NEW o \in Reqs, NEW e \in {"nil", "err"}, Handled(o, e),
                 e = "nil" => req[o].seq \in executed', executed \subseteq executed'
          PROVE  AnswersEarned'
      <3>1. queue # <<>> /\ o = Head(queue) /\ queue' = Tail(queue) /\ UNCHANGED deferred
            /\ Server!ReleaseRpcRequest(o) /\ Replies(req[o].reply, req[o].seq, e)
        BY <2>4 DEF Handled, Server!Begin, Replies
      <3>2. \A d \in deferred : d.req # o
        BY <3>1, QueueHead DEF SystemInv, HeldOnce
      <3>3. \A d \in deferred : req'[d.req] = req[d.req]
        BY <2>1, <3>1, <3>2, Released DEF SystemInv
      <3> QED BY <1>3, <2>4, <3>1, <3>3 DEF AnswersEarned
    <2>5. ASSUME NEW o \in Reqs, Kept(o), executed' = executed \cup {req[o].seq} PROVE AnswersEarned'
      BY <2>5 DEF AnswersEarned, AnswerIsOwn, Kept
    <2>6. ASSUME NEW d \in deferred, NEW e \in {"nil", "err"}, Responded(d, e) PROVE AnswersEarned'
      <3>1. /\ Replies(d.conn, req[d.req].seq, e) /\ UNCHANGED executed /\ deferred' = deferred \ {d}
            /\ Server!ReleaseRpcRequest(d.req)
        BY <2>6 DEF Responded, Replies
      <3>2. \A x \in deferred' : x \in deferred /\ x.req # d.req
        BY <3>1 DEF SystemInv, HeldOnce
      <3>3. \A x \in deferred' : req'[x.req] = req[x.req]
        BY <2>1, <3>1, <3>2, Released DEF SystemInv
      <3> QED BY <1>3, <3>1, <3>2, <3>3 DEF AnswersEarned
    <2> QED BY <1>4, <2>2, <2>3, <2>4, <2>5, <2>6, InnerSteps DEF ServerStep
  <1> QED BY <1>1, <1>2, <1>4 DEF SystemNext, systemVars, vars, netVars

\* The invariant of the client holds whatever this server does.
LEMMA CallInvSystemStep ==
  ASSUME SystemInv, MethodsSound, CallInv, CallerTimely, [SystemNext]_systemVars
  PROVE  CallInv'
  <1>1. TypeInv'
    BY SystemStepInv DEF SystemInv
  <1>2. CASE ClientStep \/ UNCHANGED systemVars
    BY <1>2, CallStep DEF ClientStep, Next, systemVars
  <1>3. CASE ServerStep
    <2>1. UNCHANGED <<tableVars, clientVars>> /\ answers \subseteq answers' /\ responses' \subseteq answers'
      <3>1. \/ UNCHANGED <<responses, answers>>
            \/ \E c, s, e : Server!WriteResponse(c, s, e)
        BY <1>3, InnerSteps DEF ServerStep, Server!RejectRequest, Server!PushRpcRequest, Server!RefuseFull,
                  Handled, Kept, Responded
      <3>2. responses \subseteq answers
        BY DEF CallInv, OutcomesOK
      <3>3. \/ UNCHANGED <<responses, answers>>
            \/ \E a : responses' = responses \cup {a} /\ answers' = answers \cup {a}
        BY <3>1 DEF Server!WriteResponse
      <3>4. answers \subseteq answers' /\ responses' \subseteq answers'
        BY <3>2, <3>3
      <3> QED BY <1>3, <3>4 DEF ServerStep
    <2> QED BY <1>1, <2>1, NetworkCalls DEF tableVars
  <1> QED BY <1>2, <1>3 DEF SystemNext

\* When callRpc or a callback reports success, HandlerRpcRequest of the server has run
\* the method of that very call: no reply of another request, of another connection
\* or of a call that timed out passes for it. The methods must be sound: one that
\* panics and has kept its Responder makes it false.
THEOREM SuccessIsReal == CallerTimely /\ MethodsSound => (SystemSpec => []SuccessMeansExecuted)
  <1> SUFFICES ASSUME CallerTimely, MethodsSound PROVE SystemSpec => []SuccessMeansExecuted
    OBVIOUS
  <1> DEFINE Inv == CallInv /\ AnswersEarned
  <1>1. SystemInit => Inv
    <2> SUFFICES ASSUME SystemInit PROVE Inv
      OBVIOUS
    <2>1. CallInv
      BY CallInit DEF SystemInit
    <2>2. AnswersEarned
      BY DEF SystemInit, Server!ServerInit, Init, AnswersEarned, AnswerIsOwn
    <2> QED BY <2>1, <2>2
  <1>2. SystemInv /\ Inv /\ [SystemNext]_systemVars => Inv'
    BY CallInvSystemStep, AnswersEarnedStep
  <1>3. Inv => SuccessMeansExecuted
    <2> SUFFICES ASSUME Inv, NEW s \in Seqs, NEW i \in DOMAIN returned[s], returned[s][i] = "nil"
                 PROVE  s \in executed
      BY DEF SuccessMeansExecuted
    <2>1. [seq |-> s, Err |-> "nil"] \in answers
      BY DEF CallInv, OutcomesOK, Earned
    <2> QED BY <2>1 DEF AnswersEarned, AnswerIsOwn
  <1>4. SystemSpec => []SystemInv
    BY SystemInvariant
  <1> HIDE DEF Inv
  <1> QED BY <1>1, <1>2, <1>3, <1>4, PTL DEF SystemSpec

-----------------------------------------------------------------------------
(* The server implements the open remote node *)

\* The request a client sees in an object.
Plain(o) == [seq |-> req[o].seq, noReply |-> FALSE]

LEMMA AnswerableIs ==
  ASSUME NEW x
  PROVE  x \in Answerable <=>
             x \in requests \/ \E o \in Reqs : req[o].ref /\ isOpen /\ req[o].reply = conn /\ x = Plain(o)
  BY DEF Answerable, Plain

LEMMA AnswerableNext ==
  ASSUME NEW x
  PROVE  x \in Answerable' <=>
             x \in requests' \/ \E o \in Reqs : req'[o].ref /\ isOpen' /\ req'[o].reply = conn' /\ x = Plain(o)'
  BY DEF Answerable, Plain

LEMMA AnswerableSame ==
  ASSUME UNCHANGED <<requests, isOpen, conn, req>>
  PROVE  Answerable' = Answerable
  BY DEF Answerable

\* The client's steps that leave the requests alone.
LEMMA EnterSimulated ==
  ASSUME NEW p \in Procs, EnterPending(p), Answerable' = Answerable
  PROVE  OpenClient!EnterPending(p)
  BY DEF EnterPending, OpenClient!EnterPending, LockFree, OpenClient!LockFree, AddPending,
         OpenClient!AddPending, netVars, OpenClient!netVars

LEMMA CallerSimulated ==
  ASSUME NEW c \in Callers, CallerNext(c), ~WriteMsg(c), ~WriteMsgDropped(c), Answerable' = Answerable
  PROVE  OpenClient!CallerNext(c)
  <1>1. ASSUME NEW b \in BOOLEAN, RawGo(c, b) PROVE OpenClient!RawGo(c, b)
    BY <1>1 DEF RawGo, OpenClient!RawGo, Pooled, OpenClient!Pooled, InUse, OpenClient!InUse,
                netVars, OpenClient!netVars
  <1>2. ASSUME NEW b \in BOOLEAN, RawGoFails(c, b) PROVE OpenClient!RawGoFails(c, b)
    BY <1>2 DEF RawGoFails, OpenClient!RawGoFails, Pooled, OpenClient!Pooled, InUse, OpenClient!InUse,
                netVars, OpenClient!netVars
  <1>3. CASE WriteMsgFails(c)
    <2>1. OpenClient!WriteMsgFails(c)
      BY <1>3 DEF WriteMsgFails, OpenClient!WriteMsgFails, LockFree, OpenClient!LockFree, RemovePending,
                  OpenClient!RemovePending, Seqs, OpenClient!Seqs, netVars, OpenClient!netVars
    <2> QED BY <2>1 DEF OpenClient!CallerNext, OpenClient!Issue
  <1>4. ASSUME Finish(c) PROVE OpenClient!Finish(c)
    BY <1>4 DEF Finish, OpenClient!Finish, ReleaseCall, OpenClient!ReleaseCall, Cleared, OpenClient!Cleared,
                Return, OpenClient!Return, Seqs, OpenClient!Seqs, NoLocal, OpenClient!NoLocal,
                netVars, OpenClient!netVars
  <1>5. CASE CheckErr(c) \/ Done(c)
    <2>1. OpenClient!CheckErr(c) \/ OpenClient!Done(c)
      BY <1>4, <1>5 DEF CheckErr, Done, OpenClient!CheckErr, OpenClient!Done
    <2> QED BY <2>1 DEF OpenClient!CallerNext
  <1>6. CASE EnterDone(c)
    <2>1. OpenClient!EnterDone(c)
      BY <1>6 DEF EnterDone, OpenClient!EnterDone, tableVars, OpenClient!tableVars, netVars, OpenClient!netVars
    <2> QED BY <2>1 DEF OpenClient!CallerNext
  <1>7. CASE EnterPending(c)
    BY <1>7, EnterSimulated DEF OpenClient!CallerNext, OpenClient!Issue, Procs
  <1> QED BY <1>1, <1>2, <1>3, <1>5, <1>6, <1>7 DEF CallerNext, Issue, OpenClient!CallerNext

LEMMA HandlerSimulated ==
  ASSUME NEW h \in Handlers, HandlerNext(h), ~WriteMsg(h), ~WriteMsgDropped(h), Answerable' = Answerable
  PROVE  OpenClient!HandlerNext(h)
  <1>1. CASE AsyncCall(h)
    <2>1. OpenClient!AsyncCall(h)
      BY <1>1 DEF AsyncCall, OpenClient!AsyncCall, Pooled, OpenClient!Pooled, InUse, OpenClient!InUse,
                  netVars, OpenClient!netVars
    <2> QED BY <2>1 DEF OpenClient!HandlerNext
  <1>2. CASE AsyncCallFails(h)
    <2>1. OpenClient!AsyncCallFails(h)
      BY <1>2 DEF AsyncCallFails, OpenClient!AsyncCallFails, Return, OpenClient!Return, Seqs, OpenClient!Seqs,
                  netVars, OpenClient!netVars
    <2> QED BY <2>1 DEF OpenClient!HandlerNext
  <1>3. CASE WriteMsgFails(h)
    <2>1. OpenClient!WriteMsgFails(h)
      BY <1>3 DEF WriteMsgFails, OpenClient!WriteMsgFails, LockFree, OpenClient!LockFree, RemovePending,
                  OpenClient!RemovePending, Seqs, OpenClient!Seqs, ReleaseCall, OpenClient!ReleaseCall,
                  Cleared, OpenClient!Cleared, Return, OpenClient!Return, NoLocal, OpenClient!NoLocal,
                  netVars, OpenClient!netVars
    <2> QED BY <2>1 DEF OpenClient!HandlerNext, OpenClient!Issue
  <1>4. CASE RunCallback(h)
    <2>1. ASSUME NEW b \in BOOLEAN, HandlerRpcResponseCB(h, b) PROVE OpenClient!HandlerRpcResponseCB(h, b)
      BY <2>1 DEF HandlerRpcResponseCB, OpenClient!HandlerRpcResponseCB, ReleaseCall, OpenClient!ReleaseCall,
                  Cleared, OpenClient!Cleared, Return, OpenClient!Return, Seqs, OpenClient!Seqs
    <2>2. OpenClient!RunCallback(h)
      BY <1>4, <2>1 DEF RunCallback, OpenClient!RunCallback, clientVars, OpenClient!clientVars,
                        netVars, OpenClient!netVars
    <2> QED BY <2>2 DEF OpenClient!HandlerNext
  <1>5. CASE OtherEvent(h) \/ HandleOther(h)
    <2>1. OpenClient!OtherEvent(h) \/ OpenClient!HandleOther(h)
      BY <1>5 DEF OtherEvent, OpenClient!OtherEvent, HandleOther, OpenClient!HandleOther, PushOther,
                  OpenClient!PushOther, TakeOther, OpenClient!TakeOther, QueueLen, OpenClient!QueueLen,
                  clientVars, OpenClient!clientVars, netVars, OpenClient!netVars
    <2> QED BY <2>1 DEF OpenClient!HandlerNext
  <1>6. CASE EnterPending(h)
    BY <1>6, EnterSimulated DEF OpenClient!HandlerNext, OpenClient!Issue, Procs
  <1> QED BY <1>1, <1>2, <1>3, <1>4, <1>5, <1>6 DEF HandlerNext, Issue

LEMMA StrobeSimulated ==
  ASSUME NEW who, NEW k, Strobe(who, k)
  PROVE  OpenClient!Strobe(who, k)
  BY DEF Strobe, OpenClient!Strobe, PushRpcResponse, OpenClient!PushRpcResponse, QueueLen, OpenClient!QueueLen

LEMMA CompletionSimulated ==
  ASSUME Answerable' = Answerable,
         \/ \E m \in responses : ReadResponse(m) \/ SkipResponse(m)
         \/ Admission \/ DeliverResponse \/ FinishTimeout
         \/ \E s \in Seqs : handleRpcCallTimeout(s)
  PROVE  OpenClient!ClientNext
  <1>1. ASSUME NEW m \in responses, ReadResponse(m) PROVE OpenClient!ReadResponse(m)
    BY <1>1 DEF ReadResponse, OpenClient!ReadResponse, LockFree, OpenClient!LockFree, Issuing,
                OpenClient!Issuing, Procs, OpenClient!Procs, RemovePending, OpenClient!RemovePending,
                Seqs, OpenClient!Seqs
  <1>2. ASSUME NEW m \in responses, SkipResponse(m) PROVE OpenClient!SkipResponse(m)
    BY <1>2 DEF SkipResponse, OpenClient!SkipResponse, tableVars, OpenClient!tableVars, clientVars,
                OpenClient!clientVars
  <1>3. CASE DeliverResponse
    <2>1. OpenClient!DeliverResponse
      BY <1>3, StrobeSimulated DEF DeliverResponse, OpenClient!DeliverResponse, netVars, OpenClient!netVars
    <2> QED BY <2>1 DEF OpenClient!ClientNext
  <1>4. CASE FinishTimeout
    <2>1. OpenClient!DeliverTimeout
      BY <1>4, StrobeSimulated DEF FinishTimeout, DeliverTimeout, OpenClient!DeliverTimeout, RemovePending,
                  OpenClient!RemovePending, Seqs, OpenClient!Seqs, NoHold, OpenClient!NoHold
    <2>2. OpenClient!FinishTimeout
      BY <1>4, <2>1 DEF FinishTimeout, OpenClient!FinishTimeout, clientVars, OpenClient!clientVars,
                        netVars, OpenClient!netVars
    <2> QED BY <2>2 DEF OpenClient!ClientNext
  <1>5. ASSUME NEW s \in Seqs, handleRpcCallTimeout(s) PROVE OpenClient!handleRpcCallTimeout(s)
    BY <1>5 DEF handleRpcCallTimeout, OpenClient!handleRpcCallTimeout, FireTimeout, OpenClient!FireTimeout,
                LockFree, OpenClient!LockFree, Issuing, OpenClient!Issuing, Procs, OpenClient!Procs,
                clientVars, OpenClient!clientVars, netVars, OpenClient!netVars
  <1>6. CASE Admission
    <2>1. ASSUME NEW who, NEW k, Admit(who, k) PROVE OpenClient!Admit(who, k)
      BY <2>1 DEF Admit, OpenClient!Admit, QueueLen, OpenClient!QueueLen
    <2>2. OpenClient!Admission
      BY <1>6, <2>1 DEF Admission, OpenClient!Admission, AdmitTimeout, OpenClient!AdmitTimeout, clientVars,
                        OpenClient!clientVars, netVars, OpenClient!netVars
    <2> QED BY <2>2 DEF OpenClient!ClientNext
  <1> QED BY <1>1, <1>2, <1>3, <1>4, <1>5, <1>6 DEF OpenClient!ClientNext, Seqs, OpenClient!Seqs

\* The steps that change what is on the wire: a write, a lost connection, a new one.
LEMMA WriteSimulated ==
  ASSUME SystemInv, NEW p \in Procs, WriteMsg(p), UNCHANGED <<req, queue, deferred, executed>>
  PROVE  OpenClient!WriteMsg(p)
  <1>1. Answerable' = Answerable \cup {[seq |-> my[p].seq, noReply |-> my[p].noReply]}
    BY DEF WriteMsg, Answerable
  <1> QED BY <1>1 DEF WriteMsg, OpenClient!WriteMsg, AfterWrite, OpenClient!AfterWrite, NoLocal,
                      OpenClient!NoLocal, tableVars, OpenClient!tableVars

LEMMA BreakSimulated ==
  ASSUME UNCHANGED <<req, queue, deferred, executed>>, ~isOpen', requests' = {}
  PROVE  Answerable' = {}
  BY DEF Answerable

LEMMA DropSimulated ==
  ASSUME NEW p \in Procs, WriteMsgDropped(p), UNCHANGED <<req, queue, deferred, executed>>
  PROVE  OpenClient!WriteMsgDropped(p)
  <1>1. Answerable' = {}
    BY BreakSimulated DEF WriteMsgDropped
  <1> QED BY <1>1 DEF WriteMsgDropped, OpenClient!WriteMsgDropped, AfterWrite, OpenClient!AfterWrite, NoLocal,
                      OpenClient!NoLocal, tableVars, OpenClient!tableVars

LEMMA ConnectionSimulated ==
  ASSUME SystemInv, Connect \/ Disconnect, UNCHANGED <<req, queue, deferred, executed>>
  PROVE  OpenClient!Connect \/ OpenClient!Disconnect
  <1>1. CASE Connect
    <2>1. conn \in Nat /\ conn' = conn + 1 /\ ~isOpen /\ requests' = requests
      BY <1>1, RpcClientAssumption DEF Connect, SystemInv, TypeInv, TypeOK
    <2>2. \A o \in Reqs : req[o].reply \in Nat /\ req[o].reply <= conn
      BY ServerTyped DEF SystemInv, WireOK
    <2>3. \A o \in Reqs : req[o].reply # conn'
      BY <2>1, <2>2
    <2>4. Answerable' = requests /\ Answerable = requests
      BY <2>1, <2>3 DEF Answerable
    <2> QED BY <1>1, <2>4 DEF Connect, OpenClient!Connect, tableVars, OpenClient!tableVars, clientVars,
                              OpenClient!clientVars
  <1>2. CASE Disconnect
    <2>1. Answerable' = {}
      BY <1>2, BreakSimulated DEF Disconnect
    <2> QED BY <1>2, <2>1 DEF Disconnect, OpenClient!Disconnect, tableVars, OpenClient!tableVars, clientVars,
                              OpenClient!clientVars
  <1> QED BY <1>1, <1>2

LEMMA ClientStepSimulated ==
  ASSUME SystemInv, ClientStep
  PROVE  OpenClient!Next
  <1>1. ClientNext /\ UNCHANGED <<req, queue, deferred, executed>>
    BY DEF ClientStep
  <1>2. ASSUME NEW c \in Callers, CallerNext(c) PROVE OpenClient!ClientNext
    <2>0. c \in Procs
      BY DEF Procs
    <2>1. CASE WriteMsg(c) \/ WriteMsgDropped(c)
      <3>1. OpenClient!WriteMsg(c) \/ OpenClient!WriteMsgDropped(c)
        BY <1>1, <2>0, <2>1, WriteSimulated, DropSimulated
      <3> QED BY <3>1 DEF OpenClient!ClientNext, OpenClient!CallerNext, OpenClient!Issue
    <2>2. CASE ~WriteMsg(c) /\ ~WriteMsgDropped(c)
      <3>1. UNCHANGED <<requests, isOpen, conn>>
        BY <1>2, <2>2 DEF CallerNext, Issue, RawGo, RawGoFails, EnterPending, WriteMsgFails, CheckErr, Done, Finish, EnterDone,
                          netVars
      <3>2. Answerable' = Answerable
        BY <1>1, <3>1, AnswerableSame
      <3> QED BY <1>2, <2>2, <3>2, CallerSimulated DEF OpenClient!ClientNext
    <2> QED BY <2>1, <2>2
  <1>3. ASSUME NEW h \in Handlers, HandlerNext(h) PROVE OpenClient!ClientNext
    <2>0. h \in Procs
      BY DEF Procs
    <2>1. CASE WriteMsg(h) \/ WriteMsgDropped(h)
      <3>1. OpenClient!WriteMsg(h) \/ OpenClient!WriteMsgDropped(h)
        BY <1>1, <2>0, <2>1, WriteSimulated, DropSimulated
      <3> QED BY <3>1 DEF OpenClient!ClientNext, OpenClient!HandlerNext, OpenClient!Issue
    <2>2. CASE ~WriteMsg(h) /\ ~WriteMsgDropped(h)
      <3>1. UNCHANGED <<requests, isOpen, conn>>
        BY <1>3, <2>2 DEF HandlerNext, Issue, AsyncCall, AsyncCallFails, EnterPending, WriteMsgFails, RunCallback,
                          OtherEvent, HandleOther, netVars
      <3>2. Answerable' = Answerable
        BY <1>1, <3>1, AnswerableSame
      <3> QED BY <1>3, <2>2, <3>2, HandlerSimulated DEF OpenClient!ClientNext
    <2> QED BY <2>1, <2>2
  <1>4. CASE \/ \E m \in responses : ReadResponse(m) \/ SkipResponse(m)
             \/ Admission \/ DeliverResponse \/ FinishTimeout
             \/ \E s \in Seqs : handleRpcCallTimeout(s)
    <2>1. UNCHANGED <<requests, isOpen, conn>>
      BY <1>4 DEF ReadResponse, SkipResponse, Admission, DeliverResponse, FinishTimeout, handleRpcCallTimeout,
                  netVars
    <2>2. Answerable' = Answerable
      BY <1>1, <2>1, AnswerableSame
    <2>3. OpenClient!ClientNext
      BY <1>4, <2>2, CompletionSimulated
    <2> QED BY <2>3 DEF OpenClient!Next
  <1>5. CASE Connect \/ Disconnect
    <2>1. OpenClient!Connect \/ OpenClient!Disconnect
      BY <1>1, <1>5, ConnectionSimulated
    <2> QED BY <2>1 DEF OpenClient!Next, OpenClient!ClientNext
  <1> QED BY <1>1, <1>2, <1>3, <1>4, <1>5 DEF ClientNext, OpenClient!Next

\* A server step that takes request q out for good is an answer or silence; one that
\* leaves what can be answered alone is no step.
LEMMA Answered ==
  ASSUME UNCHANGED <<tableVars, clientVars, conn, isOpen>>, NEW q \in Answerable,
         Answerable' = Answerable \ {q}, NEW e \in {"nil", "err"},
         \/ UNCHANGED <<responses, answers>>
         \/ /\ responses' = responses \cup {[seq |-> q.seq, Err |-> e]}
            /\ answers' = answers \cup {[seq |-> q.seq, Err |-> e]}
  PROVE  OpenClient!Next
  <1>1. UNCHANGED <<OpenClient!tableVars, OpenClient!clientVars, conn, isOpen>>
    BY DEF tableVars, OpenClient!tableVars, clientVars, OpenClient!clientVars
  <1>2. OpenClient!Answer(q, e) \/ OpenClient!Ignore(q)
    BY <1>1 DEF OpenClient!Answer, OpenClient!Ignore
  <1> QED BY <1>2 DEF OpenClient!Next, OpenClient!RemoteNext

LEMMA Unnoticed ==
  ASSUME UNCHANGED <<tableVars, clientVars, conn, isOpen, responses, answers>>, Answerable' = Answerable
  PROVE  UNCHANGED OpenClient!vars
  BY DEF OpenClient!vars, tableVars, OpenClient!tableVars, clientVars, OpenClient!clientVars, OpenClient!netVars

\* Run leaves the request out, and may say so to the caller.
LEMMA RefusedSimulated ==
  ASSUME SystemInv, UNCHANGED <<tableVars, clientVars>>, NEW q \in requests,
         Server!RejectRequest(q) \/ Server!RefuseFull(q)
  PROVE  OpenClient!Next
  <1>1. /\ isOpen /\ conn # 0 /\ q \in Answerable
        /\ UNCHANGED <<conn, isOpen, req>> /\ requests' = requests \ {q}
    BY DEF SystemInv, WireOK, Answerable, Server!RejectRequest, Server!RefuseFull, Server!serverVars
  <1>2. \A o \in Reqs : req[o].ref /\ req[o].reply = conn => Plain(o) # q
    BY <1>1 DEF SystemInv, InOnePlace, Plain, Owed
  <1>3. \A o : Plain(o)' = Plain(o)
    BY <1>1 DEF Plain
  <1>4. Answerable' = Answerable \ {q}
    BY <1>1, <1>2, <1>3, AnswerableIs, AnswerableNext
  <1>5. \/ UNCHANGED <<responses, answers>>
        \/ /\ responses' = responses \cup {[seq |-> q.seq, Err |-> "err"]}
           /\ answers' = answers \cup {[seq |-> q.seq, Err |-> "err"]}
    BY DEF Server!RejectRequest, Server!RefuseFull, Server!WriteResponse
  <1> QED BY <1>1, <1>4, <1>5, Answered

\* Run queues the request: it is as answerable in its object as on the wire, and one
\* that wants no reply is never heard of again.
LEMMA PushedSimulated ==
  ASSUME SystemInv, UNCHANGED <<tableVars, clientVars>>, NEW q \in requests, Server!PushRpcRequest(q)
  PROVE  OpenClient!Next \/ UNCHANGED OpenClient!vars
  <1>1. /\ isOpen /\ conn # 0 /\ q \in Answerable
        /\ UNCHANGED <<conn, isOpen, responses, answers>> /\ requests' = requests \ {q}
    BY DEF SystemInv, WireOK, Answerable, Server!PushRpcRequest
  <1>2. q = [seq |-> q.seq, noReply |-> q.noReply] /\ q.noReply \in BOOLEAN
    BY DEF SystemInv, TypeInv, TypeOK, Requests
  <1>3. PICK o \in Reqs : ~req[o].ref /\ req' = [req EXCEPT ![o] = Server!NewRpcRequest(q)]
    BY DEF Server!PushRpcRequest
  <1>4. /\ req'[o].ref /\ req'[o].seq = q.seq /\ req'[o].reply = IF q.noReply THEN 0 ELSE conn
        /\ \A x \in Reqs : x # o => req'[x] = req[x] /\ Plain(x)' = Plain(x)
        /\ Plain(o)' = [seq |-> q.seq, noReply |-> FALSE]
    BY <1>3 DEF SystemInv, ServerTypeOK, Server!NewRpcRequest, Plain
  <1>5. \A x \in Reqs : req[x].ref /\ req[x].reply = conn => Plain(x) # q /\ x # o
    BY <1>1, <1>3 DEF SystemInv, InOnePlace, Plain, Owed
  <1>6. CASE q.noReply
    <2>1. Answerable' = Answerable \ {q}
      BY <1>1, <1>4, <1>5, <1>6, AnswerableIs, AnswerableNext
    <2>2. OpenClient!Next
      BY <1>1, <2>1, Answered
    <2> QED BY <2>2
  <1>7. CASE ~q.noReply
    <2>1. Plain(o)' = q
      BY <1>2, <1>4, <1>7
    <2>2. \A x : x \in Answerable' => x \in Answerable
      BY <1>1, <1>4, <1>7, <2>1, AnswerableIs, AnswerableNext
    <2>3. \A x : x \in Answerable => x \in Answerable'
      BY <1>1, <1>4, <1>5, <1>7, <2>1, AnswerableIs, AnswerableNext
    <2>4. Answerable' = Answerable
      BY <2>2, <2>3
    <2> QED BY <1>1, <2>4, Unnoticed
  <1> QED BY <1>2, <1>6, <1>7

\* Object o is given back: its request was answered on its own connection and under its
\* own number, or nobody was.
LEMMA LeaveSimulated ==
  ASSUME SystemInv, UNCHANGED <<tableVars, clientVars, conn, isOpen, requests>>, NEW o \in Reqs,
         req[o].ref, Server!ReleaseRpcRequest(o), NEW e \in {"nil", "err"},
         \/ UNCHANGED <<responses, answers>>
         \/ Server!WriteResponse(req[o].reply, req[o].seq, e)
  PROVE  OpenClient!Next \/ UNCHANGED OpenClient!vars
  <1>1. /\ ~req'[o].ref
        /\ \A x \in Reqs : x # o => req'[x] = req[x] /\ Plain(x)' = Plain(x)
    BY Released DEF SystemInv, Plain
  <1>2. CASE isOpen /\ req[o].reply = conn
    <2>1. conn # 0 /\ Owed(o)
      BY <1>2 DEF SystemInv, WireOK, Owed
    <2>2. Plain(o) \in Answerable /\ Plain(o).seq = req[o].seq
      BY <1>2, AnswerableIs DEF Plain
    <2>3. \A x \in Reqs : req[x].ref /\ req[x].reply = conn /\ Plain(x) = Plain(o) => x = o
      <3>1. \A x \in Reqs : Owed(x) /\ req[x].seq = req[o].seq => x = o
        BY <2>1 DEF SystemInv, InOnePlace
      <3> QED BY <2>1, <3>1 DEF Plain, Owed
    <2>4. Plain(o) \notin requests
      BY <2>1 DEF SystemInv, InOnePlace, Plain
    <2>5. Answerable' = Answerable \ {Plain(o)}
      <3>1. \A x : x \in Answerable' => x \in Answerable /\ x # Plain(o)
        BY <1>1, <2>3, <2>4, AnswerableIs, AnswerableNext
      <3>2. \A x : x \in Answerable /\ x # Plain(o) => x \in Answerable'
        BY <1>1, AnswerableIs, AnswerableNext
      <3> QED BY <3>1, <3>2
    <2>6. \/ UNCHANGED <<responses, answers>>
          \/ /\ responses' = responses \cup {[seq |-> Plain(o).seq, Err |-> e]}
             /\ answers' = answers \cup {[seq |-> Plain(o).seq, Err |-> e]}
      BY <2>2 DEF Server!WriteResponse
    <2> QED BY <2>2, <2>5, <2>6, Answered
  <1>3. CASE ~(isOpen /\ req[o].reply = conn)
    <2>1. UNCHANGED <<responses, answers>>
      BY <1>3 DEF Server!WriteResponse
    <2>2. Answerable' = Answerable
      <3>1. \A x : x \in Answerable' => x \in Answerable
        BY <1>1, AnswerableIs, AnswerableNext
      <3>2. \A x : x \in Answerable => x \in Answerable'
        BY <1>1, <1>3, AnswerableIs, AnswerableNext
      <3> QED BY <3>1, <3>2
    <2> QED BY <2>1, <2>2, Unnoticed
  <1> QED BY <1>2, <1>3

LEMMA ServerStepSimulated ==
  ASSUME SystemInv, MethodsSound, ServerStep
  PROVE  OpenClient!Next \/ UNCHANGED OpenClient!vars
  <1>1. UNCHANGED <<tableVars, clientVars>> /\ Server!ServerNext
    BY DEF ServerStep
  <1>2. CASE \E q \in requests : Server!RejectRequest(q) \/ Server!RefuseFull(q)
    BY <1>1, <1>2, RefusedSimulated
  <1>3. CASE \E q \in requests : Server!PushRpcRequest(q)
    BY <1>1, <1>3, PushedSimulated
  <1>4. ASSUME NEW o \in Reqs, NEW e \in {"nil", "err"}, Handled(o, e)
        PROVE  OpenClient!Next \/ UNCHANGED OpenClient!vars
    BY <1>1, <1>4, LeaveSimulated DEF Handled, Server!Begin
  <1>5. ASSUME NEW o \in Reqs, Kept(o) PROVE UNCHANGED OpenClient!vars
    <2>1. UNCHANGED <<conn, isOpen, requests, req, responses, answers>>
      BY <1>5 DEF Kept, Server!Begin
    <2> QED BY <1>1, <2>1, AnswerableSame, Unnoticed
  <1>6. ASSUME NEW d \in deferred, NEW e \in {"nil", "err"}, Responded(d, e)
        PROVE  OpenClient!Next \/ UNCHANGED OpenClient!vars
    <2>1. d.req \in Reqs /\ req[d.req].reply = d.conn
      BY DEF SystemInv, ServerTypeOK, Responders, HeldOnce
    <2> QED BY <1>1, <1>6, <2>1, LeaveSimulated DEF Responded
  <1> QED BY <1>1, <1>2, <1>3, <1>4, <1>5, <1>6, InnerSteps

LEMMA SystemStepSimulated ==
  ASSUME SystemInv, MethodsSound, [SystemNext]_systemVars
  PROVE  [OpenClient!Next]_(OpenClient!vars)
  <1>1. CASE UNCHANGED systemVars
    <2>1. Answerable' = Answerable
      BY <1>1, AnswerableSame DEF systemVars, vars, netVars
    <2> QED BY <1>1, <2>1, Unnoticed DEF systemVars, vars, netVars
  <1>2. CASE ClientStep
    BY <1>2, ClientStepSimulated
  <1>3. CASE ServerStep
    BY <1>3, ServerStepSimulated
  <1> QED BY <1>1, <1>2, <1>3 DEF SystemNext

\* The node that RpcServerAgent.Run, HandlerRpcRequest and the Responders make up is one
\* of the remote nodes RpcClient is checked and proved against, as long as methods are
\* sound: although a Responder's closure reads the number from a pooled object, it
\* answers a request once or never, only on the connection the request came in on, and
\* only under the request's own number. What is proved of RpcClient holds of the two.
THEOREM ServerImplementsRemote == MethodsSound => (SystemSpec => ServerIsARemoteNode)
  <1> SUFFICES ASSUME MethodsSound PROVE SystemSpec => ServerIsARemoteNode
    OBVIOUS
  <1>1. SystemInit => OpenClient!Init
    <2> SUFFICES ASSUME SystemInit PROVE OpenClient!Init
      OBVIOUS
    <2>1. Answerable = {}
      BY DEF SystemInit, Server!ServerInit, Server!Free, Init, Answerable
    <2>2. OpenClient!TableInit
      BY DEF SystemInit, Init, TableInit, OpenClient!TableInit, Cleared, OpenClient!Cleared, NoHold,
             OpenClient!NoHold, Seqs, OpenClient!Seqs
    <2> QED BY <2>1, <2>2 DEF SystemInit, Init, OpenClient!Init, Procs, OpenClient!Procs, NoLocal,
                              OpenClient!NoLocal
  <1>2. SystemInv /\ [SystemNext]_systemVars => [OpenClient!Next]_(OpenClient!vars)
    BY SystemStepSimulated
  <1>3. SystemSpec => []SystemInv
    BY SystemInvariant
  <1> QED BY <1>1, <1>2, <1>3, PTL DEF SystemSpec, ServerIsARemoteNode, OpenClient!Spec
=============================================================================
