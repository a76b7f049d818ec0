----------------------------- MODULE RpcServer -----------------------------
(***************************************************************************)
(* The server side of one connection: RpcServerAgent.Run and WriteResponse *)
(* of jrpc/rpcserver.go, the queue of the service the request is for, and  *)
(* BaseRpcHandler.HandlerRpcRequest of jrpc/rpchandler.go.                 *)
(*                                                                         *)
(* The wire (conn, isOpen, requests, responses) is shared with RpcClient.  *)
(* A request is held in a pooled RpcRequest. Its handleReply is a closure  *)
(* over the agent, that is the connection, and over the pooled object: it  *)
(* reads the number to reply to when it runs, and then gives the object    *)
(* back. A released object has no data; using it panics, which no step     *)
(* models.                                                                 *)
(***************************************************************************)
EXTENDS Naturals, Sequences

CONSTANTS Reqs,             \* the RpcRequest objects of rpcRequestPool
          MaxServerEvents,  \* maxServiceEventChannel of the serving service
          MethodsSound      \* TRUE: a Responder is called once, and a method that
                            \* panics has not kept it. FALSE: it may have.

VARIABLES conn, isOpen, requests, responses, answers,  \* the wire
          req,       \* the pooled objects; reply is the connection handleReply
                     \* writes to, 0 for a nil handleReply
          queue,     \* the service's chanEvent: requests to handle
          deferred,  \* Responders kept by their methods: the closures' variables
          executed   \* history: the numbers of the requests whose method ran

serverVars == <<req, queue, deferred, executed>>

Free == [ref |-> FALSE, seq |-> 0, reply |-> 0]

ServerInit ==
    /\ req = [o \in Reqs |-> Free]
    /\ queue = <<>> /\ deferred = {} /\ executed = {}

\* Fault: the reply goes to whatever connection is open now.
WriteResponseAnywhere(c, s, e) ==
    IF isOpen
    THEN /\ responses' = responses \cup {[seq |-> s, Err |-> e]}
         /\ answers' = answers \cup {[seq |-> s, Err |-> e]}
    ELSE UNCHANGED <<responses, answers>>

\* WriteResponse on connection c: on one that is gone the error is only logged.
WriteResponse(c, s, e) ==
    IF isOpen /\ c = conn
    THEN /\ responses' = responses \cup {[seq |-> s, Err |-> e]}
         /\ answers' = answers \cup {[seq |-> s, Err |-> e]}
    ELSE UNCHANGED <<responses, answers>>

\* NewRpcRequest, with handleReply set for a request that wants a reply.
NewRpcRequest(q) == [ref |-> TRUE, seq |-> q.seq, reply |-> IF q.noReply THEN 0 ELSE conn]

ReleaseRpcRequest(o) == req' = [req EXCEPT ![o] = Free]

\* The closure handleReply of object o, made on connection c.
HandleReply(o, c, e) == WriteResponse(c, req[o].seq, e) /\ ReleaseRpcRequest(o)

\* HandlerRpcRequest replies if handleReply is set; if not, it releases the object
\* on its way out.
Reply(o, e) ==
    IF req[o].reply = 0
    THEN ReleaseRpcRequest(o) /\ UNCHANGED <<responses, answers>>
    ELSE HandleReply(o, req[o].reply, e)

-----------------------------------------------------------------------------
\* Run: the header or the parameters do not decode, or no service has the
\* name: an error is written to a caller that wants one.
RejectRequest(q) ==
    /\ requests' = requests \ {q}
    /\ IF q.noReply THEN UNCHANGED <<responses, answers>>
                    ELSE WriteResponse(conn, q.seq, "err")
    /\ UNCHANGED <<conn, isOpen, serverVars>>

\* Run: PushRpcRequest accepts the request.
PushRpcRequest(q) ==
    /\ Len(queue) < MaxServerEvents
    /\ requests' = requests \ {q}
    /\ \E o \in Reqs :
        /\ ~req[o].ref
        /\ req' = [req EXCEPT ![o] = NewRpcRequest(q)]
        /\ queue' = Append(queue, o)
    /\ UNCHANGED <<conn, isOpen, responses, answers, deferred, executed>>

\* Run: PushRpcRequest reports a full queue. The error goes out when IsNoReply
\* is true, that is to the callers that did not ask, and only to them.
RefuseFull(q) ==
    /\ Len(queue) >= MaxServerEvents
    /\ requests' = requests \ {q}
    /\ IF q.noReply THEN WriteResponse(conn, q.seq, "err")
                    ELSE UNCHANGED <<responses, answers>>
    /\ UNCHANGED <<conn, isOpen, serverVars>>

-----------------------------------------------------------------------------
\* HandlerRpcRequest begins with request o.
Begin(o) ==
    /\ queue # <<>> /\ o = Head(queue)
    /\ req[o].ref
    /\ queue' = Tail(queue)
    /\ UNCHANGED <<conn, isOpen, requests>>

\* Fault: the reply carries no error.
RefuseMethodSilently(o) ==
    /\ Begin(o)
    /\ Reply(o, "nil")
    /\ UNCHANGED <<deferred, executed>>

\* No such method, or it has no out parameter for a caller that wants one.
RefuseMethod(o) ==
    /\ Begin(o)
    /\ Reply(o, "err")
    /\ UNCHANGED <<deferred, executed>>

\* The method runs: it returns a result or an error, or panics and the recover
\* replies with an error, whether or not the method kept its Responder.
RunMethod(o, e, kept) ==
    /\ Begin(o)
    /\ kept => ~MethodsSound /\ e = "err" /\ req[o].reply # 0
    /\ Reply(o, e)
    /\ executed' = executed \cup {req[o].seq}
    /\ deferred' = IF kept THEN deferred \cup {[req |-> o, conn |-> req[o].reply]}
                           ELSE deferred

\* The method has a Responder and keeps it for later. For a request that wants
\* no reply the Responder is handleReplyNull.
RunResponderMethod(o) ==
    /\ Begin(o)
    /\ executed' = executed \cup {req[o].seq}
    /\ IF req[o].reply = 0
       THEN ReleaseRpcRequest(o) /\ UNCHANGED deferred
       ELSE /\ deferred' = deferred \cup {[req |-> o, conn |-> req[o].reply]}
            /\ UNCHANGED req
    /\ UNCHANGED <<responses, answers>>

\* Somebody calls the Responder, and may keep it.
Respond(d, e, kept) ==
    /\ req[d.req].ref
    /\ kept => ~MethodsSound
    /\ HandleReply(d.req, d.conn, e)
    /\ deferred' = IF kept THEN deferred ELSE deferred \ {d}
    /\ UNCHANGED <<conn, isOpen, requests, queue, executed>>

ServerNext ==
    \/ \E q \in requests : RejectRequest(q) \/ PushRpcRequest(q) \/ RefuseFull(q)
    \/ \E o \in Reqs : RefuseMethod(o) \/ RunResponderMethod(o)
    \/ \E e \in {"nil", "err"}, kept \in BOOLEAN :
        \/ \E o \in Reqs : RunMethod(o, e, kept)
        \/ \E d \in deferred : Respond(d, e, kept)
=============================================================================
