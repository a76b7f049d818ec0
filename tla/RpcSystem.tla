----------------------------- MODULE RpcSystem -----------------------------
(***************************************************************************)
(* A client node and a server node over one connection: the steps of       *)
(* RpcClient with the open remote node replaced by RpcServer.              *)
(***************************************************************************)
EXTENDS RpcClient

CONSTANTS Reqs, MaxServerEvents, MethodsSound

ASSUME RpcSystemAssumption == MaxServerEvents \in Nat /\ MethodsSound \in BOOLEAN

VARIABLES req, queue, deferred, executed

Server == INSTANCE RpcServer

systemVars == <<vars, req, queue, deferred, executed>>

SystemInit == Init /\ Server!ServerInit

ClientStep == ClientNext /\ UNCHANGED <<req, queue, deferred, executed>>

ServerStep == Server!ServerNext /\ UNCHANGED <<tableVars, clientVars>>

SystemNext == ClientStep \/ ServerStep

\* Only the client's goroutines are fair; the server may be arbitrarily slow.
SystemSpec == SystemInit /\ [][SystemNext]_systemVars /\ Fairness

-----------------------------------------------------------------------------
\* To the client, a request inside the server that can still be answered is as
\* good as a request on its way: one whose object has a handleReply for the open
\* connection.
Answerable ==
    requests \cup
    {[seq |-> req[o].seq, noReply |-> FALSE] :
        o \in {x \in Reqs : req[x].ref /\ isOpen /\ req[x].reply = conn}}

OpenClient == INSTANCE RpcClient WITH requests <- Answerable

\* The server is one of the remote nodes RpcClient was checked and proved against:
\* although objects and connections come and go under the Responders' closures, it
\* answers a request at most once, only on the request's own connection and only
\* with the request's own sequence number. Only with MethodsSound.
ServerIsARemoteNode == OpenClient!Spec

\* A caller that is told of success has had its method run: no reply of another
\* request, of another connection or of a timed-out call can pass for it. Only with
\* MethodsSound.
SuccessMeansExecuted ==
    \A s \in Seqs : \A i \in DOMAIN returned[s] :
        returned[s][i] = "nil" => s \in executed

\* MakeRpcResponse takes "the number of the request the response belongs to": a
\* result is sent under the number of a request whose method has run. Only with
\* MethodsSound: a Responder called again answers for the object's next request.
AnswerIsOwn == \A a \in answers : a.Err = "nil" => a.seq \in executed
=============================================================================
