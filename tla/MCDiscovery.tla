---------------------------- MODULE MCDiscovery ----------------------------
(* Nodes and configuration for TLC: a master and one or two members, each    *)
(* with a public service of its own; B asks for A's service only.            *)
EXTENDS Discovery, TLC

CONSTANTS M, A, B, ClientService, Admin, Echo, Chat

MCPublic ==
    [n \in Nodes |-> {ClientService, CASE n = M -> Admin [] n = A -> Echo [] n = B -> Chat}]

MCDiscoveryService == [n \in Nodes |-> IF n = B THEN {Echo} ELSE {}]

\* One failure: a connection that breaks, or, among M and A alone, a crash, after
\* which dialling may give up. B is not started once that has happened.
OneFailure ==
    /\ up'[B] => crashes' = 0 /\ \A x, n \in Nodes : tab'[x].rpc[n].st # "gone"
    /\ breaks' + crashes' <= 1

\* History: the nodes the master has forgotten, and those that gave up dialling it.
VARIABLE excused

Excuse == excused' = excused \cup {n \in Nodes : Forgotten(n)' \/ GaveUp(n)'}

MCInit == Init /\ excused = {}

OneFailureSpec ==
    MCInit /\ [][Next /\ OneFailure /\ Excuse]_<<vars, excused>>
    /\ WF_<<vars, excused>>(Runs /\ OneFailure /\ Excuse)

\* As FairSpec, with any failures the bounds allow.
RestartSpec ==
    MCInit /\ [][Next /\ Excuse]_<<vars, excused>> /\ WF_<<vars, excused>>(Runs /\ Excuse)

\* Discovery heals: a member that loses the master, whose master restarts, or that is
\* itself restarted, registers again, and is known and told of the others in the end.
\* One that loses another member keeps its route. Only a node that the master forgets
\* although it registered, or that gave up dialling the master, may stay unknown, or
\* not know: it alone, and nobody else for its sake.
Heals == <>[](\A x, n \in Nodes \ excused : SettledFor(x, n))
=============================================================================
