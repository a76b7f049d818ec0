----------------------------- MODULE ModuleTree -----------------------------
(***************************************************************************)
(* The modules of one service (service/module.go).                         *)
(*                                                                         *)
(* A module is known in two places: the child map of its parent and the    *)
(* descendants map of the service, its ancestor. ids are given out once    *)
(* and kept by a released module, so a module stands for its id. The maps  *)
(* have no lock: all operations run on the service's only goroutine.       *)
(*                                                                         *)
(* ReleaseModule may be called on the service or on any module; it deletes *)
(* from the child map of that caller only. A module released through       *)
(* anybody but its parent leaves an entry in the parent's map.             *)
(***************************************************************************)
EXTENDS Naturals, FiniteSets

CONSTANTS Modules,
          Root      \* the service itself

ASSUME ModuleTreeAssumption == Root \notin Modules

VARIABLES child,        \* Module.child of each module and of the service
          descendants,  \* Module.descendants of the service
          attached      \* the modules whose ancestor is set

treeVars == <<child, descendants, attached>>

TreeInit ==
    /\ child = [m \in Modules \cup {Root} |-> {}]
    /\ descendants = {}
    /\ attached = {}

\* Who can be asked to add or release a module: GetAncestor is not nil.
Live == attached \cup {Root}

\* x and everything below it in the child maps: the smallest set that holds x and
\* the children of its members.
Subtree(x) ==
    LET all == Modules \cup {x}
        Closed(S) == x \in S /\ \A m \in S : child[m] \subseteq S
    IN {m \in all : \A S \in SUBSET all : Closed(S) => m \in S}

-----------------------------------------------------------------------------
(* AddModule *)

\* A module that m may add: it is not in the tree and m is not below it. AddModule
\* tests only m's child map; adding a module that is already elsewhere in the tree,
\* which would make it a child of two and replace its publisher, is left out.
Addable(m, x) == x \in Modules \ descendants /\ m \notin Subtree(x)

\* m.AddModule(x). In OnInit x adds the modules of K to itself and then succeeds
\* or fails. An entry left in m's child map makes AddModule fail before it
\* touches x; when OnInit fails, x stays out but what it added stays in.
AddModule(m, x, K, ok) ==
    /\ m \in Live /\ Addable(m, x)
    /\ \A y \in K : Addable(x, y) /\ Addable(m, y) /\ y \notin child[x]
    /\ IF x \in child[m]
       THEN UNCHANGED treeVars
       ELSE /\ child' = [child EXCEPT ![x] = @ \cup K, ![m] = IF ok THEN @ \cup {x} ELSE @]
            /\ descendants' = descendants \cup K \cup (IF ok THEN {x} ELSE {})
            /\ attached' = attached \cup K \cup {x}

\* The modules that get a new publisher.
Republished(m, x, K) == IF x \in child[m] THEN {} ELSE {x} \cup K

-----------------------------------------------------------------------------
(* ReleaseModule *)

\* The recursion over the children of x finds every module it names, once.
Releasable(x) ==
    /\ Subtree(x) \subseteq descendants
    /\ \A y \in Subtree(x) \ {x} : Cardinality({z \in Subtree(x) : y \in child[z]}) = 1

\* Fault: only the module that was named leaves the ancestor's map.
WithoutDescendants(m, R) ==
    /\ child' = [z \in Modules \cup {Root} |->
          IF z \in R THEN {} ELSE IF z = m THEN child[z] \ R ELSE child[z]]
    /\ descendants' = {z \in descendants : z \notin R \/ \E y \in R : z \in child[y]}
    /\ attached' = attached \ R

\* The maps after the modules of R were released through m.
Without(m, R) ==
    /\ child' = [z \in Modules \cup {Root} |->
          IF z \in R THEN {} ELSE IF z = m THEN child[z] \ R ELSE child[z]]
    /\ descendants' = descendants \ R
    /\ attached' = attached \ R

\* m may release any module of the service, itself and those above it excepted.
Asked(m, x) == m \in Live /\ x \in descendants /\ m \notin Subtree(x)

ReleaseModule(m, x) == Asked(m, x) /\ Releasable(x) /\ Without(m, Subtree(x))

\* The recursion reaches, below v, an entry of a module that is gone: GetModule
\* returns nil and the call panics. Modules on the way to v stay; of their other
\* children some, of which S are the topmost, may have been released before.
PanicRelease(m, x, v, S) ==
    LET onStack == {u \in Subtree(x) : v \in Subtree(u)}
        R == UNION {Subtree(s) : s \in S}
    IN /\ Asked(m, x)
       /\ v \in Subtree(x)
       /\ \A s \in S : s \notin onStack /\ Releasable(s) /\ \E u \in onStack : s \in child[u]
       /\ \A s, t \in S : s = t \/ Subtree(s) \cap Subtree(t) = {}
       /\ \E y \in child[v] : y \notin descendants \ R
       /\ Without(m, R)

\* What PanicRelease releases.
Partly(S) == UNION {Subtree(s) : s \in S}
=============================================================================
