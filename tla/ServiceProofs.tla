--------------------------- MODULE ServiceProofs ---------------------------
(***************************************************************************)
(* The safety properties of Service for any number of services, goroutines *)
(* and modules and every capacity of the queues: who releases a service,   *)
(* when pushEvent can block, that both ends of a registration agree, and   *)
(* that no module is lost or left behind.                                  *)
(***************************************************************************)
EXTENDS Service, FiniteSetTheorems, TLAPS

-----------------------------------------------------------------------------
(* The child maps *)

TreeTypeOK ==
    /\ child \in [Modules \cup {Root} -> SUBSET Modules]
    /\ descendants \subseteq attached
    /\ attached \subseteq Modules

\* The children of the members of S are members.
Closed(S) == \A m \in S : child[m] \subseteq S

LEMMA SubtreeHasRoot ==
  ASSUME NEW x
  PROVE  x \in Subtree(x)
  BY DEF Subtree

\* What holds x and is closed holds everything below x.
LEMMA SubtreeLeast ==
  ASSUME NEW x, NEW S \in SUBSET (Modules \cup {x}), x \in S, Closed(S)
  PROVE  Subtree(x) \subseteq S
  BY DEF Subtree, Closed

LEMMA SubtreeClosed ==
  ASSUME TreeTypeOK, NEW x \in Modules \cup {Root}
  PROVE  Closed(Subtree(x)) /\ Subtree(x) \subseteq Modules \cup {x}
  <1>1. Subtree(x) \subseteq Modules \cup {x}
    BY DEF Subtree
  <1>2. ASSUME NEW a \in Subtree(x), NEW b \in child[a] PROVE b \in Subtree(x)
    <2>1. b \in Modules
      BY <1>1, <1>2 DEF TreeTypeOK
    <2> QED BY <1>2, <2>1 DEF Subtree
  <1> QED BY <1>1, <1>2 DEF Closed

\* Nothing gets out of reach when children are added.
LEMMA SubtreeGrows ==
  ASSUME NEW x, \A m \in Modules \cup {x} : child[m] \subseteq child'[m]
  PROVE  Subtree(x) \subseteq Subtree(x)'
  BY DEF Subtree

\* The same of the maps after a step.
LEMMA SubtreeClosedNext ==
  ASSUME TreeTypeOK', NEW x \in Modules \cup {Root}
  PROVE  Closed(Subtree(x))' /\ (Subtree(x) \subseteq Modules \cup {x})'
  <1>1. Subtree(x)' \subseteq Modules \cup {x}
    BY DEF Subtree
  <1>2. ASSUME NEW a \in Subtree(x)', NEW b \in child'[a] PROVE b \in Subtree(x)'
    <2>1. b \in Modules
      BY <1>1, <1>2 DEF TreeTypeOK
    <2> QED BY <1>2, <2>1 DEF Subtree
  <1> QED BY <1>1, <1>2 DEF Closed

\* Below what is below x is below x.
LEMMA SubtreeTransNext ==
  ASSUME TreeTypeOK', NEW x \in Modules \cup {Root}, NEW a \in Subtree(x)'
  PROVE  Subtree(a)' \subseteq Subtree(x)'
  <1> DEFINE T == Subtree(x)' \cap (Modules \cup {a})
  <1>1. Closed(Subtree(x))'
    BY SubtreeClosedNext
  <1>2. \A m \in T : child'[m] \subseteq T
    BY <1>1, SubtreeClosedNext DEF Closed, TreeTypeOK
  <1>3. a \in T /\ T \in SUBSET (Modules \cup {a})
    OBVIOUS
  <1> HIDE DEF T
  <1>4. Subtree(a)' \subseteq T
    BY <1>2, <1>3 DEF Subtree
  <1> QED BY <1>4 DEF T

\* From where a release of every module would start.
Roots == {Root} \cup (attached \ descendants)

LEMMA RootsReach ==
  ASSUME NoOrphans, TreeTypeOK, NEW m \in Live
  PROVE  \E r \in Roots : m \in Subtree(r)
  <1>1. CASE m \in descendants
    BY <1>1 DEF NoOrphans, Roots
  <1>2. CASE m \notin descendants
    BY <1>2, SubtreeHasRoot DEF Live, Roots
  <1> QED BY <1>1, <1>2

\* m adds x, which adds K.
LEMMA AddKeepsReach ==
  ASSUME NoOrphans, TreeTypeOK, NEW m, NEW x \in Modules, NEW K \in SUBSET Modules, NEW ok \in BOOLEAN,
         AddModule(m, x, K, ok)
  PROVE  NoOrphans' /\ TreeTypeOK'
  <1>1. /\ m \in Live /\ m \in Modules \cup {Root} /\ x \notin descendants /\ m \notin Subtree(x)
        /\ \A y \in K : y \notin descendants /\ x \notin Subtree(y) /\ m \notin Subtree(y)
    BY DEF AddModule, Addable, Live, TreeTypeOK
  <1>2. CASE x \in child[m]
    BY <1>2 DEF AddModule, treeVars, NoOrphans, TreeTypeOK, Subtree
  <1>3. CASE x \notin child[m]
    <2>1. /\ child' = [child EXCEPT ![x] = @ \cup K, ![m] = IF ok THEN @ \cup {x} ELSE @]
          /\ descendants' = descendants \cup K \cup (IF ok THEN {x} ELSE {})
          /\ attached' = attached \cup K \cup {x}
      BY <1>3 DEF AddModule
    <2>2. m # x /\ x \notin K
      BY <1>1, SubtreeHasRoot
    <2>3. /\ \A z \in Modules \cup {Root} : child[z] \subseteq child'[z]
          /\ K \subseteq child'[x] /\ (ok => x \in child'[m])
          /\ child' \in [Modules \cup {Root} -> SUBSET Modules]
      BY <1>1, <2>1, <2>2 DEF TreeTypeOK
    <2>4. TreeTypeOK'
      BY <2>1, <2>3 DEF TreeTypeOK
    <2>5. \A r \in Modules \cup {Root} : Subtree(r) \subseteq Subtree(r)'
      BY <2>3, SubtreeGrows
    <2>6. Roots \subseteq Modules \cup {Root} /\ Roots' \subseteq Modules \cup {Root}
      BY <2>4 DEF Roots, TreeTypeOK
    <2>7. ASSUME NEW r \in Roots', NEW a \in Subtree(r)' PROVE child'[a] \subseteq Subtree(r)'
      BY <2>4, <2>6, SubtreeClosedNext DEF Closed
    <2>8. \E r \in Roots' : x \in Subtree(r)'
      <3>1. CASE ok
        <4>1. PICK r \in Roots : m \in Subtree(r)
          BY <1>1, RootsReach
        <4>2. r \in Roots'
          BY <1>1, <2>1, <4>1 DEF Roots
        <4>3. m \in Subtree(r)'
          BY <2>5, <2>6, <4>1
        <4> QED BY <2>3, <2>7, <3>1, <4>2, <4>3
      <3>2. CASE ~ok
        <4>1. x \in Roots'
          BY <1>1, <2>1, <2>2, <3>2 DEF Roots
        <4>2. x \in Subtree(x)'
          BY DEF Subtree
        <4> QED BY <4>1, <4>2
      <3> QED BY <3>1, <3>2
    <2>9. PICK q \in Roots' : x \in Subtree(q)'
      BY <2>8
    <2>10. \A y \in K \cup {x} : y \in Subtree(q)'
      BY <2>3, <2>7, <2>9
    <2>11. ASSUME NEW z \in descendants' PROVE \E r \in Roots' : z \in Subtree(r)'
      <3>1. CASE z \in K \cup {x}
        BY <2>10, <3>1
      <3>2. CASE z \notin K \cup {x}
        <4>1. PICK r \in Roots : z \in Subtree(r)
          BY <2>1, <2>11, <3>2 DEF NoOrphans, Roots
        <4>2. z \in Subtree(r)'
          BY <2>5, <2>6, <4>1
        <4>3. CASE r \in Roots'
          BY <4>2, <4>3
        <4>4. CASE r \notin Roots'
          <5>1. r \in K \cup {x}
            BY <2>1, <4>1, <4>4 DEF Roots
          <5>2. Subtree(r)' \subseteq Subtree(q)'
            BY <2>4, <2>6, <2>10, <5>1, SubtreeTransNext
          <5> QED BY <4>2, <5>2
        <4> QED BY <4>3, <4>4
      <3> QED BY <3>1, <3>2
    <2> QED BY <2>4, <2>11 DEF NoOrphans, Roots
  <1> QED BY <1>2, <1>3

\* What is released is closed under children, so nothing that stays was reached through it.
LEMMA WithoutKeepsReach ==
  ASSUME NoOrphans, TreeTypeOK, NEW m, NEW R \in SUBSET descendants, Closed(R), Without(m, R)
  PROVE  NoOrphans' /\ TreeTypeOK'
  <1>1. /\ child' \in [Modules \cup {Root} -> SUBSET Modules]
        /\ \A z \in Modules \cup {Root} : z \notin R => child[z] \subseteq child'[z] \cup R
    BY DEF Without, TreeTypeOK
  <1>2. TreeTypeOK'
    BY <1>1 DEF Without, TreeTypeOK
  <1>3. ASSUME NEW z \in descendants' PROVE \E r \in Roots' : z \in Subtree(r)'
    <2>1. z \in descendants /\ z \notin R
      BY DEF Without
    <2>2. PICK r \in Roots : z \in Subtree(r)
      BY <2>1 DEF NoOrphans, Roots
    <2>3. r \in Roots' /\ r \in Modules \cup {Root}
      BY <2>2 DEF Roots, Without, TreeTypeOK
    <2>4. ASSUME NEW S \in SUBSET (Modules \cup {r}), r \in S, \A a \in S : child'[a] \subseteq S
          PROVE  z \in S
      <3> DEFINE T == S \cup R
      <3>1. T \in SUBSET (Modules \cup {r})
        BY DEF TreeTypeOK
      <3>2. \A a \in T : child[a] \subseteq T
        BY <1>1, <2>3, <2>4 DEF Closed
      <3>3. Closed(T) /\ r \in T
        BY <2>4, <3>2 DEF Closed
      <3> HIDE DEF T
      <3>4. z \in T
        BY <2>2, <3>1, <3>3, SubtreeLeast
      <3> QED BY <2>1, <3>4 DEF T
    <2>5. z \in Modules
      BY <2>1 DEF TreeTypeOK
    <2>6. z \in Subtree(r)'
      BY <2>4, <2>5 DEF Subtree
    <2> QED BY <2>3, <2>6
  <1> QED BY <1>2, <1>3 DEF NoOrphans, Roots

-----------------------------------------------------------------------------
(* Types *)

Places == {"select", "idle", "run", "send", "lock", "broadcast", "register", "bind",
           "release", "done"}
Events == {Rpc, Stale} \cup Publishers

ServiceTypeOK ==
    /\ queue \in [Services -> Seq(Events)]
    /\ at \in [Procs -> Places]
    /\ ev \in [Procs -> Events]
    /\ to \in [Procs -> Services]
    /\ overtaken \in [Procs -> BOOLEAN]
    /\ goroutineNum \in [Services -> Nat]
    /\ releases \in [Services -> Nat]
    /\ mapRegListener \in [Publishers -> SUBSET Services]
    /\ mapBindPublisherCb \in [Services -> SUBSET Events]

-----------------------------------------------------------------------------
(* Who releases a service *)

\* The goroutines of s that still handle events.
Running(s) == {w \in WorkersOf(s) : at[w] \notin {"release", "done"}}

\* goroutineNum counts them. While there is one nobody releases the service; when there
\* is none either one goroutine is about to, or it has happened.
StopInv ==
    /\ \A s \in Services :
        /\ goroutineNum[s] = Cardinality(Running(s))
        /\ Running(s) # {} => releases[s] = 0 /\ \A w \in WorkersOf(s) : at[w] # "release"
        /\ Running(s) = {} =>
              \/ releases[s] = 1 /\ \A w \in WorkersOf(s) : at[w] = "done"
              \/ releases[s] = 0 /\ \E w \in WorkersOf(s) :
                    at[w] = "release" /\ \A v \in WorkersOf(s) : v # w => at[v] = "done"
    /\ stopped => \A w \in Workers : at[w] = "done"

LEMMA RunningFinite ==
  ASSUME NEW s \in Services
  PROVE  IsFiniteSet(WorkersOf(s)) /\ IsFiniteSet(Running(s))
  <1>1. WorkersOf(s) \subseteq Workers /\ Running(s) \subseteq WorkersOf(s)
    BY DEF WorkersOf, Running
  <1> QED BY <1>1, FS_Subset, ServiceAssumption

\* The steps that take no goroutine out of its loop.
LEMMA StopStays ==
  ASSUME StopInv, UNCHANGED <<goroutineNum, releases>>, stopped' => stopped \/ \A w \in Workers : at'[w] = "done",
         \A w \in Workers : (at[w] \in {"release", "done"} \/ at'[w] \in {"release", "done"}) => at'[w] = at[w]
  PROVE  StopInv'
  <1>1. ASSUME NEW s \in Services PROVE Running(s)' = Running(s)
    BY DEF Running, WorkersOf
  <1>2. ASSUME NEW s \in Services, NEW w \in WorkersOf(s)
        PROVE  (at'[w] = "done" <=> at[w] = "done") /\ (at'[w] = "release" <=> at[w] = "release")
    BY <1>2 DEF WorkersOf
  <1>3. stopped' => \A w \in Workers : at'[w] = "done"
    BY DEF StopInv
  <1> QED BY <1>1, <1>2, <1>3 DEF StopInv, WorkersOf

\* The last goroutine that sees the signal, and no other, goes on to release.
LEMMA StopInvSeeClose ==
  ASSUME StopInv, ServiceTypeOK, NEW w \in Workers, SeeClose(w)
  PROVE  StopInv'
  <1> DEFINE s == ServiceOf[w]
             R == Running(s)
  <1>1. s \in Services /\ w \in WorkersOf(s) /\ w \in R
    BY ServiceAssumption DEF WorkersOf, Running, SeeClose
  <1>2. /\ goroutineNum' = [goroutineNum EXCEPT ![s] = @ - 1] /\ UNCHANGED <<releases, stopped>>
        /\ at' = [at EXCEPT ![w] = IF goroutineNum'[s] <= 0 THEN "release" ELSE "done"]
        /\ at[w] = "select" /\ w \in Procs
    BY DEF SeeClose, Goto, Procs
  <1>3. /\ IsFiniteSet(R \ {w}) /\ Cardinality(R \ {w}) = Cardinality(R) - 1
        /\ Cardinality(R \ {w}) = 0 <=> R \ {w} = {}
        /\ Cardinality(R \ {w}) \in Nat
    BY <1>1, RunningFinite, FS_RemoveElement, FS_EmptySet, FS_CardinalityType
  <1>4. goroutineNum'[s] = Cardinality(R \ {w})
    BY <1>1, <1>2, <1>3 DEF StopInv, ServiceTypeOK
  <1>5. /\ \A v \in Workers : v # w => at'[v] = at[v]
        /\ at'[w] = IF R \ {w} = {} THEN "release" ELSE "done"
    <2>1. goroutineNum'[s] <= 0 <=> R \ {w} = {}
      <3>1. goroutineNum'[s] \in Nat /\ (goroutineNum'[s] = 0 <=> R \ {w} = {})
        BY <1>3, <1>4, Zenon
      <3>2. goroutineNum'[s] <= 0 <=> goroutineNum'[s] = 0
        BY <3>1
      <3> QED BY <3>1, <3>2, Zenon
    <2>2. at' = [at EXCEPT ![w] = IF R \ {w} = {} THEN "release" ELSE "done"]
      BY <1>2, <2>1
    <2> HIDE DEF R
    <2> QED BY <1>2, <2>2 DEF ServiceTypeOK, Procs
  <1> HIDE DEF s, R
  <1>6. ASSUME NEW q \in Services, q # s
        PROVE  /\ WorkersOf(q) \subseteq Workers \ {w} /\ Running(q)' = Running(q)
               /\ goroutineNum'[q] = goroutineNum[q]
    <2>1. WorkersOf(q) \subseteq Workers \ {w}
      BY <1>6 DEF WorkersOf, s
    <2>2. Running(q)' = Running(q)
      BY <1>5, <2>1 DEF Running
    <2> QED BY <1>2, <1>6, <2>1, <2>2 DEF ServiceTypeOK
  <1>7. Running(s)' = R \ {w}
    <2>1. \A v \in WorkersOf(s) : v \in Running(s)' <=> v \in R /\ v # w
      BY <1>5 DEF Running, R, WorkersOf
    <2> QED BY <2>1 DEF Running, R
  <1>8. ~stopped'
    BY <1>2 DEF StopInv
  <1>9. R # {} /\ releases[s] = 0 /\ \A v \in WorkersOf(s) : at[v] # "release"
    BY <1>1 DEF StopInv, R
  <1>10. R \ {w} # {} => \A v \in WorkersOf(s) : at'[v] # "release"
    BY <1>5, <1>9 DEF WorkersOf
  <1>11. ASSUME R \ {w} = {} PROVE \A v \in WorkersOf(s) : v # w => at'[v] = "done"
    BY <1>5, <1>9, <1>11 DEF WorkersOf, R, Running
  <1>12. ASSUME NEW q \in Services
         PROVE  /\ goroutineNum'[q] = Cardinality(Running(q)')
                /\ Running(q)' # {} => releases'[q] = 0 /\ \A v \in WorkersOf(q) : at'[v] # "release"
                /\ Running(q)' = {} =>
                      \/ releases'[q] = 1 /\ \A v \in WorkersOf(q) : at'[v] = "done"
                      \/ releases'[q] = 0 /\ \E u \in WorkersOf(q) :
                            at'[u] = "release" /\ \A v \in WorkersOf(q) : v # u => at'[v] = "done"
    <2>1. CASE q = s
      BY <1>1, <1>2, <1>4, <1>5, <1>7, <1>9, <1>10, <1>11, <2>1
    <2>2. CASE q # s
      <3>1. \A v \in WorkersOf(q) : at'[v] = at[v]
        BY <1>5, <1>6, <2>2
      <3> QED BY <1>2, <1>6, <2>2, <3>1 DEF StopInv
    <2> QED BY <2>1, <2>2
  <1> QED BY <1>8, <1>12 DEF StopInv, WorkersOf

LEMMA StopInvRelease ==
  ASSUME StopInv, ServiceTypeOK, NEW w \in Workers, Release(w)
  PROVE  StopInv'
  <1>1. ServiceOf[w] \in Services /\ w \in WorkersOf(ServiceOf[w]) /\ w \in Procs
    BY ServiceAssumption DEF WorkersOf, Procs
  <1>2. /\ at[w] = "release" /\ UNCHANGED <<goroutineNum, stopped>>
        /\ releases' = [releases EXCEPT ![ServiceOf[w]] = @ + 1]
        /\ at' = [at EXCEPT ![w] = "done"]
    BY DEF Release, Goto
  <1>3. /\ \A v \in Workers : at'[v] = IF v = w THEN "done" ELSE at[v]
        /\ \A q \in Services : releases'[q] = IF q = ServiceOf[w] THEN releases[q] + 1 ELSE releases[q]
    BY <1>1, <1>2 DEF ServiceTypeOK, Procs
  <1>4. ASSUME NEW q \in Services PROVE Running(q)' = Running(q)
    BY <1>2, <1>3 DEF Running, WorkersOf
  <1>5. ASSUME NEW q \in Services
        PROVE  /\ goroutineNum'[q] = Cardinality(Running(q)')
               /\ Running(q)' # {} => releases'[q] = 0 /\ \A v \in WorkersOf(q) : at'[v] # "release"
               /\ Running(q)' = {} =>
                     \/ releases'[q] = 1 /\ \A v \in WorkersOf(q) : at'[v] = "done"
                     \/ releases'[q] = 0 /\ \E u \in WorkersOf(q) :
                           at'[u] = "release" /\ \A v \in WorkersOf(q) : v # u => at'[v] = "done"
    <2>1. CASE q = ServiceOf[w]
      <3>1. Running(q) = {} /\ releases[q] = 0
        BY <1>1, <1>2, <2>1 DEF StopInv
      <3>2. PICK u \in WorkersOf(q) : at[u] = "release" /\ \A v \in WorkersOf(q) : v # u => at[v] = "done"
        BY <3>1 DEF StopInv
      <3>3. u = w
        BY <1>1, <1>2, <2>1, <3>2
      <3>4. releases'[q] = 1
        BY <1>3, <2>1, <3>1
      <3>5. \A v \in WorkersOf(q) : at'[v] = "done"
        BY <1>3, <3>2, <3>3 DEF WorkersOf
      <3> QED BY <1>2, <1>4, <3>1, <3>4, <3>5 DEF StopInv
    <2>2. CASE q # ServiceOf[w]
      <3>1. \A v \in WorkersOf(q) : at'[v] = at[v]
        BY <1>3, <2>2 DEF WorkersOf
      <3> QED BY <1>2, <1>3, <1>4, <2>2, <3>1 DEF StopInv
    <2> QED BY <2>1, <2>2
  <1>6. ~stopped'
    BY <1>2 DEF StopInv
  <1> QED BY <1>5, <1>6 DEF StopInv, WorkersOf

-----------------------------------------------------------------------------
(* The steps *)

Pushing ==
    \/ \E x \in Procs, s \in Services : PushRefused(x, s)
    \/ \E x \in Procs, s \in Services, e \in Events : PushTest(x, s, e)
    \/ \E x \in Procs : Send(x)

Broadcasts ==
    \E w \in Workers :
        \/ \E p \in Publishers : BroadCastEvent(w, p)
        \/ BroadCastLocks(w) \/ BroadCastEnds(w)
        \/ \E l \in Services : BroadCastNext(w, l)

Registers ==
    \E w \in Workers :
        \/ \E p \in Publishers : RegEventCb(w, p) \/ UnReg(w, p)
        \/ RegListener(w) \/ RegBind(w)

ModuleChange ==
    \E w \in Workers :
        \/ \E m \in Live, x \in Modules, K \in SUBSET Modules, ok \in BOOLEAN : AddsModule(w, m, x, K, ok)
        \/ \E m \in Live, x \in descendants : ReleasesModule(w, m, x)
        \/ \E m \in Live, x \in descendants : \E v \in Subtree(x), S \in SUBSET descendants :
              ReleasePanics(w, m, x, v, S)

RunsOn == \E w \in Workers : Returns(w) \/ Take(w) \/ SeeClose(w) \/ Release(w)

LEMMA StepCases ==
  ASSUME TreeTypeOK, [Next]_vars
  PROVE  Pushing \/ Broadcasts \/ Registers \/ ModuleChange \/ RunsOn \/ Signal \/ WaitStopAll \/ UNCHANGED vars
  <1>1. Workers \subseteq Procs /\ Pushers \subseteq Procs /\ Listeners = Services /\ Rpc \in Events
    BY ServiceAssumption DEF Procs, Events
  <1>2. ASSUME NEW w \in Workers PROVE OwnPublishers(w) \subseteq Events
    BY ServiceAssumption DEF OwnPublishers, Events, TreeTypeOK
  <1>3. ASSUME NEW w \in Workers, Begins(w) PROVE Pushing \/ Broadcasts \/ Registers \/ ModuleChange
    <2>1. CASE \E s \in Services : PushRefused(w, s) \/ \E e \in {Rpc} \cup OwnPublishers(w) : PushTest(w, s, e)
      BY <1>1, <1>2, <2>1 DEF Pushing
    <2>2. CASE \E p \in Publishers : BroadCastEvent(w, p) \/ RegEventCb(w, p) \/ UnReg(w, p)
      BY <2>2 DEF Broadcasts, Registers
    <2>3. CASE \E m \in Live, x \in Modules, K \in {{}} \cup {{y} : y \in Modules}, ok \in BOOLEAN :
                 AddsModule(w, m, x, K, ok)
      BY <2>3 DEF ModuleChange
    <2>4. CASE \E m \in Live, x \in descendants :
                 \/ ReleasesModule(w, m, x)
                 \/ \E v \in Subtree(x), S \in SUBSET descendants : ReleasePanics(w, m, x, v, S)
      BY <2>4 DEF ModuleChange
    <2> QED BY <1>3, <2>1, <2>2, <2>3, <2>4 DEF Begins
  <1>4. ASSUME NEW w \in Workers, Continues(w) PROVE Pushing \/ Broadcasts \/ Registers \/ RunsOn
    BY <1>1, <1>4 DEF Continues, Pushing, Broadcasts, Registers, RunsOn
  <1>5. ASSUME NEW x \in Pushers, PusherNext(x) PROVE Pushing
    BY <1>1, <1>5 DEF PusherNext, Pushing
  <1> QED BY <1>3, <1>4, <1>5 DEF Next

LEMMA TypeInit == Init => ServiceTypeOK /\ TreeTypeOK
  <1> SUFFICES ASSUME Init PROVE ServiceTypeOK /\ TreeTypeOK
    OBVIOUS
  <1>1. queue \in [Services -> Seq(Events)]
    BY ServiceAssumption DEF Init, Events
  <1>2. /\ at \in [Procs -> Places] /\ ev \in [Procs -> Events] /\ to \in [Procs -> Services]
        /\ overtaken \in [Procs -> BOOLEAN]
        /\ releases \in [Services -> Nat]
    BY ServiceAssumption DEF Init, Places, Events
  <1>3. goroutineNum \in [Services -> Nat]
    BY RunningFinite, FS_CardinalityType DEF Init
  <1>4. /\ mapRegListener \in [Publishers -> SUBSET Services]
        /\ mapBindPublisherCb \in [Services -> SUBSET Events]
    BY ServiceAssumption DEF Init, EventsInit, Events
  <1>5. TreeTypeOK
    BY DEF Init, TreeInit, TreeTypeOK
  <1> QED BY <1>1, <1>2, <1>3, <1>4, <1>5 DEF ServiceTypeOK

LEMMA TypePushing ==
  ASSUME ServiceTypeOK, Pushing
  PROVE  ServiceTypeOK'
  <1>1. ASSUME NEW x \in Procs, NEW s \in Services, PushRefused(x, s) PROVE ServiceTypeOK'
    BY <1>1 DEF PushRefused, procVars, stopVars, eventVars, ServiceTypeOK
  <1>2. ASSUME NEW x \in Procs, NEW s \in Services, NEW e \in Events, PushTest(x, s, e) PROVE ServiceTypeOK'
    <2>1. at' \in [Procs -> Places] /\ ev' \in [Procs -> Events] /\ to' \in [Procs -> Services]
      BY <1>2 DEF PushTest, Goto, Places, ServiceTypeOK
    <2> QED BY <1>2, <2>1 DEF PushTest, stopVars, eventVars, ServiceTypeOK
  <1>3. ASSUME NEW x \in Procs, Send(x) PROVE ServiceTypeOK'
    <2>1. queue' \in [Services -> Seq(Events)]
      <3>1. to[x] \in Services /\ ev[x] \in Events /\ queue \in [Services -> Seq(Events)]
        BY DEF ServiceTypeOK
      <3>2. Append(queue[to[x]], ev[x]) \in Seq(Events)
        BY <3>1
      <3> QED BY <1>3, <3>1, <3>2 DEF Send
    <2>2. at' \in [Procs -> Places] /\ ev' \in [Procs -> Events] /\ to' \in [Procs -> Services]
      <3>1. Stale \in Events /\ Host \in Services
        BY ServiceAssumption DEF Events
      <3> QED BY <1>3, <3>1 DEF Send, Goto, Forget, Places, ServiceTypeOK
    <2>3. overtaken' \in [Procs -> BOOLEAN]
      BY <1>3 DEF Send
    <2> QED BY <1>3, <2>1, <2>2, <2>3 DEF Send, stopVars, eventVars, ServiceTypeOK
  <1> QED BY <1>1, <1>2, <1>3 DEF Pushing

LEMMA TypeBroadcasts ==
  ASSUME ServiceTypeOK, Broadcasts
  PROVE  ServiceTypeOK'
  <1>1. Workers \subseteq Procs /\ Publishers \subseteq Events /\ Stale \in Events /\ Host \in Services
    BY ServiceAssumption DEF Procs, Events
  <1>2. ASSUME NEW w \in Workers, NEW p \in Publishers, BroadCastEvent(w, p) PROVE ServiceTypeOK'
    <2>1. at' \in [Procs -> Places] /\ ev' \in [Procs -> Events]
      BY <1>1, <1>2 DEF BroadCastEvent, Goto, Places, ServiceTypeOK
    <2> QED BY <1>2, <2>1 DEF BroadCastEvent, stopVars, eventVars, ServiceTypeOK
  <1>3. ASSUME NEW w \in Workers, BroadCastLocks(w) PROVE ServiceTypeOK'
    <2>1. at' \in [Procs -> Places]
      BY <1>3 DEF BroadCastLocks, Goto, Places, ServiceTypeOK
    <2> QED BY <1>3, <2>1 DEF BroadCastLocks, LockPublisher, stopVars, ServiceTypeOK
  <1>4. ASSUME NEW w \in Workers, BroadCastEnds(w) PROVE ServiceTypeOK'
    <2>1. at' \in [Procs -> Places] /\ ev' \in [Procs -> Events] /\ to' \in [Procs -> Services]
      BY <1>1, <1>4 DEF BroadCastEnds, Goto, Forget, Places, ServiceTypeOK
    <2> QED BY <1>4, <2>1 DEF BroadCastEnds, UnlockPublisher, stopVars, ServiceTypeOK
  <1>5. ASSUME NEW w \in Workers, NEW l \in Services, BroadCastNext(w, l) PROVE ServiceTypeOK'
    <2>1. at' \in [Procs -> Places] /\ to' \in [Procs -> Services]
      BY <1>5 DEF BroadCastNext, Goto, Places, ServiceTypeOK
    <2> QED BY <1>5, <2>1 DEF BroadCastNext, stopVars, eventVars, ServiceTypeOK
  <1> QED BY <1>2, <1>3, <1>4, <1>5 DEF Broadcasts

LEMMA TypeRegisters ==
  ASSUME ServiceTypeOK, Registers
  PROVE  ServiceTypeOK'
  <1>1. Workers \subseteq Procs /\ Publishers \subseteq Events /\ Stale \in Events /\ Host \in Services
    BY ServiceAssumption DEF Procs, Events
  <1>2. ASSUME NEW w \in Workers, NEW p \in Publishers, RegEventCb(w, p) PROVE ServiceTypeOK'
    <2>1. at' \in [Procs -> Places] /\ ev' \in [Procs -> Events]
      BY <1>1, <1>2 DEF RegEventCb, Goto, Places, ServiceTypeOK
    <2> QED BY <1>2, <2>1 DEF RegEventCb, stopVars, eventVars, ServiceTypeOK
  <1>3. ASSUME NEW w \in Workers, NEW p \in Publishers, UnReg(w, p) PROVE ServiceTypeOK'
    <2>1. /\ mapRegListener' \in [Publishers -> SUBSET Services]
          /\ mapBindPublisherCb' \in [Services -> SUBSET Events]
      BY <1>3 DEF UnReg, UnRegEventCb, ServiceTypeOK
    <2> QED BY <1>3, <2>1 DEF UnReg, procVars, stopVars, ServiceTypeOK
  <1>4. ASSUME NEW w \in Workers, RegListener(w) PROVE ServiceTypeOK'
    <2>1. at' \in [Procs -> Places] /\ mapRegListener' \in [Publishers -> SUBSET Services]
      BY <1>1, <1>4 DEF RegListener, addRegListenerInfo, Goto, Places, ServiceTypeOK
    <2> QED BY <1>4, <2>1 DEF RegListener, addRegListenerInfo, stopVars, ServiceTypeOK
  <1>5. ASSUME NEW w \in Workers, RegBind(w) PROVE ServiceTypeOK'
    <2>1. at' \in [Procs -> Places] /\ ev' \in [Procs -> Events] /\ to' \in [Procs -> Services]
      BY <1>1, <1>5 DEF RegBind, Goto, Forget, Places, ServiceTypeOK
    <2>2. mapBindPublisherCb' \in [Services -> SUBSET Events]
      BY <1>1, <1>5 DEF RegBind, addBindEvent, ServiceTypeOK
    <2> QED BY <1>5, <2>1, <2>2 DEF RegBind, addBindEvent, stopVars, ServiceTypeOK
  <1> QED BY <1>2, <1>3, <1>4, <1>5 DEF Registers

\* A queue in which some events have become stale.
LEMMA StaleQueue ==
  ASSUME NEW q \in Seq(Events), NEW D
  PROVE  LET r == [i \in DOMAIN q |-> IF q[i] \in D THEN Stale ELSE q[i]]
         IN r \in Seq(Events) /\ Len(r) = Len(q)
  BY DEF Events

LEMMA TypeModuleChange ==
  ASSUME ServiceTypeOK, ModuleChange
  PROVE  ServiceTypeOK'
  <1>1. ASSUME NEW w \in Workers, NEW m \in Live, NEW x \in Modules, NEW K \in SUBSET Modules,
               NEW ok \in BOOLEAN, AddsModule(w, m, x, K, ok)
        PROVE  ServiceTypeOK'
    <2>1. queue \in [Services -> Seq(Events)]
      BY DEF ServiceTypeOK
    <2>2. \A s \in Services : queue'[s] \in Seq(Events)
      BY <1>1, <2>1, StaleQueue DEF AddsModule
    <2>3. queue' = [s \in Services |-> queue'[s]]
      BY <1>1 DEF AddsModule
    <2>4. queue' \in [Services -> Seq(Events)]
      BY <2>2, <2>3
    <2> QED BY <1>1, <2>4 DEF AddsModule, procVars, stopVars, eventVars, ServiceTypeOK
  <1>2. ASSUME NEW D, Destroy(D)
        PROVE  /\ mapRegListener' \in [Publishers -> SUBSET Services]
               /\ mapBindPublisherCb' \in [Services -> SUBSET Events]
    BY <1>2, ServiceAssumption DEF Destroy, ServiceTypeOK
  <1>3. ASSUME NEW w \in Workers, NEW m, NEW x, ReleasesModule(w, m, x) PROVE ServiceTypeOK'
    <2>1. /\ mapRegListener' \in [Publishers -> SUBSET Services]
          /\ mapBindPublisherCb' \in [Services -> SUBSET Events]
      BY <1>2, <1>3 DEF ReleasesModule
    <2> QED BY <1>3, <2>1 DEF ReleasesModule, procVars, stopVars, ServiceTypeOK
  <1>4. ASSUME NEW w \in Workers, NEW m, NEW x, NEW v, NEW S, ReleasePanics(w, m, x, v, S) PROVE ServiceTypeOK'
    <2>1. /\ mapRegListener' \in [Publishers -> SUBSET Services]
          /\ mapBindPublisherCb' \in [Services -> SUBSET Events]
      BY <1>2, <1>4 DEF ReleasePanics
    <2>2. at' \in [Procs -> Places]
      BY <1>4 DEF ReleasePanics, Goto, Places, ServiceTypeOK
    <2> QED BY <1>4, <2>1, <2>2 DEF ReleasePanics, stopVars, ServiceTypeOK
  <1> QED BY <1>1, <1>3, <1>4 DEF ModuleChange

LEMMA TypeRunsOn ==
  ASSUME ServiceTypeOK, StopInv', RunsOn
  PROVE  ServiceTypeOK'
  <1>1. ASSUME NEW w \in Workers, Returns(w) PROVE ServiceTypeOK'
    <2>1. at' \in [Procs -> Places]
      BY <1>1 DEF Returns, Goto, Places, ServiceTypeOK
    <2> QED BY <1>1, <2>1 DEF Returns, stopVars, eventVars, ServiceTypeOK
  <1>2. ASSUME NEW w \in Workers, Take(w) PROVE ServiceTypeOK'
    <2>1. at' \in [Procs -> Places]
      BY <1>2 DEF Take, Goto, Places, ServiceTypeOK
    <2>2. ServiceOf[w] \in Services /\ queue \in [Services -> Seq(Events)] /\ queue[ServiceOf[w]] # <<>>
      BY <1>2, ServiceAssumption DEF ServiceTypeOK, Take
    <2>3. Tail(queue[ServiceOf[w]]) \in Seq(Events)
      BY <2>2
    <2>4. queue' \in [Services -> Seq(Events)]
      BY <1>2, <2>2, <2>3 DEF Take
    <2> QED BY <1>2, <2>1, <2>4 DEF Take, stopVars, eventVars, ServiceTypeOK
  <1>3. ASSUME NEW w \in Workers, SeeClose(w) PROVE ServiceTypeOK'
    <2>1. at' \in [Procs -> Places]
      BY <1>3 DEF SeeClose, Goto, Places, ServiceTypeOK
    <2>2. \A s \in Services : goroutineNum'[s] \in Nat
      <3> SUFFICES ASSUME NEW s \in Services PROVE goroutineNum'[s] \in Nat
        OBVIOUS
      <3>1. IsFiniteSet(Running(s)')
        <4>1. Running(s)' \subseteq WorkersOf(s)
          BY DEF Running
        <4> QED BY <4>1, RunningFinite, FS_Subset
      <3>2. Cardinality(Running(s)') \in Nat
        BY <3>1, FS_CardinalityType
      <3> QED BY <3>2 DEF StopInv
    <2>3. goroutineNum' = [s \in Services |-> goroutineNum'[s]]
      BY <1>3 DEF SeeClose, ServiceTypeOK
    <2>4. goroutineNum' \in [Services -> Nat]
      BY <2>2, <2>3
    <2> QED BY <1>3, <2>1, <2>4 DEF SeeClose, eventVars, ServiceTypeOK
  <1>4. ASSUME NEW w \in Workers, Release(w) PROVE ServiceTypeOK'
    <2>1. at' \in [Procs -> Places]
      BY <1>4 DEF Release, Goto, Places, ServiceTypeOK
    <2>2. releases' \in [Services -> Nat]
      <3>1. releases \in [Services -> Nat] /\ ServiceOf[w] \in Services
        BY ServiceAssumption DEF ServiceTypeOK
      <3>2. releases' = [releases EXCEPT ![ServiceOf[w]] = @ + 1]
        BY <1>4 DEF Release
      <3> QED BY <3>1, <3>2
    <2> QED BY <1>4, <2>1, <2>2 DEF Release, eventVars, ServiceTypeOK
  <1> QED BY <1>1, <1>2, <1>3, <1>4 DEF RunsOn

LEMMA TypeStep ==
  ASSUME ServiceTypeOK, TreeTypeOK, StopInv', [Next]_vars
  PROVE  ServiceTypeOK'
  <1>1. CASE Signal \/ WaitStopAll \/ UNCHANGED vars
    BY <1>1 DEF Signal, WaitStopAll, vars, procVars, stopVars, eventVars, ServiceTypeOK
  <1> QED BY <1>1, StepCases, TypePushing, TypeBroadcasts, TypeRegisters, TypeModuleChange, TypeRunsOn

-----------------------------------------------------------------------------

LEMMA StopInvInit == Init => StopInv
  <1> SUFFICES ASSUME Init PROVE StopInv
    OBVIOUS
  <1>1. \A w \in Workers : at[w] = "select"
    BY DEF Init, Procs
  <1>2. ASSUME NEW s \in Services PROVE Running(s) = WorkersOf(s) /\ WorkersOf(s) # {}
    BY <1>1, ServiceAssumption DEF Running, WorkersOf
  <1>3. ~stopped /\ \A s \in Services : releases[s] = 0 /\ goroutineNum[s] = Cardinality(WorkersOf(s))
    BY DEF Init
  <1> QED BY <1>1, <1>2, <1>3 DEF StopInv, WorkersOf

LEMMA StopInvStep ==
  ASSUME StopInv, ServiceTypeOK, TreeTypeOK, [Next]_vars
  PROVE  StopInv'
  <1>1. CASE Pushing
    <2>1. UNCHANGED <<goroutineNum, releases, stopped>>
      BY <1>1 DEF Pushing, PushRefused, PushTest, Send, stopVars
    <2>2. \A w \in Workers : (at[w] \in {"release", "done"} \/ at'[w] \in {"release", "done"}) => at'[w] = at[w]
      BY <1>1 DEF Pushing, PushRefused, PushTest, Pushes, Send, Goto, procVars, ServiceTypeOK, Procs
    <2> QED BY <2>1, <2>2, StopStays
  <1>2. CASE Broadcasts
    <2>1. UNCHANGED <<goroutineNum, releases, stopped>>
      BY <1>2 DEF Broadcasts, BroadCastEvent, BroadCastLocks, BroadCastNext, BroadCastEnds, stopVars
    <2>2. \A w \in Workers : (at[w] \in {"release", "done"} \/ at'[w] \in {"release", "done"}) => at'[w] = at[w]
      BY <1>2 DEF Broadcasts, BroadCastEvent, BroadCastLocks, BroadCastNext, BroadCastEnds, Pushes, Goto, ServiceTypeOK, Procs
    <2> QED BY <2>1, <2>2, StopStays
  <1>3. CASE Registers
    <2>1. UNCHANGED <<goroutineNum, releases, stopped>>
      BY <1>3 DEF Registers, RegEventCb, RegListener, RegBind, UnReg, stopVars
    <2>2. \A w \in Workers : (at[w] \in {"release", "done"} \/ at'[w] \in {"release", "done"}) => at'[w] = at[w]
      BY <1>3 DEF Registers, RegEventCb, RegListener, RegBind, UnReg, Changes, MayChange, Goto, procVars, ServiceTypeOK, Procs
    <2> QED BY <2>1, <2>2, StopStays
  <1>4. CASE ModuleChange
    <2>1. UNCHANGED <<goroutineNum, releases, stopped>>
      BY <1>4 DEF ModuleChange, AddsModule, ReleasesModule, ReleasePanics, stopVars
    <2>2. \A w \in Workers : (at[w] \in {"release", "done"} \/ at'[w] \in {"release", "done"}) => at'[w] = at[w]
      BY <1>4 DEF ModuleChange, AddsModule, ReleasesModule, ReleasePanics, Changes, MayChange, Goto, procVars, ServiceTypeOK, Procs
    <2> QED BY <2>1, <2>2, StopStays
  <1>5. CASE \E w \in Workers : Returns(w) \/ Take(w)
    <2>1. UNCHANGED <<goroutineNum, releases, stopped>>
      BY <1>5 DEF Returns, Take, stopVars
    <2>2. \A w \in Workers : (at[w] \in {"release", "done"} \/ at'[w] \in {"release", "done"}) => at'[w] = at[w]
      BY <1>5 DEF Returns, Take, Goto, ServiceTypeOK, Procs
    <2> QED BY <2>1, <2>2, StopStays
  <1>6. CASE Signal \/ WaitStopAll \/ UNCHANGED vars
    BY <1>6, StopStays DEF Signal, WaitStopAll, vars, procVars, stopVars
  <1> QED BY <1>1, <1>2, <1>3, <1>4, <1>5, <1>6, StepCases, StopInvSeeClose, StopInvRelease DEF RunsOn

-----------------------------------------------------------------------------
(* pushEvent *)

\* Whoever has tested a queue and not sent yet still finds room, if the capacity is what
\* the test compares with, unless it was overtaken.
PushInv == \A x \in Procs : at[x] = "send" => overtaken[x] \/ Len(queue[to[x]]) < Limit

\* The steps that lengthen no queue.
LEMMA PushStays ==
  ASSUME PushInv, ServiceTypeOK, ServiceTypeOK', UNCHANGED overtaken,
         \A s \in Services : Len(queue'[s]) <= Len(queue[s]),
         \A x \in Procs : at'[x] = "send" =>
            (at[x] = "send" /\ to'[x] = to[x]) \/ Len(queue'[to'[x]]) < Limit
  PROVE  PushInv'
  <1> SUFFICES ASSUME NEW x \in Procs, at'[x] = "send", ~overtaken[x] PROVE Len(queue'[to'[x]]) < Limit
    BY DEF PushInv
  <1>1. CASE at[x] = "send" /\ to'[x] = to[x]
    <2>1. to[x] \in Services /\ Len(queue[to[x]]) < Limit
      BY <1>1 DEF PushInv, ServiceTypeOK
    <2>2. Len(queue[to[x]]) \in Nat /\ Len(queue'[to[x]]) \in Nat /\ Limit \in Nat
      <3>1. queue[to[x]] \in Seq(Events) /\ queue'[to[x]] \in Seq(Events)
        BY <2>1 DEF ServiceTypeOK
      <3> QED BY <3>1, ServiceAssumption
    <2> QED BY <1>1, <2>1, <2>2
  <1> QED BY <1>1

\* The queues and the goroutines that push are left alone.
LEMMA PushQuiet ==
  ASSUME PushInv, ServiceTypeOK, ServiceTypeOK', UNCHANGED <<queue, to, overtaken>>,
         \A x \in Procs : at'[x] = "send" => at[x] = "send"
  PROVE  PushInv'
  <1>1. ASSUME NEW s \in Services PROVE Len(queue'[s]) <= Len(queue[s])
    <2>1. queue[s] \in Seq(Events)
      BY DEF ServiceTypeOK
    <2>2. Len(queue[s]) \in Nat
      BY <2>1
    <2> QED BY <2>2
  <1> QED BY <1>1, PushStays

LEMMA PushInvStep ==
  ASSUME PushInv, ServiceTypeOK, ServiceTypeOK', TreeTypeOK, [Next]_vars
  PROVE  PushInv'
  <1>0. /\ Workers \subseteq Procs /\ Limit \in Nat
        /\ \A s \in Services : queue[s] \in Seq(Events) /\ Len(queue[s]) \in Nat
    <2>1. \A s \in Services : queue[s] \in Seq(Events)
      BY DEF ServiceTypeOK
    <2> QED BY <2>1, ServiceAssumption DEF Procs
  <1>1. ASSUME NEW x \in Procs, NEW s \in Services, PushRefused(x, s) PROVE PushInv'
    BY <1>1, PushQuiet DEF PushRefused, procVars
  <1>2. ASSUME NEW x \in Procs, NEW s \in Services, NEW e \in Events, PushTest(x, s, e) PROVE PushInv'
    <2>1. UNCHANGED <<queue, overtaken>> /\ Len(queue[s]) < Limit
      BY <1>0, <1>2 DEF PushTest, IsFull
    <2>2. \A y \in Procs : /\ at'[y] = IF y = x THEN "send" ELSE at[y]
                           /\ to'[y] = IF y = x THEN s ELSE to[y]
      BY <1>2 DEF PushTest, Goto, ServiceTypeOK
    <2> QED BY <1>0, <2>1, <2>2, PushStays
  <1>3. ASSUME NEW x \in Procs, Send(x) PROVE PushInv'
    <2> SUFFICES ASSUME NEW y \in Procs, at'[y] = "send", ~overtaken'[y] PROVE Len(queue'[to'[y]]) < Limit
      BY DEF PushInv
    <2>1. y # x /\ at[y] = "send" /\ to'[y] = to[y]
      <3>1. \/ at' = [at EXCEPT ![x] = "broadcast"] /\ UNCHANGED to
            \/ /\ at' = [at EXCEPT ![x] = IF x \in Pushers THEN "idle" ELSE "run"]
               /\ to' = [to EXCEPT ![x] = Host]
        BY <1>3 DEF Send, Goto, Forget
      <3> QED BY <3>1 DEF ServiceTypeOK
    <2>2. to[y] # to[x] /\ ~overtaken[y]
      BY <1>3, <2>1 DEF Send
    <2>3. queue'[to[y]] = queue[to[y]]
      BY <1>3, <2>2 DEF Send, ServiceTypeOK
    <2> QED BY <2>1, <2>2, <2>3 DEF PushInv
  <1>4. CASE Pushing
    BY <1>1, <1>2, <1>3, <1>4 DEF Pushing
  <1>5. ASSUME NEW w \in Workers, NEW p, BroadCastEvent(w, p) PROVE PushInv'
    <2>1. \A x \in Procs : at'[x] = "send" => at[x] = "send"
      BY <1>0, <1>5 DEF BroadCastEvent, Goto, ServiceTypeOK
    <2> QED BY <1>5, <2>1, PushQuiet DEF BroadCastEvent
  <1>6. ASSUME NEW w \in Workers, BroadCastLocks(w) PROVE PushInv'
    <2>1. \A x \in Procs : at'[x] = "send" => at[x] = "send"
      BY <1>0, <1>6 DEF BroadCastLocks, Goto, ServiceTypeOK
    <2> QED BY <1>6, <2>1, PushQuiet DEF BroadCastLocks
  <1>7. ASSUME NEW w \in Workers, BroadCastEnds(w) PROVE PushInv'
    <2>1. \A x \in Procs : at'[x] = "send" => at[x] = "send" /\ to'[x] = to[x]
      BY <1>0, <1>7 DEF BroadCastEnds, Goto, Forget, ServiceTypeOK
    <2>2. UNCHANGED <<queue, overtaken>>
      BY <1>7 DEF BroadCastEnds
    <2> QED BY <1>0, <2>1, <2>2, PushStays
  <1>8. ASSUME NEW w \in Workers, NEW l \in Services, BroadCastNext(w, l) PROVE PushInv'
    <2>1. UNCHANGED <<queue, overtaken>>
      BY <1>8 DEF BroadCastNext
    <2>2. \A x \in Procs : /\ at'[x] = IF x = w THEN (IF IsFull(l) THEN "broadcast" ELSE "send") ELSE at[x]
                           /\ to'[x] = IF x = w THEN l ELSE to[x]
      BY <1>8 DEF BroadCastNext, Goto, ServiceTypeOK
    <2>3. ~IsFull(l) => Len(queue[l]) < Limit
      BY <1>0 DEF IsFull
    <2> QED BY <1>0, <2>1, <2>2, <2>3, PushStays
  <1>9. CASE Broadcasts
    BY <1>5, <1>6, <1>7, <1>8, <1>9 DEF Broadcasts
  <1>10. CASE Registers
    <2>1. UNCHANGED <<queue, overtaken>>
      BY <1>10 DEF Registers, RegEventCb, UnReg, RegListener, RegBind, procVars
    <2>2. \A x \in Procs : at'[x] = "send" => at[x] = "send" /\ to'[x] = to[x]
      BY <1>0, <1>10 DEF Registers, RegEventCb, UnReg, RegListener, RegBind, procVars, Goto, Forget, ServiceTypeOK
    <2> QED BY <1>0, <2>1, <2>2, PushStays
  <1>11. ASSUME NEW w \in Workers, NEW m \in Live, NEW x \in Modules, NEW K \in SUBSET Modules,
                NEW ok \in BOOLEAN, AddsModule(w, m, x, K, ok)
         PROVE  PushInv'
    <2>1. UNCHANGED procVars
      BY <1>11 DEF AddsModule
    <2>2. ASSUME NEW s \in Services PROVE Len(queue'[s]) <= Len(queue[s])
      <3>1. queue'[s] = [i \in DOMAIN queue[s] |->
                IF queue[s][i] \in Republished(m, x, K) THEN Stale ELSE queue[s][i]]
        BY <1>11 DEF AddsModule
      <3>2. Len(queue'[s]) = Len(queue[s])
        BY <1>0, <3>1, StaleQueue
      <3> QED BY <1>0, <3>2
    <2> QED BY <2>1, <2>2, PushStays DEF procVars
  <1>12. CASE \E w \in Workers : \E m \in Live, x \in descendants :
                \/ ReleasesModule(w, m, x)
                \/ \E v \in Subtree(x), S \in SUBSET descendants : ReleasePanics(w, m, x, v, S)
    <2>1. UNCHANGED <<queue, overtaken, to>>
      BY <1>12 DEF ReleasesModule, ReleasePanics, procVars
    <2>2. \A x \in Procs : at'[x] = "send" => at[x] = "send"
      BY <1>0, <1>12 DEF ReleasesModule, ReleasePanics, procVars, Goto, ServiceTypeOK
    <2> QED BY <2>1, <2>2, PushQuiet
  <1>13. CASE ModuleChange
    BY <1>11, <1>12, <1>13 DEF ModuleChange
  <1>14. ASSUME NEW w \in Workers, Take(w) PROVE PushInv'
    <2>1. UNCHANGED <<to, overtaken>> /\ ServiceOf[w] \in Services
      BY <1>14, ServiceAssumption DEF Take
    <2>2. \A x \in Procs : at'[x] = "send" => at[x] = "send"
      BY <1>0, <1>14 DEF Take, Goto, ServiceTypeOK
    <2>3. ASSUME NEW s \in Services PROVE Len(queue'[s]) <= Len(queue[s])
      <3>1. CASE s = ServiceOf[w]
        <4>1. queue'[s] = Tail(queue[s]) /\ queue[s] # <<>>
          BY <1>14, <3>1 DEF Take, ServiceTypeOK
        <4>2. Len(queue'[s]) = Len(queue[s]) - 1
          BY <1>0, <4>1
        <4> QED BY <1>0, <4>2
      <3>2. CASE s # ServiceOf[w]
        <4>1. queue'[s] = queue[s]
          BY <1>14, <3>2 DEF Take, ServiceTypeOK
        <4> QED BY <1>0, <4>1
      <3> QED BY <3>1, <3>2
    <2> QED BY <2>1, <2>2, <2>3, PushStays
  <1>15. CASE \E w \in Workers : Returns(w) \/ SeeClose(w) \/ Release(w)
    <2>1. UNCHANGED <<queue, to, overtaken>>
      BY <1>15 DEF Returns, SeeClose, Release
    <2>2. \A x \in Procs : at'[x] = "send" => at[x] = "send"
      BY <1>0, <1>15 DEF Returns, SeeClose, Release, Goto, ServiceTypeOK
    <2> QED BY <2>1, <2>2, PushQuiet
  <1>16. CASE RunsOn
    BY <1>14, <1>15, <1>16 DEF RunsOn
  <1>17. CASE Signal \/ WaitStopAll \/ UNCHANGED vars
    BY <1>17, PushQuiet DEF Signal, WaitStopAll, vars, procVars
  <1> QED BY <1>4, <1>9, <1>10, <1>13, <1>16, <1>17, StepCases

-----------------------------------------------------------------------------
(* The maps of listeners *)

Agree(l, p) == l \in mapRegListener[p] <=> p \in mapBindPublisherCb[l]

\* RegEventCb runs on Host's only goroutine and for a publisher that exists; between its
\* halves the publisher knows the listener already.
MapInv ==
    /\ \A w \in Workers : at[w] \in {"register", "bind"} =>
          ServiceOf[w] = Host /\ ev[w] \in Services \cup attached
    /\ \A w \in Workers : at[w] = "bind" => Host \in mapRegListener[ev[w]]
    /\ ListenersAgree

\* Host has one goroutine.
LEMMA HostAlone ==
  ASSUME NEW v \in Workers, NEW w \in Workers, ServiceOf[v] = Host, ServiceOf[w] = Host
  PROVE  v = w
  <1>1. IsFiniteSet(WorkersOf(Host)) /\ Cardinality(WorkersOf(Host)) = 1
    BY RunningFinite, ServiceAssumption
  <1>2. PICK x : WorkersOf(Host) = {x}
    BY <1>1, FS_Singleton
  <1> QED BY <1>2 DEF WorkersOf

\* Only the registration that is being made may be known at one end alone.
LEMMA AgreeElsewhere ==
  ASSUME MapInv, NEW w \in Workers, ServiceOf[w] = Host, NEW l \in Services, NEW p \in Publishers,
         at[w] = "bind" => ~(l = Host /\ p = ev[w])
  PROVE  Agree(l, p)
  <1>1. ASSUME NEW v \in WorkersOf(l), at[v] = "bind" PROVE ev[v] # p
    <2>1. v \in Workers /\ ServiceOf[v] = l /\ l = Host
      BY <1>1 DEF WorkersOf, MapInv
    <2>2. v = w
      BY <2>1, HostAlone
    <2> QED BY <1>1, <2>1, <2>2
  <1> QED BY <1>1, ServiceAssumption DEF MapInv, ListenersAgree, Agree

\* The steps that change no registration.
LEMMA MapStays ==
  ASSUME MapInv, UNCHANGED <<mapRegListener, mapBindPublisherCb>>, attached \subseteq attached',
         \A w \in Workers : at'[w] = "bind" <=> at[w] = "bind",
         \A w \in Workers : at'[w] = "bind" => ev'[w] = ev[w],
         \A w \in Workers : at'[w] = "register" =>
            \/ at[w] = "register" /\ ev'[w] = ev[w]
            \/ ServiceOf[w] = Host /\ ev'[w] \in Services \cup attached
  PROVE  MapInv'
  <1>1. ListenersAgree'
    <2> SUFFICES ASSUME NEW l \in Listeners, NEW p \in Publishers,
                        \A w \in WorkersOf(l) : at'[w] = "bind" => ev'[w] # p
                 PROVE  l \in mapRegListener[p] <=> p \in mapBindPublisherCb[l]
      BY DEF ListenersAgree
    <2>1. \A w \in WorkersOf(l) : at[w] = "bind" => ev[w] # p
      BY DEF WorkersOf
    <2> QED BY <2>1 DEF MapInv, ListenersAgree
  <1>2. ASSUME NEW w \in Workers, at'[w] \in {"register", "bind"}
        PROVE  ServiceOf[w] = Host /\ ev'[w] \in Services \cup attached'
    BY <1>2 DEF MapInv
  <1>3. ASSUME NEW w \in Workers, at'[w] = "bind" PROVE Host \in mapRegListener'[ev'[w]]
    BY <1>3 DEF MapInv
  <1> QED BY <1>1, <1>2, <1>3 DEF MapInv

\* Nobody registers in a step that leaves all registrations known at both ends.
LEMMA MapAgrees ==
  ASSUME \A l \in Services, p \in Publishers : Agree(l, p)',
         \A w \in Workers : at'[w] \notin {"register", "bind"}
  PROVE  MapInv'
  BY ServiceAssumption DEF MapInv, ListenersAgree, Agree

LEMMA MapRegisters ==
  ASSUME MapInv, ServiceTypeOK, TreeTypeOK, Registers
  PROVE  MapInv'
  <1>0. Workers \subseteq Procs /\ Host \in Services /\ Services \cup attached \subseteq Publishers
    BY ServiceAssumption DEF Procs, TreeTypeOK
  <1>1. ASSUME NEW w \in Workers, NEW p \in Publishers, RegEventCb(w, p) PROVE MapInv'
    <2>1. /\ UNCHANGED <<mapRegListener, mapBindPublisherCb, attached>>
          /\ at[w] = "run" /\ ServiceOf[w] = Host /\ p \in Services \cup attached
      BY <1>1 DEF RegEventCb, Changes, MayChange, eventVars, treeVars, TreeTypeOK
    <2>2. \A v \in Workers : /\ at'[v] = IF v = w THEN "register" ELSE at[v]
                             /\ ev'[v] = IF v = w THEN p ELSE ev[v]
      BY <1>0, <1>1 DEF RegEventCb, Goto, ServiceTypeOK
    <2> QED BY <2>1, <2>2, MapStays
  <1>2. ASSUME NEW w \in Workers, ServiceOf[w] = Host, NEW v \in Workers, at[w] \notin {"register", "bind"}
        PROVE  at[v] \notin {"register", "bind"}
    BY <1>2, HostAlone DEF MapInv
  <1>3. ASSUME NEW w \in Workers, NEW p \in Publishers, UnReg(w, p) PROVE MapInv'
    <2>1. UNCHANGED at /\ at[w] = "run" /\ ServiceOf[w] = Host
      BY <1>3 DEF UnReg, Changes, MayChange, procVars
    <2>2. ASSUME NEW l \in Services, NEW q \in Publishers PROVE Agree(l, q)'
      <3>1. Agree(l, q)
        BY <2>1, AgreeElsewhere
      <3>2. /\ mapRegListener'[q] = IF q = p THEN mapRegListener[q] \ {Host} ELSE mapRegListener[q]
            /\ mapBindPublisherCb'[l] = IF l = Host THEN mapBindPublisherCb[l] \ {p} ELSE mapBindPublisherCb[l]
        BY <1>3 DEF UnReg, UnRegEventCb, ServiceTypeOK
      <3> QED BY <3>1, <3>2 DEF Agree
    <2>3. \A v \in Workers : at'[v] \notin {"register", "bind"}
      BY <1>2, <2>1
    <2> QED BY <2>2, <2>3, MapAgrees
  <1>4. ASSUME NEW w \in Workers, RegListener(w) PROVE MapInv'
    <2>1. at[w] = "register" /\ ServiceOf[w] = Host /\ ev[w] \in Services \cup attached /\ ev[w] \in Publishers
          /\ UNCHANGED <<ev, attached, mapBindPublisherCb>>
      BY <1>0, <1>4 DEF RegListener, addRegListenerInfo, MapInv, treeVars
    <2>2. /\ \A v \in Workers : at'[v] = IF v = w THEN "bind" ELSE at[v]
          /\ \A q \in Publishers : mapRegListener'[q] =
                IF q = ev[w] THEN mapRegListener[q] \cup {Host} ELSE mapRegListener[q]
      BY <1>0, <1>4, <2>1 DEF RegListener, addRegListenerInfo, Goto, ServiceTypeOK
    <2>3. ASSUME NEW v \in Workers, at'[v] \in {"register", "bind"} PROVE v = w
      BY <2>1, <2>2, <2>3, HostAlone DEF MapInv
    <2>4. ASSUME NEW l \in Services, NEW q \in Publishers, ~(l = Host /\ q = ev[w]) PROVE Agree(l, q)'
      <3>1. Agree(l, q)
        BY <2>1, AgreeElsewhere
      <3> QED BY <2>1, <2>2, <2>4, <3>1 DEF Agree
    <2>5. ListenersAgree'
      <3> SUFFICES ASSUME NEW l \in Listeners, NEW q \in Publishers,
                          \A v \in WorkersOf(l) : at'[v] = "bind" => ev'[v] # q
                   PROVE  l \in mapRegListener'[q] <=> q \in mapBindPublisherCb'[l]
        BY DEF ListenersAgree
      <3>1. ~(l = Host /\ q = ev[w])
        BY <2>1, <2>2 DEF WorkersOf
      <3> QED BY <2>4, <3>1, ServiceAssumption DEF Agree
    <2>6. Host \in mapRegListener'[ev'[w]]
      BY <2>1, <2>2
    <2> QED BY <2>1, <2>3, <2>5, <2>6 DEF MapInv
  <1>5. ASSUME NEW w \in Workers, RegBind(w) PROVE MapInv'
    <2>1. at[w] = "bind" /\ ServiceOf[w] = Host /\ ev[w] \in Publishers /\ Host \in mapRegListener[ev[w]]
          /\ UNCHANGED mapRegListener
      BY <1>0, <1>5 DEF RegBind, addBindEvent, MapInv
    <2>2. /\ \A v \in Workers : at'[v] = IF v = w THEN "run" ELSE at[v]
          /\ \A l \in Services : mapBindPublisherCb'[l] =
                IF l = Host THEN mapBindPublisherCb[l] \cup {ev[w]} ELSE mapBindPublisherCb[l]
      BY <1>0, <1>5 DEF RegBind, addBindEvent, Goto, ServiceTypeOK
    <2>3. \A v \in Workers : at'[v] \notin {"register", "bind"}
      BY <2>1, <2>2, HostAlone DEF MapInv
    <2>4. ASSUME NEW l \in Services, NEW q \in Publishers PROVE Agree(l, q)'
      <3>1. CASE l = Host /\ q = ev[w]
        BY <1>0, <2>1, <2>2, <3>1 DEF Agree
      <3>2. CASE ~(l = Host /\ q = ev[w])
        <4>1. Agree(l, q)
          BY <2>1, <3>2, AgreeElsewhere
        <4> QED BY <2>1, <2>2, <3>2, <4>1 DEF Agree
      <3> QED BY <3>1, <3>2
    <2> QED BY <2>3, <2>4, MapAgrees
  <1> QED BY <1>1, <1>3, <1>4, <1>5 DEF Registers

\* Destroy takes a publisher from the maps of all its listeners.
LEMMA MapDestroy ==
  ASSUME MapInv, ServiceTypeOK, NEW w \in Workers, ServiceOf[w] = Host, at[w] = "run",
         NEW D, Destroy(D), \A v \in Workers : at'[v] = at[v] \/ at'[v] = "select"
  PROVE  /\ MapInv'
         /\ \A q \in Publishers : mapRegListener'[q] = IF q \in D THEN {} ELSE mapRegListener[q]
         /\ \A l \in Services, q \in Publishers :
               q \in mapBindPublisherCb'[l] <=> q \in mapBindPublisherCb[l] /\ q \notin D
  <1>1. /\ \A q \in Publishers : mapRegListener'[q] = IF q \in D THEN {} ELSE mapRegListener[q]
        /\ \A l \in Services : mapBindPublisherCb'[l] = mapBindPublisherCb[l] \ {p \in D : l \in mapRegListener[p]}
    BY ServiceAssumption DEF Destroy
  <1>2. \A l \in Services, q \in Publishers : Agree(l, q)
    BY AgreeElsewhere
  <1>3. \A l \in Services, q \in Publishers :
           q \in mapBindPublisherCb'[l] <=> q \in mapBindPublisherCb[l] /\ q \notin D
    BY <1>1, <1>2 DEF Agree
  <1>4. \A l \in Services, q \in Publishers : Agree(l, q)'
    BY <1>1, <1>2, <1>3 DEF Agree
  <1>5. \A v \in Workers : at'[v] \notin {"register", "bind"}
    BY HostAlone DEF MapInv
  <1> QED BY <1>1, <1>3, <1>4, <1>5, MapAgrees

-----------------------------------------------------------------------------
(* The modules *)

TreeInv == TreeTypeOK /\ NoOrphans /\ ReleasedIsGone

\* The steps that change neither modules nor registrations.
LEMMA TreeStays ==
  ASSUME TreeInv, UNCHANGED <<treeVars, mapRegListener, mapBindPublisherCb>>
  PROVE  TreeInv'
  BY DEF TreeInv, treeVars, TreeTypeOK, NoOrphans, ReleasedIsGone, HasCallback, Subtree

\* Registrations are made with publishers that exist.
LEMMA TreeRegisters ==
  ASSUME TreeInv, MapInv, ServiceTypeOK, Registers
  PROVE  TreeInv'
  <1>1. UNCHANGED treeVars
    BY DEF Registers, RegEventCb, UnReg, RegListener, RegBind
  <1>2. TreeTypeOK' /\ NoOrphans'
    BY <1>1 DEF TreeInv, treeVars, TreeTypeOK, NoOrphans, Subtree
  <1>3. ASSUME NEW x \in Modules \ attached
        PROVE  /\ mapRegListener'[x] \subseteq mapRegListener[x]
               /\ \A l \in Services : x \in mapBindPublisherCb'[l] => x \in mapBindPublisherCb[l]
    <2>1. x \in Publishers /\ x \notin Services \cup attached
      BY <1>3, ServiceAssumption
    <2>2. ASSUME NEW w \in Workers, NEW p \in Publishers, RegEventCb(w, p) PROVE UNCHANGED <<mapRegListener, mapBindPublisherCb>>
      BY <2>2 DEF RegEventCb, eventVars
    <2>3. ASSUME NEW w \in Workers, NEW p \in Publishers, UnReg(w, p)
          PROVE  /\ mapRegListener'[x] \subseteq mapRegListener[x]
                 /\ \A l \in Services : mapBindPublisherCb'[l] \subseteq mapBindPublisherCb[l]
      BY <2>1, <2>3 DEF UnReg, UnRegEventCb, ServiceTypeOK
    <2>4. ASSUME NEW w \in Workers, RegListener(w)
          PROVE  mapRegListener'[x] = mapRegListener[x] /\ UNCHANGED mapBindPublisherCb
      BY <2>1, <2>4 DEF RegListener, addRegListenerInfo, MapInv, ServiceTypeOK
    <2>5. ASSUME NEW w \in Workers, RegBind(w)
          PROVE  /\ UNCHANGED mapRegListener
                 /\ \A l \in Services : x \in mapBindPublisherCb'[l] => x \in mapBindPublisherCb[l]
      BY <2>1, <2>5 DEF RegBind, addBindEvent, MapInv, ServiceTypeOK
    <2> QED BY <2>2, <2>3, <2>4, <2>5 DEF Registers
  <1>4. ReleasedIsGone'
    <2> SUFFICES ASSUME NEW x \in Modules \ attached'
                 PROVE  /\ x \notin descendants' /\ child'[x] = {}
                        /\ mapRegListener'[x] = {} /\ \A l \in Listeners : ~HasCallback(l, x)'
      BY DEF ReleasedIsGone
    <2>1. x \in Modules \ attached /\ UNCHANGED <<descendants, child>>
      BY <1>1 DEF treeVars
    <2>2. /\ x \notin descendants /\ child[x] = {}
          /\ mapRegListener[x] = {} /\ \A l \in Listeners : ~HasCallback(l, x)
      BY <2>1 DEF TreeInv, ReleasedIsGone
    <2>3. mapRegListener'[x] = {}
      BY <1>3, <2>1, <2>2
    <2>4. \A l \in Listeners : ~HasCallback(l, x)'
      BY <1>3, <2>1, <2>2, ServiceAssumption DEF HasCallback
    <2> QED BY <2>1, <2>2, <2>3, <2>4
  <1> QED BY <1>2, <1>4 DEF TreeInv

LEMMA TreeAdds ==
  ASSUME TreeInv, NEW w \in Workers, NEW m \in Live, NEW x \in Modules, NEW K \in SUBSET Modules,
         NEW ok \in BOOLEAN, AddsModule(w, m, x, K, ok)
  PROVE  TreeInv' /\ attached \subseteq attached'
  <1>1. AddModule(m, x, K, ok) /\ UNCHANGED <<mapRegListener, mapBindPublisherCb>>
    BY DEF AddsModule, eventVars
  <1>2. TreeTypeOK' /\ NoOrphans'
    BY <1>1, AddKeepsReach DEF TreeInv
  <1>3. CASE x \in child[m]
    <2>1. UNCHANGED treeVars
      BY <1>1, <1>3 DEF AddModule
    <2> QED BY <1>1, <2>1, TreeStays DEF treeVars
  <1>4. CASE x \notin child[m]
    <2>1. /\ child' = [child EXCEPT ![x] = @ \cup K, ![m] = IF ok THEN @ \cup {x} ELSE @]
          /\ descendants' = descendants \cup K \cup (IF ok THEN {x} ELSE {})
          /\ attached' = attached \cup K \cup {x}
      BY <1>1, <1>4 DEF AddModule
    <2>2. ASSUME NEW z \in Modules \ attached'
          PROVE  z \in Modules \ attached /\ z \notin descendants' /\ child'[z] = child[z]
      <3>1. z \in Modules \ attached /\ z # x /\ z # m /\ z \notin K
        BY <2>1, <2>2, ModuleTreeAssumption DEF Live
      <3>2. z \notin descendants
        BY <3>1 DEF TreeInv, TreeTypeOK
      <3> QED BY <2>1, <3>1, <3>2 DEF TreeInv, TreeTypeOK
    <2>3. ReleasedIsGone'
      BY <1>1, <2>2 DEF TreeInv, ReleasedIsGone, HasCallback
    <2> QED BY <1>2, <2>1, <2>3 DEF TreeInv
  <1> QED BY <1>3, <1>4

\* The modules of R are released and their publishers destroyed.
LEMMA TreeReleases ==
  ASSUME TreeInv, MapInv, ServiceTypeOK, NEW w \in Workers, ServiceOf[w] = Host, at[w] = "run",
         NEW m, NEW R \in SUBSET descendants, Closed(R), Without(m, R), Destroy(R),
         \A v \in Workers : at'[v] = at[v] \/ at'[v] = "select"
  PROVE  TreeInv' /\ MapInv'
  <1>1. TreeTypeOK' /\ NoOrphans'
    BY WithoutKeepsReach DEF TreeInv
  <1>2. /\ MapInv'
        /\ \A q \in Publishers : mapRegListener'[q] = IF q \in R THEN {} ELSE mapRegListener[q]
        /\ \A l \in Services, q \in Publishers :
              q \in mapBindPublisherCb'[l] <=> q \in mapBindPublisherCb[l] /\ q \notin R
    BY MapDestroy
  <1>3. ASSUME NEW x \in Modules \ attached'
        PROVE  /\ x \notin descendants' /\ child'[x] = {}
               /\ mapRegListener'[x] = {} /\ \A l \in Services : x \notin mapBindPublisherCb'[l]
    <2>1. x \in Publishers
      BY <1>3, ServiceAssumption
    <2>2. CASE x \in R
      BY <1>2, <1>3, <2>1, <2>2 DEF Without
    <2>3. CASE x \notin R
      <3>1. x \in Modules \ attached
        BY <1>3, <2>3 DEF Without
      <3>2. /\ x \notin descendants /\ child[x] = {} /\ mapRegListener[x] = {}
            /\ \A l \in Services : x \notin mapBindPublisherCb[l]
        BY <3>1, ServiceAssumption DEF TreeInv, ReleasedIsGone, HasCallback
      <3>3. x \notin descendants' /\ child'[x] = {}
        BY <2>3, <3>1, <3>2 DEF Without
      <3> QED BY <1>2, <2>1, <2>3, <3>2, <3>3
    <2> QED BY <2>2, <2>3
  <1>4. ReleasedIsGone'
    BY <1>3, ServiceAssumption DEF ReleasedIsGone, HasCallback
  <1> QED BY <1>1, <1>2, <1>4 DEF TreeInv

LEMMA ModulesStep ==
  ASSUME TreeInv, MapInv, ServiceTypeOK, ModuleChange
  PROVE  TreeInv' /\ MapInv'
  <1>0. Workers \subseteq Procs /\ TreeTypeOK
    BY DEF Procs, TreeInv
  <1>1. ASSUME NEW w \in Workers, NEW m \in Live, NEW x \in Modules, NEW K \in SUBSET Modules,
               NEW ok \in BOOLEAN, AddsModule(w, m, x, K, ok)
        PROVE  TreeInv' /\ MapInv'
    <2>1. TreeInv' /\ attached \subseteq attached'
      BY <1>1, TreeAdds
    <2>2. UNCHANGED <<at, ev, mapRegListener, mapBindPublisherCb>>
      BY <1>1 DEF AddsModule, procVars, eventVars
    <2> QED BY <2>1, <2>2, MapStays
  <1>2. ASSUME NEW x \in Modules PROVE Closed(Subtree(x))
    BY <1>0, SubtreeClosed
  <1>3. ASSUME NEW w \in Workers, NEW m \in Live, NEW x \in descendants, ReleasesModule(w, m, x)
        PROVE  TreeInv' /\ MapInv'
    <2> DEFINE R == Subtree(x)
    <2>1. /\ ServiceOf[w] = Host /\ at[w] = "run" /\ UNCHANGED at
          /\ R \in SUBSET descendants /\ Without(m, R) /\ Destroy(R)
      BY <1>3 DEF ReleasesModule, Changes, MayChange, ReleaseModule, Releasable, procVars
    <2>2. Closed(R)
      BY <1>0, <1>2 DEF TreeTypeOK
    <2> HIDE DEF R
    <2> QED BY <2>1, <2>2, TreeReleases
  <1>4. ASSUME NEW w \in Workers, NEW m \in Live, NEW x \in descendants, NEW v \in Subtree(x),
               NEW S \in SUBSET descendants, ReleasePanics(w, m, x, v, S)
        PROVE  TreeInv' /\ MapInv'
    <2> DEFINE R == Partly(S)
    <2>1. /\ ServiceOf[w] = Host /\ at[w] = "run" /\ Destroy(R) /\ at' = [at EXCEPT ![w] = "select"]
      BY <1>4 DEF ReleasePanics, Changes, MayChange, Goto
    <2>2. Without(m, R) /\ \A s \in S : Releasable(s)
      BY <1>4 DEF ReleasePanics, PanicRelease, Partly
    <2>3. R \in SUBSET descendants
      BY <2>2 DEF Partly, Releasable
    <2>4. ASSUME NEW a \in R PROVE child[a] \subseteq R
      <3>1. PICK s \in S : a \in Subtree(s)
        BY <2>4 DEF Partly
      <3>2. Closed(Subtree(s)) /\ Subtree(s) \subseteq R
        BY <1>0, <1>2 DEF TreeTypeOK, Partly
      <3> QED BY <3>1, <3>2 DEF Closed
    <2>5. Closed(R)
      BY <2>4 DEF Closed
    <2>6. \A u \in Workers : at'[u] = at[u] \/ at'[u] = "select"
      BY <1>0, <2>1 DEF ServiceTypeOK
    <2> HIDE DEF R
    <2> QED BY <2>1, <2>2, <2>3, <2>5, <2>6, TreeReleases
  <1> QED BY <1>1, <1>3, <1>4 DEF ModuleChange

\* The steps that only move goroutines or change queues.
LEMMA MapsStayStep ==
  ASSUME MapInv, ServiceTypeOK, TreeInv,
         Pushing \/ Broadcasts \/ RunsOn \/ Signal \/ WaitStopAll \/ UNCHANGED vars
  PROVE  TreeInv' /\ MapInv'
  <1>0. Workers \subseteq Procs
    BY DEF Procs
  <1>1. UNCHANGED <<treeVars, mapRegListener, mapBindPublisherCb>>
    BY DEF Pushing, PushRefused, PushTest, Send, Broadcasts, BroadCastEvent, BroadCastLocks, BroadCastNext,
           BroadCastEnds, LockPublisher, UnlockPublisher, RunsOn, Returns, Take, SeeClose, Release,
           Signal, WaitStopAll, vars, eventVars
  <1>2. \A w \in Workers : \/ at'[w] = at[w] /\ (at[w] \in {"register", "bind"} => ev'[w] = ev[w])
                           \/ {at[w], at'[w]} \cap {"register", "bind"} = {}
    <2>1. CASE Pushing
      BY <1>0, <2>1 DEF Pushing, PushRefused, PushTest, Pushes, Send, Goto, Forget, procVars, ServiceTypeOK
    <2>2. CASE Broadcasts
      BY <1>0, <2>2 DEF Broadcasts, BroadCastEvent, BroadCastLocks, BroadCastNext, BroadCastEnds, Pushes,
                        Goto, Forget, ServiceTypeOK
    <2>3. CASE RunsOn
      BY <1>0, <2>3 DEF RunsOn, Returns, Take, SeeClose, Release, Goto, ServiceTypeOK
    <2>4. CASE Signal \/ WaitStopAll \/ UNCHANGED vars
      BY <2>4 DEF Signal, WaitStopAll, vars, procVars
    <2> QED BY <2>1, <2>2, <2>3, <2>4
  <1>3. MapInv'
    BY <1>1, <1>2, MapStays DEF treeVars
  <1> QED BY <1>1, <1>3, TreeStays

-----------------------------------------------------------------------------
ServiceInv == ServiceTypeOK /\ StopInv /\ PushInv /\ MapInv /\ TreeInv

LEMMA ServiceInvInit == Init => ServiceInv
  <1> SUFFICES ASSUME Init PROVE ServiceInv
    OBVIOUS
  <1>1. ServiceTypeOK /\ TreeTypeOK /\ StopInv
    BY TypeInit, StopInvInit
  <1>2. \A x \in Procs : at[x] \in {"select", "idle"}
    BY DEF Init
  <1>3. PushInv
    BY <1>2 DEF PushInv
  <1>4. MapInv
    BY <1>2, ServiceAssumption DEF Init, EventsInit, MapInv, ListenersAgree, Procs
  <1>5. ReleasedIsGone
    BY ServiceAssumption DEF Init, EventsInit, TreeInit, ReleasedIsGone, HasCallback
  <1>6. NoOrphans
    BY DEF Init, TreeInit, NoOrphans
  <1> QED BY <1>1, <1>3, <1>4, <1>5, <1>6 DEF ServiceInv, TreeInv

LEMMA ServiceInvStep ==
  ASSUME ServiceInv, [Next]_vars
  PROVE  ServiceInv'
  <1>1. ServiceTypeOK /\ StopInv /\ PushInv /\ MapInv /\ TreeInv /\ TreeTypeOK
    BY DEF ServiceInv, TreeInv
  <1>2. StopInv'
    BY <1>1, StopInvStep
  <1>3. ServiceTypeOK'
    BY <1>1, <1>2, TypeStep
  <1>4. PushInv'
    BY <1>1, <1>3, PushInvStep
  <1>5. MapInv' /\ TreeInv'
    BY <1>1, StepCases, MapsStayStep, MapRegisters, TreeRegisters, ModulesStep
  <1> QED BY <1>2, <1>3, <1>4, <1>5 DEF ServiceInv

LEMMA ServiceInvariant == Spec => []ServiceInv
  BY ServiceInvInit, ServiceInvStep, PTL DEF Spec

\* OnRelease of a service with any number of goroutines runs once, by the goroutine that
\* brings goroutineNum to 0, when all the others are done, and before WaitStopAll returns.
THEOREM LastOneReleases == Spec => []ReleasedLast
  <1>1. ServiceInv => ReleasedLast
    <2> SUFFICES ASSUME ServiceInv, NEW s \in Services
                 PROVE  /\ releases[s] <= 1
                        /\ releases[s] = 1 => \A w \in WorkersOf(s) : at[w] = "done"
                        /\ stopped => releases[s] = 1
      BY DEF ReleasedLast
    <2>1. StopInv
      BY DEF ServiceInv
    <2>2. releases[s] \in 0..1 /\ (releases[s] = 1 => \A w \in WorkersOf(s) : at[w] = "done")
      BY <2>1 DEF StopInv
    <2>3. ASSUME stopped PROVE releases[s] = 1
      <3>1. \A w \in WorkersOf(s) : at[w] = "done"
        BY <2>1, <2>3 DEF StopInv, WorkersOf
      <3>2. Running(s) = {} /\ ~\E w \in WorkersOf(s) : at[w] = "release"
        BY <3>1 DEF Running
      <3> QED BY <2>1, <3>2 DEF StopInv
    <2> QED BY <2>2, <2>3
  <1> QED BY <1>1, ServiceInvariant, PTL

\* pushEvent, whose test and send are two steps, blocks on a channel of capacity
\* maxServiceEventChannel or more only if another goroutine sent to it in between.
THEOREM OnlyOvertakenBlock == Spec => []BlockedMeansOvertaken
  <1>1. ServiceInv => BlockedMeansOvertaken
    <2> SUFFICES ASSUME ServiceInv, NEW x \in Procs, at[x] = "send",
                        Len(queue[to[x]]) >= ChanCap[to[x]], ChanCap[to[x]] >= Limit
                 PROVE  overtaken[x]
      BY DEF BlockedMeansOvertaken, Blocked
    <2>1. queue[to[x]] \in Seq(Events)
      BY DEF ServiceInv, ServiceTypeOK
    <2>2. Len(queue[to[x]]) \in Nat /\ Limit \in Nat /\ ChanCap[to[x]] \in Nat
      BY <2>1, ServiceAssumption DEF ServiceInv, ServiceTypeOK
    <2> QED BY <2>2 DEF ServiceInv, PushInv
  <1> QED BY <1>1, ServiceInvariant, PTL

\* mapRegListener of the publishers and mapBindPublisherCb of the listeners hold the same
\* registrations, except for the one that RegEventCb is making.
THEOREM BothEndsAgree == Spec => []ListenersAgree
  <1>1. ServiceInv => ListenersAgree
    BY DEF ServiceInv, MapInv
  <1> QED BY <1>1, ServiceInvariant, PTL

\* A module that ReleaseModule has released, alone, with its parent or before a panic, is
\* not in the descendants of the service, has no children, and no listener is registered
\* with it or has a callback for it. (Its entry in the child map of a module that did not
\* release it may stay: see ChildrenAreDescendants.)
THEOREM ReleaseIsComplete == Spec => []ReleasedIsGone
  <1>1. ServiceInv => ReleasedIsGone
    BY DEF ServiceInv, TreeInv
  <1> QED BY <1>1, ServiceInvariant, PTL

\* Whatever modules are added, also in an OnInit that fails, and released, through their
\* parent or not: every module in descendants can be reached over the child maps.
THEOREM ModulesReachable == Spec => []NoOrphans
  <1>1. ServiceInv => NoOrphans
    BY DEF ServiceInv, TreeInv
  <1> QED BY <1>1, ServiceInvariant, PTL
=============================================================================
