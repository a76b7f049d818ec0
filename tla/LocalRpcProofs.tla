--------------------------- MODULE LocalRpcProofs ---------------------------
(***************************************************************************)
(* The safety of calls inside a node, for any Calls, callers and services  *)
(* and any bounds, when a method replies in time, once or not at all, and  *)
(* the callee's queue has room (CalleeTimely).                             *)
(*                                                                         *)
(* The closure of a request holds on to a pooled Call. The inductive       *)
(* invariant says that as long as a request is open, its Call is the entry *)
(* of the pending table under the request's own number: so the closure     *)
(* never meets a Call that was recycled.                                   *)
(***************************************************************************)
EXTENDS LocalRpc, SequenceTheorems, FiniteSetTheorems, TLAPS

\* What the theorems assume of the callee: a method that replies does so before the
\* timeout, and once, and the queue takes every request that is issued, so that
\* PushRpcRequest never fails after AddPending.
CalleeTimely == MethodsTimely /\ MethodsSound /\ MaxRequests >= MaxSeq

Requests == [kind : {"call", "async", "go"}, call : Calls, seq : Seqs]

LocalTypeOK ==
    /\ TableTypeOK
    /\ pc \in [Procs -> {"idle", "lock", "done"}]
    /\ my \in [Procs -> [call : Calls \cup {None}, seq : 0..MaxSeq]]
    /\ queue \in Seq(Requests)
    /\ serving \subseteq {r \in Requests : r.kind # "go"}
    /\ pushing \subseteq {r \in Requests : r.kind = "async"}

\* A Call that is not in use is as Clear left it.
FreeIsClear == \A k \in Calls : ~call[k].ref => call[k] = Cleared

\* A sequence number that has not been generated is nowhere.
FreshUnused ==
    /\ \A k \in Calls : call[k].Seq <= startSeq
    /\ \A p \in Procs : my[p].seq <= startSeq
    /\ \A r \in serving : r.seq <= startSeq
    /\ \A i \in DOMAIN queue : queue[i].seq <= startSeq
    /\ \A s \in Seqs : s > startSeq => pending[s] = None /\ returned[s] = <<>>

\* A number belongs to one Call and to one goroutine, and the goroutine's Call has it
\* if any Call does.
NumbersUnique ==
    /\ \A k, l \in Calls : call[k].Seq = call[l].Seq /\ call[k].Seq # 0 => k = l
    /\ \A p, q \in Procs : my[p].seq = my[q].seq /\ my[p].seq # 0 => p = q
    /\ \A p \in Procs, k \in Calls : call[k].Seq = my[p].seq /\ my[p].seq # 0 => my[p].call = k

\* Entries of the table.
EntryOK(s, k) ==
    /\ call[k].ref
    /\ call[k].Seq = s
    /\ call[k].done = 0
    /\ s \in timers \/ firing.seq = s
    /\ returned[s] = <<>>
    /\ k \notin lost

PendingOK == \A s \in Seqs : pending[s] # None => EntryOK(s, pending[s])

\* The timeout handler holds an entry of the table whose timer is gone.
FiringOK ==
    /\ firing.seq \notin timers
    /\ IF firing.call = None THEN firing.seq = 0
       ELSE firing.seq \in Seqs /\ pending[firing.seq] = firing.call

\* The Call a closure holds is still the entry of its number, the timeout is yet to
\* come, and the kind of the closure is that of the Call.
RequestOK(r) ==
    /\ pending[r.seq] = r.call
    /\ r.seq \in timers
    /\ r.kind = "async" <=> call[r.call].callback # None

RequestsOK ==
    /\ \A r \in serving : RequestOK(r)
    /\ \A i \in DOMAIN queue : queue[i].kind # "go" => RequestOK(queue[i])

\* A request is open once, and not before its call is in the table.
RequestsOnce ==
    /\ \A r, q \in serving : r.seq = q.seq => r = q
    /\ \A i, j \in DOMAIN queue : queue[i].seq = queue[j].seq => i = j
    /\ \A i \in DOMAIN queue, r \in serving : queue[i].seq # r.seq
    /\ \A p \in Procs : pc[p] = "lock" => \A i \in DOMAIN queue : queue[i].seq # my[p].seq

\* A Call that has an outcome and is on its way to the service of its callback.
OutOK(k) ==
    /\ call[k].ref
    /\ call[k].callback # None
    /\ call[k].Seq \in Seqs
    /\ pending[call[k].Seq] = None
    /\ returned[call[k].Seq] = <<>>
    /\ k \notin lost
    /\ \A p \in Procs : my[p].call # k

\* A reply that has taken its entry away has its Call to itself.
PushingOK == \A r \in pushing : OutOK(r.call) /\ call[r.call].Seq = r.seq

\* So has a service that has a Call in its queue, once.
QueuedOK(h, k) ==
    /\ OutOK(k)
    /\ call[k].callback = h
    /\ \A r \in pushing : r.call # k

QueuesOK == \A h \in Handlers : \A i \in DOMAIN chanEvent[h] : QueuedOK(h, chanEvent[h][i])

QueuedOnce ==
    \A h \in Handlers : \A i, j \in DOMAIN chanEvent[h] : chanEvent[h][i] = chanEvent[h][j] => i = j

\* A lost Call stays in use for ever, with nobody.
LostOK == \A k \in lost : call[k].ref /\ call[k].callback # None /\ \A p \in Procs : my[p].call # k

\* A goroutine that is in a call has a Call of its own. Before AddPending nobody else
\* knows the Call; a caller that has been strobed finds its entry gone.
ProcOK(p) ==
    IF pc[p] = "idle" THEN my[p] = Idle
    ELSE /\ my[p].call \in Calls
         /\ my[p].seq \in Seqs
         /\ call[my[p].call].ref
         /\ returned[my[p].seq] = <<>>
         /\ p \in Callers => call[my[p].call].callback = None
         /\ p \in Handlers => call[my[p].call].callback = p /\ pc[p] = "lock"
         /\ call[my[p].call].done = 0 => call[my[p].call].Seq = my[p].seq
         /\ call[my[p].call].done = 1 => pc[p] = "done"
         /\ pc[p] = "lock" \/ call[my[p].call].done = 1 => pending[my[p].seq] = None

ProcsOK ==
    /\ \A p \in Procs : ProcOK(p)
    /\ \A p, q \in Procs : my[p].call = my[q].call /\ my[p].call # None => p = q

\* A Call in use is in somebody's hands.
Owned(k) ==
    IF call[k].callback = None THEN \E p \in Procs : my[p].call = k
    ELSE \/ \E p \in Procs : my[p].call = k
         \/ \E s \in Seqs : pending[s] = k
         \/ \E r \in pushing : r.call = k
         \/ \E h \in Handlers : \E i \in DOMAIN chanEvent[h] : chanEvent[h][i] = k
         \/ k \in lost

Accounted == \A k \in Calls : call[k].ref => Owned(k)

\* What users were told.
OutcomesOK == ~crashed /\ \A s \in Seqs : Len(returned[s]) <= 1

LocalInv ==
    /\ LocalTypeOK /\ FreeIsClear /\ FreshUnused /\ NumbersUnique
    /\ PendingOK /\ FiringOK /\ RequestsOK /\ RequestsOnce /\ PushingOK
    /\ QueuesOK /\ QueuedOnce /\ LostOK /\ ProcsOK /\ Accounted /\ OutcomesOK

-----------------------------------------------------------------------------
(* Facts used by every step *)

\* What the types say of a single Call, goroutine, entry or request.
LEMMA Typed ==
  ASSUME LocalTypeOK
  PROVE  /\ \A k \in Calls : /\ call[k].ref \in BOOLEAN /\ call[k].Seq \in 0..MaxSeq
                             /\ call[k].Err \in Errs /\ call[k].done \in 0..1
                             /\ call[k].callback \in Handlers \cup {None}
         /\ \A p \in Procs : my[p].call \in Calls \cup {None} /\ my[p].seq \in 0..MaxSeq
         /\ \A s \in Seqs : pending[s] \in Calls \cup {None} /\ returned[s] \in Seq(Errs)
         /\ \A h \in Handlers : \A i \in DOMAIN chanEvent[h] : chanEvent[h][i] \in Calls
         /\ \A i \in DOMAIN queue : queue[i] \in Requests
         /\ \A r \in serving : r \in Requests /\ r.kind # "go"
         /\ \A r \in pushing : r \in Requests /\ r.kind = "async"
         /\ startSeq \in Nat /\ startSeq \in 0..MaxSeq /\ lost \subseteq Calls /\ timers \subseteq Seqs
         /\ firing.call \in Calls \cup {None} /\ firing.seq \in 0..MaxSeq
  <1>1. \A k \in Calls : /\ call[k].ref \in BOOLEAN /\ call[k].Seq \in 0..MaxSeq
                         /\ call[k].Err \in Errs /\ call[k].done \in 0..1
                         /\ call[k].callback \in Handlers \cup {None}
    BY DEF LocalTypeOK, TableTypeOK, CallRecords
  <1>2. \A p \in Procs : my[p].call \in Calls \cup {None} /\ my[p].seq \in 0..MaxSeq
    BY DEF LocalTypeOK
  <1>3. \A h \in Handlers : \A i \in DOMAIN chanEvent[h] : chanEvent[h][i] \in Calls
    BY DEF LocalTypeOK, TableTypeOK
  <1>4. \A i \in DOMAIN queue : queue[i] \in Requests
    BY DEF LocalTypeOK
  <1>5. /\ \A r \in serving : r \in Requests /\ r.kind # "go"
        /\ \A r \in pushing : r \in Requests /\ r.kind = "async"
    BY DEF LocalTypeOK
  <1>6. startSeq \in Nat /\ startSeq \in 0..MaxSeq /\ lost \subseteq Calls /\ timers \subseteq Seqs
    BY CallTableAssumption DEF LocalTypeOK, TableTypeOK
  <1>7. firing.call \in Calls \cup {None} /\ firing.seq \in 0..MaxSeq
    BY DEF LocalTypeOK, TableTypeOK
  <1>8. \A s \in Seqs : pending[s] \in Calls \cup {None} /\ returned[s] \in Seq(Errs)
    BY DEF LocalTypeOK, TableTypeOK
  <1> QED BY <1>1, <1>2, <1>3, <1>4, <1>5, <1>6, <1>7, <1>8

LEMMA RequestFields ==
  ASSUME NEW r \in Requests
  PROVE  r.kind \in {"call", "async", "go"} /\ r.call \in Calls /\ r.seq \in Seqs
  BY DEF Requests

LEMMA SeqsNat == Seqs \subseteq Nat \ {0} /\ \A n \in 0..MaxSeq : n # 0 => n \in Seqs
  BY CallTableAssumption DEF Seqs

LEMMA ProcKinds ==
  /\ \A p \in Procs : p # None /\ (p \in Callers \/ p \in Handlers) /\ ~(p \in Callers /\ p \in Handlers)
  /\ \A c \in Callers : c \in Procs
  /\ \A h \in Handlers : h \in Procs /\ h # None
  BY CallTableAssumption, LocalRpcAssumption DEF Procs

\* A Call in the pool is nowhere else.
LEMMA FreeNowhere ==
  ASSUME LocalInv, NEW k \in Calls, ~call[k].ref
  PROVE  /\ call[k].Seq = 0
         /\ \A s \in Seqs : pending[s] # k
         /\ k \notin lost /\ firing.call # k
         /\ \A h \in Handlers : \A i \in DOMAIN chanEvent[h] : chanEvent[h][i] # k
         /\ \A r \in pushing : r.call # k
         /\ \A p \in Procs : my[p].call # k
  <1>1. call[k].Seq = 0
    BY DEF LocalInv, FreeIsClear, Cleared
  <1>2. \A s \in Seqs : pending[s] # k
    BY CallTableAssumption DEF LocalInv, PendingOK, EntryOK
  <1>3. k \notin lost
    BY DEF LocalInv, LostOK
  <1>4. firing.call # k
    BY <1>2, CallTableAssumption DEF LocalInv, FiringOK
  <1>5. \A h \in Handlers : \A i \in DOMAIN chanEvent[h] : chanEvent[h][i] # k
    BY DEF LocalInv, QueuesOK, QueuedOK, OutOK
  <1>6. \A r \in pushing : r.call # k
    BY DEF LocalInv, PushingOK, OutOK
  <1>7. \A p \in Procs : my[p].call # k
    BY CallTableAssumption DEF LocalInv, ProcsOK, ProcOK, Idle
  <1> QED BY <1>1, <1>2, <1>3, <1>4, <1>5, <1>6, <1>7

\* An appended element is the last one.
LEMMA AppendFacts ==
  ASSUME NEW S, NEW q \in Seq(S), NEW e \in S
  PROVE  /\ Append(q, e) \in Seq(S)
         /\ Len(Append(q, e)) = Len(q) + 1 /\ Len(q) \in Nat
         /\ \A i \in DOMAIN Append(q, e) :
                \/ i \in DOMAIN q /\ i <= Len(q) /\ Append(q, e)[i] = q[i]
                \/ i = Len(q) + 1 /\ Append(q, e)[i] = e
         /\ \A i \in DOMAIN q : i \in DOMAIN Append(q, e) /\ Append(q, e)[i] = q[i]
         /\ Len(q) + 1 \in DOMAIN Append(q, e) /\ Append(q, e)[Len(q) + 1] = e
  OBVIOUS

LEMMA TailFacts ==
  ASSUME NEW S, NEW q \in Seq(S), q # <<>>
  PROVE  /\ Tail(q) \in Seq(S) /\ Head(q) \in S /\ 1 \in DOMAIN q /\ Head(q) = q[1]
         /\ \A i \in DOMAIN Tail(q) : i \in Nat \ {0} /\ i + 1 \in DOMAIN q /\ Tail(q)[i] = q[i + 1]
         /\ \A j \in DOMAIN q : j # 1 => j - 1 \in DOMAIN Tail(q) /\ Tail(q)[j - 1] = q[j]
  OBVIOUS

-----------------------------------------------------------------------------
(* A step is about one Call *)

\* Every step that changes a Call or an entry is about one Call k and one number z; o
\* is the goroutine that has k as its local variable, None if there is none. The rest
\* is not touched,
Aside(k, z, o) ==
    /\ \A l \in Calls : l # k => call'[l] = call[l]
    /\ \A s \in Seqs : s # z => /\ pending'[s] = pending[s] /\ returned'[s] = returned[s]
                                /\ s \in timers => s \in timers'
                                /\ firing.seq = s => firing'.seq = s
    /\ \A p \in Procs : p # o => my'[p] = my[p] /\ pc'[p] = pc[p]
    /\ lost' \subseteq lost \cup {k} /\ lost \subseteq lost'

\* has nothing to do with k and z,
Apart(k, z, o) ==
    /\ \A l \in Calls : l # k => call[l].Seq # z
    /\ pending[z] \in {None, k}
    /\ \A s \in Seqs : s # z => pending[s] # k
    /\ \A p \in Procs : p # o => my[p].call # k /\ my[p].seq # z
    /\ o \in Procs => my[o].call \in {None, k}

\* and k and z are left in order.
After(k, z, o) ==
    /\ call'[k].Seq \in {0, z}
    /\ ~call'[k].ref => call'[k] = Cleared
    /\ call'[k].ref => Owned(k)'
    /\ pending'[z] # None => pending'[z] = k /\ EntryOK(z, k)'
    /\ k \in lost' => call'[k].ref /\ call'[k].callback # None /\ \A p \in Procs : my'[p].call # k
    /\ o \in Procs => ProcOK(o)' /\ (my'[o] = Idle \/ (my'[o].call = k /\ my'[o].seq = z))
    /\ Len(returned'[z]) <= 1 /\ ~crashed'
    /\ FiringOK'
    /\ startSeq' \in Nat /\ startSeq <= startSeq' /\ z <= startSeq'

\* Open requests are for other numbers, except one that is queued by the step.
RequestsAside(z) ==
    /\ \A r \in serving' : r \in serving /\ r.seq # z
    /\ \A i \in DOMAIN queue' :
          \/ i \in DOMAIN queue /\ queue'[i] = queue[i] /\ (queue[i].kind # "go" => queue[i].seq # z)
          \/ queue'[i].seq = z /\ RequestOK(queue[i])'
    /\ RequestsOnce'

\* Finished Calls other than k stay where they are.
QueuesAside(k) ==
    /\ \A r \in pushing' : \/ r \in pushing /\ r.call # k
                           \/ r.call = k /\ OutOK(k)' /\ call'[k].Seq = r.seq
    /\ \A r \in pushing : r.call # k => r \in pushing'
    /\ \A h \in Handlers : \A i \in DOMAIN chanEvent'[h] :
          \/ chanEvent'[h][i] # k /\ \E j \in DOMAIN chanEvent[h] : chanEvent'[h][i] = chanEvent[h][j]
          \/ chanEvent'[h][i] = k /\ QueuedOK(h, k)'
    /\ \A h \in Handlers : \A j \in DOMAIN chanEvent[h] :
          chanEvent[h][j] # k => \E i \in DOMAIN chanEvent'[h] : chanEvent'[h][i] = chanEvent[h][j]
    /\ QueuedOnce'

\* Such a step preserves the invariant.
LEMMA OneCall ==
  ASSUME LocalInv, LocalTypeOK', NEW k \in Calls, NEW z \in Seqs, NEW o \in Procs \cup {None},
         Aside(k, z, o), Apart(k, z, o), After(k, z, o), RequestsAside(z), QueuesAside(k)
  PROVE  LocalInv'
  <1>1. z \in Nat /\ z # 0 /\ startSeq \in Nat /\ startSeq' \in Nat /\ startSeq <= startSeq' /\ z <= startSeq'
    BY Typed, SeqsNat DEF After, LocalInv
  <1>2. \A p \in Procs : \/ p = o /\ o \in Procs
                         \/ p # o /\ my'[p] = my[p] /\ pc'[p] = pc[p] /\ my[p].call # k /\ my[p].seq # z
    BY DEF Aside, Apart
  <1>3. o \in Procs => /\ my'[o].call \in {None, k} /\ my'[o].seq \in {0, z}
                       /\ my'[o].seq = z => my'[o].call = k
    BY <1>1 DEF After, Idle
  <1>b. FreeIsClear'
    BY DEF Aside, After, LocalInv, FreeIsClear
  <1>c. FreshUnused'
    <2>1. \A l \in Calls : call'[l].Seq <= startSeq'
      <3>1. \A l \in Calls : call[l].Seq \in Nat /\ call[l].Seq <= startSeq
        BY Typed, CallTableAssumption DEF LocalInv, FreshUnused
      <3> QED BY <1>1, <3>1 DEF Aside, After
    <2>2. \A p \in Procs : my'[p].seq <= startSeq'
      <3>1. \A p \in Procs : my[p].seq \in Nat /\ my[p].seq <= startSeq
        BY Typed, CallTableAssumption DEF LocalInv, FreshUnused
      <3> QED BY <1>1, <1>2, <1>3, <3>1
    <2>3. \A r \in serving' : r.seq <= startSeq'
      <3>1. \A r \in serving : r.seq \in Nat /\ r.seq <= startSeq
        BY Typed, RequestFields, SeqsNat DEF LocalInv, FreshUnused
      <3> QED BY <1>1, <3>1 DEF RequestsAside
    <2>4. \A i \in DOMAIN queue' : queue'[i].seq <= startSeq'
      <3>1. \A i \in DOMAIN queue : queue[i].seq \in Nat /\ queue[i].seq <= startSeq
        BY Typed, RequestFields, SeqsNat DEF LocalInv, FreshUnused
      <3> QED BY <1>1, <3>1 DEF RequestsAside
    <2>5. \A s \in Seqs : s > startSeq' => pending'[s] = None /\ returned'[s] = <<>>
      BY <1>1, SeqsNat DEF LocalInv, FreshUnused, Aside
    <2> QED BY <2>1, <2>2, <2>3, <2>4, <2>5 DEF FreshUnused
  <1>d. NumbersUnique'
    <2>1. \A l, m \in Calls : call'[l].Seq = call'[m].Seq /\ call'[l].Seq # 0 => l = m
      BY DEF LocalInv, NumbersUnique, Aside, Apart, After
    <2>2. \A p, q \in Procs : my'[p].seq = my'[q].seq /\ my'[p].seq # 0 => p = q
      BY <1>2, <1>3 DEF LocalInv, NumbersUnique
    <2>3. \A p \in Procs, l \in Calls : call'[l].Seq = my'[p].seq /\ my'[p].seq # 0 => my'[p].call = l
      BY <1>2, <1>3 DEF LocalInv, NumbersUnique, Aside, Apart, After
    <2> QED BY <2>1, <2>2, <2>3 DEF NumbersUnique
  <1>e. PendingOK'
    <2> SUFFICES ASSUME NEW s \in Seqs, pending'[s] # None
                 PROVE  EntryOK(s, pending[s])'
      BY DEF PendingOK
    <2>1. CASE s = z
      BY <2>1 DEF After, EntryOK
    <2>2. CASE s # z
      <3>1. pending'[s] = pending[s] /\ pending[s] # k /\ pending[s] \in Calls /\ EntryOK(s, pending[s])
        BY <2>2, Typed DEF LocalInv, PendingOK, Aside, Apart
      <3> QED BY <2>2, <3>1 DEF EntryOK, Aside
    <2> QED BY <2>1, <2>2
  <1>f. FiringOK'
    BY DEF After
  <1>g. RequestsOK'
    <2>1. ASSUME NEW r \in Requests, r.seq # z, RequestOK(r)
          PROVE  RequestOK(r)'
      BY <2>1, RequestFields DEF RequestOK, Aside, Apart
    <2>2. \A r \in serving' : RequestOK(r)'
      BY <2>1, Typed DEF LocalInv, RequestsOK, RequestsAside
    <2>3. ASSUME NEW i \in DOMAIN queue', queue'[i].kind # "go"
          PROVE  RequestOK(queue[i])'
      <3>1. CASE i \in DOMAIN queue /\ queue'[i] = queue[i] /\ (queue[i].kind # "go" => queue[i].seq # z)
        <4>1. PICK r \in Requests : r = queue[i] /\ r = queue'[i] /\ RequestOK(r) /\ r.seq # z
          BY <2>3, <3>1, Typed DEF LocalInv, RequestsOK
        <4>2. RequestOK(r)'
          BY <2>1, <4>1
        <4> QED BY <4>1, <4>2 DEF RequestOK
      <3> QED BY <3>1 DEF RequestsAside
    <2> QED BY <2>2, <2>3 DEF RequestsOK
  <1>h. RequestsOnce'
    BY DEF RequestsAside
  <1>4. ASSUME NEW l \in Calls, l # k, OutOK(l)
        PROVE  OutOK(l)' /\ call'[l] = call[l]
    <2>1. call'[l] = call[l] /\ call[l].Seq # z /\ l \notin lost'
      BY <1>4 DEF Aside, Apart, OutOK
    <2>2. \A p \in Procs : my'[p].call # l
      BY <1>2, <1>3, <1>4, CallTableAssumption DEF OutOK
    <2>3. pending'[call[l].Seq] = None /\ returned'[call[l].Seq] = <<>>
      BY <1>4, <2>1 DEF OutOK, Aside
    <2> QED BY <1>4, <2>1, <2>2, <2>3 DEF OutOK
  <1>i. PushingOK'
    <2> SUFFICES ASSUME NEW r \in pushing'
                 PROVE  OutOK(r.call)' /\ call'[r.call].Seq = r.seq
      BY DEF PushingOK
    <2>1. CASE r \in pushing /\ r.call # k
      <3>1. r.call \in Calls /\ OutOK(r.call) /\ call[r.call].Seq = r.seq
        BY <2>1, Typed, RequestFields DEF LocalInv, PushingOK
      <3> QED BY <1>4, <2>1, <3>1
    <2>2. CASE r.call = k /\ OutOK(k)' /\ call'[k].Seq = r.seq
      BY <2>2 DEF OutOK
    <2> QED BY <2>1, <2>2 DEF QueuesAside
  <1>j. QueuesOK'
    <2> SUFFICES ASSUME NEW h \in Handlers, NEW i \in DOMAIN chanEvent'[h]
                 PROVE  QueuedOK(h, chanEvent[h][i])'
      BY DEF QueuesOK
    <2>1. ASSUME chanEvent'[h][i] # k, NEW j \in DOMAIN chanEvent[h], chanEvent'[h][i] = chanEvent[h][j]
          PROVE  QueuedOK(h, chanEvent[h][i])'
      <3>1. PICK l \in Calls : l = chanEvent[h][j] /\ l # k /\ QueuedOK(h, l)
        BY <2>1, Typed DEF LocalInv, QueuesOK
      <3>2. OutOK(l)' /\ call'[l] = call[l]
        BY <1>4, <3>1 DEF QueuedOK
      <3>3. \A r \in pushing' : r.call # l
        BY <3>1 DEF QueuedOK, QueuesAside
      <3>4. QueuedOK(h, l)'
        BY <3>1, <3>2, <3>3 DEF QueuedOK
      <3> QED BY <2>1, <3>1, <3>4 DEF QueuedOK, OutOK
    <2>2. CASE chanEvent'[h][i] = k /\ QueuedOK(h, k)'
      BY <2>2 DEF QueuedOK, OutOK
    <2> QED BY <2>1, <2>2 DEF QueuesAside
  <1>k. QueuedOnce'
    BY DEF QueuesAside
  <1>l. LostOK'
    <2> SUFFICES ASSUME NEW l \in lost', l # k
                 PROVE  call'[l].ref /\ call'[l].callback # None /\ \A p \in Procs : my'[p].call # l
      BY DEF LostOK, After
    <2>1. l \in lost /\ l \in Calls /\ call'[l] = call[l]
      BY Typed DEF Aside, LocalInv
    <2> QED BY <1>2, <1>3, <2>1, CallTableAssumption DEF LocalInv, LostOK
  <1>m. ProcsOK'
    <2>1. ASSUME NEW p \in Procs PROVE ProcOK(p)'
      <3>1. CASE p = o
        BY <3>1 DEF After, ProcOK
      <3>2. CASE p # o
        <4>1. /\ ProcOK(p) /\ my'[p] = my[p] /\ pc'[p] = pc[p] /\ my[p].call # k /\ my[p].seq # z
              /\ my[p].call \in Calls => call'[my[p].call] = call[my[p].call]
              /\ my[p].seq \in Seqs => /\ pending'[my[p].seq] = pending[my[p].seq]
                                       /\ returned'[my[p].seq] = returned[my[p].seq]
          BY <1>2, <3>2 DEF LocalInv, ProcsOK, Aside
        <4> QED BY <4>1 DEF ProcOK
      <3> QED BY <3>1, <3>2
    <2>2. \A p, q \in Procs : my'[p].call = my'[q].call /\ my'[p].call # None => p = q
      BY <1>2, <1>3 DEF LocalInv, ProcsOK
    <2> QED BY <2>1, <2>2 DEF ProcsOK
  <1>n. Accounted'
    <2> SUFFICES ASSUME NEW l \in Calls, l # k, call'[l].ref
                 PROVE  Owned(l)'
      BY DEF Accounted, After
    <2>1. call'[l] = call[l] /\ Owned(l)
      BY DEF Aside, LocalInv, Accounted
    <2>2. ASSUME NEW p \in Procs, my[p].call = l PROVE my'[p].call = l
      BY <1>2, <2>2, CallTableAssumption DEF Apart
    <2>3. ASSUME NEW s \in Seqs, pending[s] = l PROVE pending'[s] = l
      BY <2>3, CallTableAssumption DEF Apart, Aside
    <2>4. ASSUME NEW r \in pushing, r.call = l PROVE r \in pushing'
      BY <2>4 DEF QueuesAside
    <2>5. ASSUME NEW h \in Handlers, NEW i \in DOMAIN chanEvent[h], chanEvent[h][i] = l
          PROVE  \E j \in DOMAIN chanEvent'[h] : chanEvent'[h][j] = l
      BY <2>5 DEF QueuesAside
    <2>6. l \in lost => l \in lost'
      BY DEF Aside
    <2> QED BY <2>1, <2>2, <2>3, <2>4, <2>5, <2>6 DEF Owned
  <1>p. OutcomesOK'
    BY DEF LocalInv, OutcomesOK, Aside, After
  <1> QED BY <1>b, <1>c, <1>d, <1>e, <1>f, <1>g, <1>h, <1>i, <1>j, <1>k, <1>l, <1>m, <1>n, <1>p DEF LocalInv

\* A number that is just generated and a Call that is just taken from the pool.
LEMMA FreshApart ==
  ASSUME LocalInv, NEW k \in Calls, ~call[k].ref, NEW z \in Seqs, z > startSeq,
         NEW o \in Procs, pc[o] = "idle"
  PROVE  Apart(k, z, o) /\ pending[z] = None /\ returned[z] = <<>>
  <1>1. startSeq \in Nat /\ z \in Nat
    BY Typed, SeqsNat DEF LocalInv
  <1>2. pending[z] = None /\ returned[z] = <<>>
    BY DEF LocalInv, FreshUnused
  <1>3. \A l \in Calls : call[l].Seq # z
    BY <1>1, Typed, CallTableAssumption DEF LocalInv, FreshUnused
  <1>4. \A p \in Procs : my[p].seq # z
    BY <1>1, Typed, CallTableAssumption DEF LocalInv, FreshUnused
  <1>5. my[o].call = None
    BY DEF LocalInv, ProcsOK, ProcOK, Idle
  <1> QED BY <1>2, <1>3, <1>4, <1>5, FreeNowhere DEF Apart

\* A Call in use and the number it was given.
LEMMA HeldApart ==
  ASSUME LocalInv, NEW k \in Calls, NEW z \in Seqs, NEW o \in Procs \cup {None},
         o \in Procs => my[o].call = k /\ my[o].seq = z,
         o = None => call[k].Seq = z /\ \A p \in Procs : my[p].call # k
  PROVE  Apart(k, z, o)
  <1>1. z # 0 /\ k # None
    BY SeqsNat, CallTableAssumption
  <1>2. \A l \in Calls : l # k => call[l].Seq # z
    BY <1>1 DEF LocalInv, NumbersUnique
  <1>3. \A p \in Procs : p # o => my[p].call # k /\ my[p].seq # z
    BY <1>1 DEF LocalInv, NumbersUnique, ProcsOK
  <1>4. pending[z] \in {None, k}
    BY <1>2, Typed DEF LocalInv, PendingOK, EntryOK
  <1>5. \A s \in Seqs : s # z => pending[s] # k
    <2> SUFFICES ASSUME NEW s \in Seqs, s # z, pending[s] = k PROVE FALSE
      OBVIOUS
    <2>1. call[k].Seq = s /\ call[k].done = 0
      BY <1>1 DEF LocalInv, PendingOK, EntryOK
    <2>2. o \in Procs
      BY <2>1
    <2>3. pc[o] # "idle"
      BY <1>1, <2>2 DEF LocalInv, ProcsOK, ProcOK, Idle
    <2>4. call[k].Seq = z
      BY <2>1, <2>2, <2>3 DEF LocalInv, ProcsOK, ProcOK
    <2> QED BY <2>1, <2>4
  <1> QED BY <1>2, <1>3, <1>4, <1>5 DEF Apart

\* The goroutine that has Call k, if there is one.
LEMMA Holder ==
  ASSUME LocalInv, NEW k \in Calls, NEW z \in Seqs, call[k].Seq = z, call[k].done = 0
  PROVE  \E o \in Procs \cup {None} : /\ o \in Procs => my[o].call = k /\ my[o].seq = z /\ pc[o] # "idle"
                                      /\ o = None => \A p \in Procs : my[p].call # k
  <1>1. CASE \E p \in Procs : my[p].call = k
    <2>1. PICK p \in Procs : my[p].call = k
      BY <1>1
    <2>2. pc[p] # "idle"
      BY <2>1, CallTableAssumption DEF LocalInv, ProcsOK, ProcOK, Idle
    <2>3. my[p].seq = z
      BY <2>1, <2>2 DEF LocalInv, ProcsOK, ProcOK
    <2> QED BY <2>1, <2>2, <2>3, ProcKinds
  <1> QED BY <1>1, ProcKinds

\* A Call that a goroutine has, or that is in the table, is not on its way to a service.
LEMMA NotOut ==
  ASSUME LocalInv, NEW k \in Calls,
         (\E p \in Procs : my[p].call = k) \/ (\E s \in Seqs : pending[s] = k)
  PROVE  /\ \A r \in pushing : r.call # k
         /\ \A h \in Handlers : \A i \in DOMAIN chanEvent[h] : chanEvent[h][i] # k
         /\ k \notin lost
  <1>1. ASSUME OutOK(k) PROVE FALSE
    <2>1. \A s \in Seqs : pending[s] # k
      BY <1>1, CallTableAssumption DEF LocalInv, PendingOK, EntryOK, OutOK
    <2> QED BY <1>1, <2>1 DEF OutOK
  <1>2. k \notin lost
    BY CallTableAssumption DEF LocalInv, LostOK, PendingOK, EntryOK
  <1> QED BY <1>1, <1>2 DEF LocalInv, PushingOK, QueuesOK, QueuedOK

LEMMA QueuesStay ==
  ASSUME LocalInv, NEW k \in Calls, UNCHANGED <<pushing, chanEvent>>,
         \A r \in pushing : r.call # k,
         \A h \in Handlers : \A i \in DOMAIN chanEvent[h] : chanEvent[h][i] # k
  PROVE  QueuesAside(k)
  BY DEF LocalInv, QueuedOnce, QueuesAside

\* A request is answered, or none is; a goroutine that is about to issue one has a
\* number that is not yet used.
LEMMA RequestsStay ==
  ASSUME LocalInv, NEW z \in Seqs, queue' = queue, serving' \subseteq serving,
         \A r \in serving' : r.seq # z,
         \A i \in DOMAIN queue : queue[i].kind # "go" => queue[i].seq # z,
         \A p \in Procs : pc'[p] = "lock" => \/ pc[p] = "lock" /\ my'[p] = my[p]
                                             \/ \A i \in DOMAIN queue : queue[i].seq # my'[p].seq
  PROVE  RequestsAside(z)
  <1>1. RequestsOnce'
    BY DEF LocalInv, RequestsOnce
  <1> QED BY <1>1 DEF RequestsAside

\* No request is open for a number that is not in the table or has no timer.
LEMMA NoneOpenFor ==
  ASSUME LocalInv, NEW z \in Seqs, pending[z] = None \/ z \notin timers
  PROVE  /\ \A r \in serving : r.seq # z
         /\ \A i \in DOMAIN queue : queue[i].kind # "go" => queue[i].seq # z
  <1>1. ASSUME NEW r \in Requests, RequestOK(r) PROVE r.seq # z
    BY <1>1, RequestFields, CallTableAssumption DEF RequestOK
  <1> QED BY <1>1, Typed DEF LocalInv, RequestsOK

-----------------------------------------------------------------------------
(* Issuing *)

LEMMA TakeCall ==
  ASSUME LocalInv, NEW p \in Procs, pc[p] = "idle", NEW k \in Calls, ~call[k].ref,
         NEW q \in Seqs, q = startSeq + 1, startSeq' = q, NEW rec \in CallRecords, NEW where,
         rec.ref, rec.callback = IF p \in Handlers THEN p ELSE None,
         \/ where = "lock" /\ rec.Seq = q /\ rec.done = 0
         \/ where = "done" /\ rec.Seq = 0 /\ rec.done = 1 /\ p \in Callers,
         call' = [call EXCEPT ![k] = rec], my' = [my EXCEPT ![p] = [call |-> k, seq |-> q]],
         pc' = [pc EXCEPT ![p] = where],
         UNCHANGED <<pending, timers, firing, chanEvent, others, lost, crashed, returned,
                     queue, serving, pushing>>
  PROVE  LocalInv'
  <1>1. /\ call' \in [Calls -> CallRecords] /\ call'[k] = rec
        /\ \A l \in Calls : l # k => call'[l] = call[l]
    BY DEF LocalInv, LocalTypeOK, TableTypeOK
  <1>2. /\ my' \in [Procs -> [call : Calls \cup {None}, seq : 0..MaxSeq]]
        /\ pc' \in [Procs -> {"idle", "lock", "done"}]
        /\ my'[p].call = k /\ my'[p].seq = q /\ pc'[p] = where
        /\ \A r \in Procs : r # p => my'[r] = my[r] /\ pc'[r] = pc[r]
    <2>1. [call |-> k, seq |-> q] \in [call : Calls \cup {None}, seq : 0..MaxSeq]
      BY CallTableAssumption DEF Seqs
    <2> QED BY <2>1 DEF LocalInv, LocalTypeOK
  <1>3. startSeq \in Nat /\ q \in Nat /\ q > startSeq /\ q \in 0..MaxSeq
    BY Typed, SeqsNat, CallTableAssumption DEF LocalInv, Seqs
  <1>4. LocalTypeOK'
    BY <1>1, <1>2, <1>3 DEF LocalInv, LocalTypeOK, TableTypeOK
  <1>5. Apart(k, q, p) /\ pending[q] = None /\ returned[q] = <<>>
    BY <1>3, FreshApart
  <1>6. Aside(k, q, p)
    BY <1>1, <1>2 DEF Aside
  <1>7. After(k, q, p)
    <2>1. ProcOK(p)'
      BY <1>1, <1>2, <1>5, ProcKinds DEF ProcOK
    <2>2. Owned(k)'
      BY <1>2 DEF Owned
    <2>3. FiringOK'
      BY DEF LocalInv, FiringOK
    <2>4. k \notin lost /\ ~crashed
      BY FreeNowhere DEF LocalInv, OutcomesOK
    <2>5. Len(returned'[q]) <= 1
      BY <1>5
    <2> QED BY <1>1, <1>2, <1>3, <1>5, <2>1, <2>2, <2>3, <2>4, <2>5 DEF After
  <1>8. RequestsAside(q)
    <2>1. /\ \A r \in serving : r.seq # q
          /\ \A i \in DOMAIN queue : queue[i].seq # q
      BY <1>3, Typed, RequestFields, SeqsNat DEF LocalInv, FreshUnused
    <2>2. \A r \in Procs : pc'[r] = "lock" => \/ pc[r] = "lock" /\ my'[r] = my[r]
                                              \/ \A i \in DOMAIN queue : queue[i].seq # my'[r].seq
      BY <1>2, <2>1
    <2> QED BY <2>1, <2>2, RequestsStay
  <1>9. QueuesAside(k)
    BY FreeNowhere, QueuesStay
  <1> QED BY <1>4, <1>5, <1>6, <1>7, <1>8, <1>9, OneCall

\* What a goroutine writes into a Call from the pool, which is as Clear left it.
LEMMA TakenFields ==
  ASSUME LocalInv, NEW k \in Calls, ~call[k].ref, NEW z \in 0..MaxSeq
  PROVE  InUse(k, z) \in CallRecords /\ InUse(k, z).ref /\ InUse(k, z).Seq = z
         /\ InUse(k, z).callback = None /\ InUse(k, z).done = 0
  <1>1. call[k].callback = None /\ call[k].done = 0 /\ call[k] \in CallRecords
    BY DEF LocalInv, FreeIsClear, Cleared, LocalTypeOK, TableTypeOK
  <1> QED BY <1>1 DEF InUse, CallRecords

LEMMA CallbackFields ==
  ASSUME NEW c \in CallRecords, NEW h \in Handlers, NEW rec, rec = [c EXCEPT !.callback = h]
  PROVE  /\ rec \in CallRecords /\ rec.ref = c.ref /\ rec.Seq = c.Seq
         /\ rec.callback = h /\ rec.Err = c.Err /\ rec.done = c.done
  BY DEF CallRecords

\* What an outcome makes of a Call.
WithOutcome(c, e, d) == [c EXCEPT !.Err = e, !.done = d]

LEMMA OutcomeFields ==
  ASSUME NEW c \in CallRecords, NEW e \in Errs, NEW d \in 0..1, NEW rec, rec = WithOutcome(c, e, d)
  PROVE  /\ rec \in CallRecords /\ rec.ref = c.ref /\ rec.Seq = c.Seq
         /\ rec.callback = c.callback /\ rec.Err = e /\ rec.done = d
  BY DEF CallRecords, WithOutcome

LEMMA NextNumber ==
  ASSUME LocalInv, startSeq < MaxSeq
  PROVE  startSeq + 1 \in Seqs /\ startSeq + 1 \in 0..MaxSeq /\ 0 \in 0..MaxSeq
  BY Typed, CallTableAssumption DEF LocalInv, Seqs

LEMMA NewCallLocal ==
  ASSUME LocalInv, NEW p \in Procs, NewLocalCall(p)
  PROVE  LocalInv'
  <1> DEFINE q == startSeq + 1
  <1>1. q \in Seqs /\ q \in 0..MaxSeq /\ startSeq' = q /\ pc[p] = "idle"
    BY NextNumber DEF NewLocalCall
  <1>2. PICK k \in Calls :
          /\ ~call[k].ref
          /\ my' = [my EXCEPT ![p] = [call |-> k, seq |-> q]]
          /\ call' = [call EXCEPT ![k] = IF p \in Handlers THEN [InUse(k, q) EXCEPT !.callback = p]
                                                           ELSE InUse(k, q)]
    BY <1>1 DEF NewLocalCall, Pooled
  <1>3. /\ pc' = [pc EXCEPT ![p] = "lock"]
        /\ UNCHANGED <<pending, timers, firing, chanEvent, others, lost, crashed, returned,
                       queue, serving, pushing>>
    BY DEF NewLocalCall
  <1>4. q = startSeq + 1
    OBVIOUS
  <1> HIDE DEF q
  <1>5. CASE p \in Handlers
    <2> DEFINE rec == [InUse(k, q) EXCEPT !.callback = p]
    <2>1. rec \in CallRecords /\ rec.ref /\ rec.Seq = q /\ rec.callback = p /\ rec.done = 0
      BY <1>1, <1>2, <1>5, TakenFields, CallbackFields
    <2>2. call' = [call EXCEPT ![k] = rec]
      BY <1>2, <1>5
    <2> HIDE DEF rec
    <2> QED BY <1>1, <1>2, <1>3, <1>4, <1>5, <2>1, <2>2, TakeCall
  <1>6. CASE p \notin Handlers
    <2> DEFINE rec == InUse(k, q)
    <2>1. rec \in CallRecords /\ rec.ref /\ rec.Seq = q /\ rec.callback = None /\ rec.done = 0
      BY <1>1, <1>2, TakenFields
    <2>2. call' = [call EXCEPT ![k] = rec]
      BY <1>2, <1>6
    <2> HIDE DEF rec
    <2> QED BY <1>1, <1>2, <1>3, <1>4, <1>6, <2>1, <2>2, TakeCall
  <1> QED BY <1>5, <1>6

LEMMA NotFoundLocal ==
  ASSUME LocalInv, NEW c \in Callers, ServiceNotFound(c)
  PROVE  LocalInv'
  <1> DEFINE q == startSeq + 1
  <1>1. q \in Seqs /\ q \in 0..MaxSeq /\ 0 \in 0..MaxSeq /\ startSeq' = q /\ pc[c] = "idle"
    BY NextNumber DEF ServiceNotFound
  <1>2. PICK k \in Calls :
          /\ ~call[k].ref
          /\ my' = [my EXCEPT ![c] = [call |-> k, seq |-> q]]
          /\ call' = [call EXCEPT ![k] = [InUse(k, 0) EXCEPT !.Err = "err", !.done = 1]]
    BY <1>1 DEF ServiceNotFound, Pooled
  <1>3. /\ pc' = [pc EXCEPT ![c] = "done"]
        /\ UNCHANGED <<pending, timers, firing, chanEvent, others, lost, crashed, returned,
                       queue, serving, pushing>>
    BY DEF ServiceNotFound
  <1>4. q = startSeq + 1
    OBVIOUS
  <1> HIDE DEF q
  <1> DEFINE rec == WithOutcome(InUse(k, 0), "err", 1)
  <1>5. rec \in CallRecords /\ rec.ref /\ rec.Seq = 0 /\ rec.callback = None /\ rec.done = 1
    <2>1. InUse(k, 0) \in CallRecords /\ InUse(k, 0).ref /\ InUse(k, 0).Seq = 0 /\ InUse(k, 0).callback = None
      BY <1>1, <1>2, TakenFields
    <2>2. "err" \in Errs /\ 1 \in 0..1
      BY DEF Errs
    <2> QED BY <2>1, <2>2, OutcomeFields
  <1>6. call' = [call EXCEPT ![k] = rec]
    BY <1>2 DEF WithOutcome
  <1>7. c \in Procs /\ c \notin Handlers
    BY ProcKinds
  <1> HIDE DEF rec
  <1> QED BY <1>1, <1>2, <1>3, <1>4, <1>5, <1>6, <1>7, TakeCall

\* The callee's queue has room for a request that is about to be sent: it holds one
\* request per number at most, and none with this one.
LEMMA RoomLeft ==
  ASSUME LocalInv, CalleeTimely, NEW p \in Procs, pc[p] = "lock"
  PROVE  ~QueueFull
  <1> DEFINE n == Len(queue)
             z == my[p].seq
             S == 1..n
             T == Seqs \ {z}
             f == [i \in S |-> queue[i].seq]
  <1>1. queue \in Seq(Requests) /\ n \in Nat /\ DOMAIN queue = S
    BY DEF LocalInv, LocalTypeOK
  <1>2. z \in Seqs /\ \A i \in S : queue[i].seq # z
    BY <1>1 DEF LocalInv, RequestsOnce, ProcsOK, ProcOK
  <1>3. f \in [S -> T]
    BY <1>1, <1>2, Typed, RequestFields DEF LocalInv
  <1>4. MaxSeq \in Nat \ {0} /\ MaxRequests \in Nat
    BY <1>2, CallTableAssumption, LocalRpcAssumption DEF Seqs
  <1>5. IsFiniteSet(S) /\ Cardinality(S) = n
    BY <1>1, FS_Interval
  <1>6. IsFiniteSet(T) /\ Cardinality(T) = MaxSeq - 1
    <2>1. IsFiniteSet(Seqs) /\ Cardinality(Seqs) = MaxSeq
      BY <1>4, FS_Interval DEF Seqs
    <2> QED BY <1>2, <2>1, FS_RemoveElement
  <1>7. ASSUME n >= MaxRequests PROVE FALSE
    <2>1. Cardinality(T) < Cardinality(S)
      BY <1>1, <1>4, <1>5, <1>6, <1>7 DEF CalleeTimely
    <2> HIDE DEF n, z, S, T, f
    <2>2. \E x, y \in S : x # y /\ f[x] = f[y]
      BY <1>3, <1>5, <1>6, <2>1, FS_PigeonHole
    <2>3. PICK x, y \in S : x # y /\ f[x] = f[y]
      BY <2>2
    <2>4. queue[x].seq = queue[y].seq
      BY <2>3 DEF f
    <2> QED BY <1>1, <2>3, <2>4 DEF LocalInv, RequestsOnce
  <1> QED BY <1>7 DEF QueueFull

\* The Call of a goroutine that waits for pendingLock enters the table, and its
\* request the callee's queue.
LEMMA EnterLocal ==
  ASSUME LocalInv, NEW p \in Procs, pc[p] = "lock", LockFree, NEW k, NEW z, NEW kd, NEW where, NEW new,
         k = my[p].call, z = my[p].seq, AddPending(z, k),
         queue' = Append(queue, [kind |-> kd, call |-> k, seq |-> z]),
         pc' = [pc EXCEPT ![p] = where], my' = [my EXCEPT ![p] = new],
         \/ p \in Callers /\ kd = "call" /\ where = "done" /\ new = my[p]
         \/ p \in Handlers /\ kd = "async" /\ where = "idle" /\ new = Idle,
         UNCHANGED <<call, startSeq, firing, chanEvent, others, lost, crashed, returned, serving, pushing>>
  PROVE  LocalInv'
  <1> DEFINE req == [kind |-> kd, call |-> k, seq |-> z]
  <1>1. /\ ProcOK(p) /\ k \in Calls /\ z \in Seqs /\ call[k].ref /\ returned[z] = <<>> /\ pending[z] = None
        /\ p \in Callers => call[k].callback = None
        /\ p \in Handlers => call[k].callback = p
    BY DEF LocalInv, ProcsOK, ProcOK
  <1>2. call[k].done = 0 /\ call[k].Seq = z
    BY <1>1, Typed DEF ProcOK, LocalInv
  <1>3. /\ pending' \in [Seqs -> Calls \cup {None}] /\ pending'[z] = k
        /\ \A s \in Seqs : s # z => pending'[s] = pending[s]
        /\ timers' = timers \cup {z} /\ timers' \subseteq Seqs
    BY <1>1, Typed DEF AddPending, LocalInv, LocalTypeOK, TableTypeOK
  <1>4. /\ my' \in [Procs -> [call : Calls \cup {None}, seq : 0..MaxSeq]]
        /\ pc' \in [Procs -> {"idle", "lock", "done"}]
        /\ my'[p] = new /\ pc'[p] = where
        /\ \A r \in Procs : r # p => my'[r] = my[r] /\ pc'[r] = pc[r]
    <2>1. my[p] \in [call : Calls \cup {None}, seq : 0..MaxSeq] /\ Idle \in [call : Calls \cup {None}, seq : 0..MaxSeq]
      BY CallTableAssumption DEF LocalInv, LocalTypeOK, Idle
    <2> QED BY <2>1 DEF LocalInv, LocalTypeOK
  <1>5. /\ req \in Requests /\ req.kind = kd /\ req.call = k /\ req.seq = z
        /\ queue \in Seq(Requests) /\ queue' = Append(queue, req)
    BY <1>1 DEF LocalInv, LocalTypeOK, Requests
  <1> HIDE DEF req
  <1>6. /\ queue' \in Seq(Requests) /\ Len(queue) \in Nat
        /\ \A i \in DOMAIN queue' : \/ i \in DOMAIN queue /\ queue'[i] = queue[i]
                                    \/ i = Len(queue) + 1 /\ queue'[i] = req
    BY <1>5, AppendFacts
  <1>7. LocalTypeOK'
    BY <1>3, <1>4, <1>6 DEF LocalInv, LocalTypeOK, TableTypeOK
  <1>8. Apart(k, z, p)
    BY <1>1, HeldApart, ProcKinds
  <1>9. /\ \A r \in pushing : r.call # k
        /\ \A h \in Handlers : \A i \in DOMAIN chanEvent[h] : chanEvent[h][i] # k
        /\ k \notin lost
    BY <1>1, NotOut
  <1>10. Aside(k, z, p)
    BY <1>3, <1>4 DEF Aside
  <1>11. After(k, z, p)
    <2>1. EntryOK(z, k)'
      BY <1>1, <1>2, <1>3, <1>9 DEF EntryOK
    <2>2. Owned(k)'
      <3>1. CASE p \in Callers
        BY <1>4, <3>1, ProcKinds DEF Owned
      <3>2. CASE p \in Handlers
        BY <1>1, <1>3, <3>2, ProcKinds DEF Owned
      <3> QED BY <3>1, <3>2
    <2>3. ProcOK(p)' /\ (my'[p] = Idle \/ (my'[p].call = k /\ my'[p].seq = z))
      BY <1>1, <1>2, <1>4, ProcKinds DEF ProcOK
    <2>4. FiringOK'
      BY <1>3, SeqsNat DEF LocalInv, FiringOK, LockFree
    <2>5. z <= startSeq /\ startSeq \in Nat /\ ~crashed /\ Len(returned[z]) <= 1
      BY <1>1, Typed DEF LocalInv, FreshUnused, OutcomesOK
    <2> QED BY <1>1, <1>2, <1>3, <1>9, <2>1, <2>2, <2>3, <2>4, <2>5 DEF After
  <1>12. /\ \A r \in serving : r.seq # z
         /\ \A i \in DOMAIN queue : queue[i].seq # z
    BY <1>1, NoneOpenFor DEF LocalInv, RequestsOnce
  <1>13. RequestsAside(z)
    <2>1. RequestOK(req)'
      <3>1. kd = "async" <=> call[k].callback # None
        BY <1>1, ProcKinds
      <3> QED BY <1>1, <1>3, <1>5, <3>1 DEF RequestOK
    <2>2. ASSUME NEW i \in DOMAIN queue', queue'[i] = req
          PROVE  RequestOK(queue[i])'
      BY <2>1, <2>2 DEF RequestOK
    <2>3. RequestsOnce'
      <3>1. \A i, j \in DOMAIN queue' : queue'[i].seq = queue'[j].seq => i = j
        BY <1>5, <1>6, <1>12 DEF LocalInv, RequestsOnce
      <3>2. \A i \in DOMAIN queue', r \in serving : queue'[i].seq # r.seq
        BY <1>5, <1>6, <1>12 DEF LocalInv, RequestsOnce
      <3>3. ASSUME NEW r \in Procs, pc'[r] = "lock", NEW i \in DOMAIN queue'
            PROVE  queue'[i].seq # my'[r].seq
        <4>1. r # p /\ my'[r] = my[r] /\ pc[r] = "lock" /\ my[r].seq # z
          BY <1>4, <1>8, <3>3 DEF Apart
        <4> QED BY <1>5, <1>6, <3>3, <4>1 DEF LocalInv, RequestsOnce
      <3> QED BY <3>1, <3>2, <3>3 DEF LocalInv, RequestsOnce
    <2> QED BY <1>5, <1>6, <1>12, <2>2, <2>3 DEF RequestsAside
  <1>14. QueuesAside(k)
    BY <1>1, <1>9, QueuesStay
  <1> QED BY <1>1, <1>7, <1>8, <1>10, <1>11, <1>13, <1>14, OneCall

LEMMA CallGoes ==
  ASSUME LocalInv, CalleeTimely, NEW c \in Callers, selfNodeRpcHandlerGo(c)
  PROVE  LocalInv'
  <1>1. c \in Procs /\ pc[c] = "lock" /\ ~QueueFull
    BY RoomLeft, ProcKinds DEF selfNodeRpcHandlerGo
  <1>2. my' = [my EXCEPT ![c] = my[c]]
    BY <1>1 DEF selfNodeRpcHandlerGo, LocalInv, LocalTypeOK
  <1>3. /\ LockFree /\ AddPending(my[c].seq, my[c].call)
        /\ queue' = Append(queue, [kind |-> "call", call |-> my[c].call, seq |-> my[c].seq])
        /\ pc' = [pc EXCEPT ![c] = "done"]
        /\ UNCHANGED <<call, startSeq, firing, chanEvent, others, lost, crashed, returned, serving, pushing>>
    BY <1>1 DEF selfNodeRpcHandlerGo
  <1> QED BY <1>1, <1>2, <1>3, EnterLocal

LEMMA AsyncGoes ==
  ASSUME LocalInv, CalleeTimely, NEW h \in Handlers, selfNodeRpcHandlerAsyncGo(h)
  PROVE  LocalInv'
  <1>1. h \in Procs /\ pc[h] = "lock" /\ ~QueueFull
    BY RoomLeft, ProcKinds DEF selfNodeRpcHandlerAsyncGo
  <1>2. /\ LockFree /\ AddPending(my[h].seq, my[h].call)
        /\ queue' = Append(queue, [kind |-> "async", call |-> my[h].call, seq |-> my[h].seq])
        /\ pc' = [pc EXCEPT ![h] = "idle"] /\ my' = [my EXCEPT ![h] = Idle]
        /\ UNCHANGED <<call, startSeq, firing, chanEvent, others, lost, crashed, returned, serving, pushing>>
    BY <1>1 DEF selfNodeRpcHandlerAsyncGo
  <1> QED BY <1>1, <1>2, EnterLocal

-----------------------------------------------------------------------------
(* Steps that change no Call *)

\* A step that leaves the table, the Calls and the goroutines alone and opens no
\* request with a closure. A timer whose call is gone may expire.
LEMMA RequestsMove ==
  ASSUME LocalInv, LocalTypeOK',
         UNCHANGED <<call, pending, firing, chanEvent, lost, crashed, returned, pc, my, pushing>>,
         timers' \subseteq timers, \A s \in timers : pending[s] # None => s \in timers',
         startSeq' \in {startSeq, startSeq + 1},
         \A r \in serving' : r \in serving \/ \E i \in DOMAIN queue : queue[i] = r,
         \A i \in DOMAIN queue' : \/ \E j \in DOMAIN queue : queue'[i] = queue[j]
                                  \/ queue'[i].kind = "go" /\ queue'[i].seq <= startSeq',
         RequestsOnce'
  PROVE  LocalInv'
  <1>1. startSeq \in Nat /\ startSeq' \in Nat /\ startSeq <= startSeq'
    BY Typed DEF LocalInv
  <1>2. /\ \A r \in serving : r.seq \in Nat /\ r.seq <= startSeq
        /\ \A i \in DOMAIN queue : queue[i].seq \in Nat /\ queue[i].seq <= startSeq
    BY Typed, RequestFields, SeqsNat DEF LocalInv, FreshUnused
  <1>3. FreshUnused'
    <2>1. \A k \in Calls : call[k].Seq <= startSeq'
      BY <1>1, Typed, CallTableAssumption DEF LocalInv, FreshUnused
    <2>2. \A p \in Procs : my[p].seq <= startSeq'
      BY <1>1, Typed, CallTableAssumption DEF LocalInv, FreshUnused
    <2>3. \A r \in serving' : r.seq <= startSeq'
      BY <1>1, <1>2
    <2>4. \A i \in DOMAIN queue' : queue'[i].seq <= startSeq'
      BY <1>1, <1>2
    <2>5. \A s \in Seqs : s > startSeq' => pending[s] = None /\ returned[s] = <<>>
      BY <1>1, SeqsNat DEF LocalInv, FreshUnused
    <2> QED BY <2>1, <2>2, <2>3, <2>4, <2>5 DEF FreshUnused
  <1>4. RequestsOK'
    <2>1. ASSUME NEW r \in Requests, RequestOK(r) PROVE RequestOK(r)'
      BY <2>1, RequestFields, CallTableAssumption DEF RequestOK
    <2>2. ASSUME NEW r \in serving' PROVE r \in Requests /\ RequestOK(r)
      <3>1. CASE r \in serving
        BY <3>1, Typed DEF LocalInv, RequestsOK
      <3>2. CASE r \notin serving
        BY <2>2, <3>2, Typed DEF LocalInv, LocalTypeOK, RequestsOK
      <3> QED BY <3>1, <3>2
    <2>3. ASSUME NEW i \in DOMAIN queue', queue'[i].kind # "go"
          PROVE  RequestOK(queue[i])'
      <3>1. PICK r \in Requests : r = queue'[i] /\ RequestOK(r)
        BY <2>3, Typed DEF LocalInv, RequestsOK
      <3>2. RequestOK(r)'
        BY <2>1, <3>1
      <3> QED BY <3>1, <3>2 DEF RequestOK
    <2> QED BY <2>1, <2>2, <2>3 DEF RequestsOK
  <1>5. FreeIsClear' /\ NumbersUnique'
    BY DEF LocalInv, FreeIsClear, NumbersUnique
  <1>6. PendingOK'
    <2>1. \A s \in Seqs : pending[s] # None => EntryOK(s, pending[s])
      BY DEF LocalInv, PendingOK
    <2> QED BY <2>1 DEF PendingOK, EntryOK
  <1>7. FiringOK' /\ LostOK' /\ QueuedOnce' /\ OutcomesOK'
    BY DEF LocalInv, FiringOK, LostOK, QueuedOnce, OutcomesOK
  <1>8. PushingOK' /\ QueuesOK'
    BY DEF LocalInv, PushingOK, QueuesOK, QueuedOK, OutOK
  <1>9. ProcsOK'
    BY DEF LocalInv, ProcsOK, ProcOK
  <1>10. Accounted'
    BY DEF LocalInv, Accounted, Owned
  <1> QED BY <1>3, <1>4, <1>5, <1>6, <1>7, <1>8, <1>9, <1>10 DEF LocalInv

LEMMA GoGoes ==
  ASSUME LocalInv, goRpc
  PROVE  LocalInv'
  <1> DEFINE q == startSeq + 1
  <1>1. q \in Seqs /\ q \in 0..MaxSeq /\ startSeq' = q
    BY NextNumber DEF goRpc
  <1>2. UNCHANGED <<call, pending, timers, firing, chanEvent, others, lost, crashed, returned,
                    pc, my, serving, pushing>>
    BY DEF goRpc
  <1>3. startSeq \in Nat /\ q = startSeq + 1
    BY Typed DEF LocalInv
  <1> HIDE DEF q
  <1>4. CASE queue' = queue
    <2>1. LocalTypeOK' /\ RequestsOnce'
      BY <1>1, <1>2, <1>4 DEF LocalInv, LocalTypeOK, TableTypeOK, RequestsOnce
    <2> QED BY <1>1, <1>2, <1>3, <1>4, <2>1, RequestsMove
  <1>5. CASE queue' # queue
    <2>1. PICK k \in Calls : queue' = Append(queue, [kind |-> "go", call |-> k, seq |-> q])
      BY <1>1, <1>5 DEF goRpc, Pooled
    <2> DEFINE req == [kind |-> "go", call |-> k, seq |-> q]
    <2>2. queue \in Seq(Requests) /\ req \in Requests /\ req.kind = "go" /\ req.seq = q
      BY <1>1 DEF LocalInv, LocalTypeOK, Requests
    <2>3. queue' = Append(queue, req)
      BY <2>1
    <2> HIDE DEF req
    <2>4. /\ queue' \in Seq(Requests) /\ Len(queue) \in Nat
          /\ \A i \in DOMAIN queue' : \/ i \in DOMAIN queue /\ queue'[i] = queue[i]
                                      \/ i = Len(queue) + 1 /\ queue'[i] = req
      BY <2>2, <2>3, AppendFacts
    <2>5. LocalTypeOK'
      BY <1>1, <1>2, <2>4 DEF LocalInv, LocalTypeOK, TableTypeOK
    <2>6. RequestsOnce'
      <3>1. /\ \A r \in serving : r.seq # q
            /\ \A i \in DOMAIN queue : queue[i].seq # q
        BY <1>3, Typed, RequestFields, SeqsNat DEF LocalInv, FreshUnused
      <3>2. \A p \in Procs : my[p].seq # q
        BY <1>3, Typed, CallTableAssumption DEF LocalInv, FreshUnused
      <3> QED BY <1>2, <2>2, <2>4, <3>1, <3>2 DEF LocalInv, RequestsOnce
    <2>7. \A i \in DOMAIN queue' : \/ \E j \in DOMAIN queue : queue'[i] = queue[j]
                                   \/ queue'[i].kind = "go" /\ queue'[i].seq <= startSeq'
      BY <1>1, <1>3, <2>2, <2>4
    <2> QED BY <1>1, <1>2, <1>3, <2>5, <2>6, <2>7, RequestsMove
  <1> QED BY <1>4, <1>5

LEMMA RequestTaken ==
  ASSUME LocalInv, HandlerRpcRequest
  PROVE  LocalInv'
  <1>1. queue \in Seq(Requests) /\ queue # <<>>
    BY DEF HandlerRpcRequest, LocalInv, LocalTypeOK
  <1>2. /\ queue' = Tail(queue)
        /\ \A r : r \in serving' <=> r \in serving \/ (r = Head(queue) /\ r.kind # "go")
    BY DEF HandlerRpcRequest
  <1>3. /\ queue' \in Seq(Requests)
        /\ \A i \in DOMAIN queue' : i + 1 \in DOMAIN queue /\ queue'[i] = queue[i + 1] /\ i \in Nat \ {0}
        /\ 1 \in DOMAIN queue /\ Head(queue) = queue[1] /\ queue[1] \in Requests
    BY <1>1, <1>2, TailFacts
  <1>4. /\ startSeq' = startSeq
        /\ UNCHANGED <<call, pending, timers, firing, chanEvent, others, lost, crashed,
                       returned, pc, my, pushing>>
    BY DEF HandlerRpcRequest, tableVars
  <1>5. serving' \subseteq {r \in Requests : r.kind # "go"}
    BY <1>2, <1>3 DEF LocalInv, LocalTypeOK
  <1>6. LocalTypeOK'
    BY <1>3, <1>4, <1>5 DEF LocalInv, LocalTypeOK, TableTypeOK
  <1>7. RequestsOnce'
    <2>1. \A r, q \in serving' : r.seq = q.seq => r = q
      BY <1>2, <1>3 DEF LocalInv, RequestsOnce
    <2>2. \A i, j \in DOMAIN queue' : queue'[i].seq = queue'[j].seq => i = j
      BY <1>3 DEF LocalInv, RequestsOnce
    <2>3. \A i \in DOMAIN queue', r \in serving' : queue'[i].seq # r.seq
      <3>1. ASSUME NEW i \in DOMAIN queue' PROVE queue'[i].seq # queue[1].seq
        BY <1>3 DEF LocalInv, RequestsOnce
      <3> QED BY <1>2, <1>3, <3>1 DEF LocalInv, RequestsOnce
    <2>4. \A p \in Procs : pc[p] = "lock" => \A i \in DOMAIN queue' : queue'[i].seq # my[p].seq
      BY <1>3 DEF LocalInv, RequestsOnce
    <2> QED BY <1>4, <2>1, <2>2, <2>3, <2>4 DEF RequestsOnce
  <1>8. /\ \A r \in serving' : r \in serving \/ \E i \in DOMAIN queue : queue[i] = r
        /\ \A i \in DOMAIN queue' : \E j \in DOMAIN queue : queue'[i] = queue[j]
    BY <1>2, <1>3
  <1> QED BY <1>4, <1>6, <1>7, <1>8, RequestsMove

LEMMA NoReplyLocal ==
  ASSUME LocalInv, NEW r \in serving, NoReply(r)
  PROVE  LocalInv'
  <1>1. /\ serving' \subseteq serving /\ startSeq' = startSeq /\ queue' = queue
        /\ UNCHANGED <<call, pending, timers, firing, chanEvent, others, lost, crashed, returned,
                       pc, my, pushing>>
    BY DEF NoReply, tableVars
  <1>2. LocalTypeOK' /\ RequestsOnce'
    BY <1>1 DEF LocalInv, LocalTypeOK, TableTypeOK, RequestsOnce
  <1> QED BY <1>1, <1>2, RequestsMove

\* The other events of a service, and the test of pushEvent.
QueueStep == Admission \/ \E h \in Handlers : OtherEvent(h) \/ HandleOther(h)

LEMMA QueueStepLocal ==
  ASSUME LocalInv, QueueStep
  PROVE  LocalInv'
  <1>1. UNCHANGED <<call, startSeq, pending, timers, firing, chanEvent, lost, crashed, returned,
                    pc, my, queue, serving, pushing>>
    BY DEF QueueStep, Admission, Admit, AdmitTimeout, OtherEvent, PushOther, HandleOther, TakeOther, localVars
  <1>2. others' \in [Handlers -> 0..MaxOthers]
    <2>1. CASE Admission
      BY <2>1 DEF Admission, Admit, AdmitTimeout, LocalInv, LocalTypeOK, TableTypeOK
    <2>2. ASSUME NEW h \in Handlers, OtherEvent(h) \/ HandleOther(h)
          PROVE  others' \in [Handlers -> 0..MaxOthers]
      <3>1. others[h] \in 0..MaxOthers
        BY DEF LocalInv, LocalTypeOK, TableTypeOK
      <3>2. PICK n \in 0..MaxOthers : others' = [others EXCEPT ![h] = n]
        BY <2>2, <3>1, CallTableAssumption DEF OtherEvent, PushOther, HandleOther, TakeOther
      <3> QED BY <3>2 DEF LocalInv, LocalTypeOK, TableTypeOK
    <2> QED BY <2>1, <2>2 DEF QueueStep
  <1>3. LocalTypeOK' /\ RequestsOnce'
    BY <1>1, <1>2 DEF LocalInv, LocalTypeOK, TableTypeOK, RequestsOnce
  <1> QED BY <1>1, <1>3, RequestsMove

-----------------------------------------------------------------------------
(* A user is told *)

\* Telling the user of number z outcome e.
LEMMA ReturnFacts ==
  ASSUME LocalTypeOK, NEW z \in Seqs, NEW e \in Errs, Return(z, e), returned[z] = <<>>
  PROVE  /\ returned' \in [Seqs -> Seq(Errs)]
         /\ \A s \in Seqs : s # z => returned'[s] = returned[s]
         /\ Len(returned'[z]) = 1
  BY DEF LocalTypeOK, TableTypeOK, Return

LEMMA ReleaseFacts ==
  ASSUME LocalTypeOK, NEW k \in Calls, call[k].ref, ReleaseCall(k)
  PROVE  /\ call' \in [Calls -> CallRecords] /\ call'[k] = Cleared /\ crashed' = crashed
         /\ ~call'[k].ref /\ call'[k].Seq = 0
         /\ \A l \in Calls : l # k => call'[l] = call[l]
  <1>1. Cleared \in CallRecords /\ Cleared.ref = FALSE /\ Cleared.Seq = 0
    BY CallTableAssumption DEF Cleared, CallRecords, Errs
  <1>2. call' = [call EXCEPT ![k] = Cleared] /\ crashed' = crashed
    BY DEF ReleaseCall, LocalTypeOK, TableTypeOK
  <1> QED BY <1>1, <1>2 DEF LocalTypeOK, TableTypeOK

LEMMA DoneLocal ==
  ASSUME LocalInv, NEW c \in Callers, Done(c)
  PROVE  LocalInv'
  <1>1. PICK k, z, e : k = my[c].call /\ z = my[c].seq /\ e = call[k].Err
    OBVIOUS
  <1>2. /\ pc[c] = "done" /\ call[k].done = 1 /\ Return(z, e) /\ ReleaseCall(k) /\ c \in Procs
        /\ my' = [my EXCEPT ![c] = Idle] /\ pc' = [pc EXCEPT ![c] = "idle"]
        /\ UNCHANGED <<startSeq, pending, timers, firing, chanEvent, others, lost, queue, serving, pushing>>
    BY <1>1, ProcKinds DEF Done
  <1>3. k \in Calls /\ call[k].ref /\ z \in Seqs /\ returned[z] = <<>> /\ pending[z] = None
    BY <1>1, <1>2 DEF LocalInv, ProcsOK, ProcOK
  <1>4. e \in Errs
    BY <1>1, <1>3, Typed DEF LocalInv
  <1>5. /\ returned' \in [Seqs -> Seq(Errs)]
        /\ \A s \in Seqs : s # z => returned'[s] = returned[s]
        /\ Len(returned'[z]) = 1
    BY <1>2, <1>3, <1>4, ReturnFacts DEF LocalInv
  <1>6. /\ call' \in [Calls -> CallRecords] /\ call'[k] = Cleared /\ crashed' = crashed
        /\ ~call'[k].ref /\ call'[k].Seq = 0
        /\ \A l \in Calls : l # k => call'[l] = call[l]
    BY <1>2, <1>3, ReleaseFacts DEF LocalInv
  <1>7. /\ my'[c] = Idle /\ pc'[c] = "idle" /\ \A p \in Procs : p # c => my'[p] = my[p] /\ pc'[p] = pc[p]
        /\ my' \in [Procs -> [call : Calls \cup {None}, seq : 0..MaxSeq]]
        /\ pc' \in [Procs -> {"idle", "lock", "done"}]
    BY <1>2, CallTableAssumption DEF LocalInv, LocalTypeOK, Idle
  <1>8. LocalTypeOK'
    BY <1>2, <1>5, <1>6, <1>7 DEF LocalInv, LocalTypeOK, TableTypeOK
  <1>9. Apart(k, z, c)
    BY <1>1, <1>2, <1>3, HeldApart, ProcKinds
  <1>10. Aside(k, z, c)
    BY <1>2, <1>5, <1>6, <1>7 DEF Aside
  <1>11. /\ \A r \in pushing : r.call # k
         /\ \A h \in Handlers : \A i \in DOMAIN chanEvent[h] : chanEvent[h][i] # k
         /\ k \notin lost
    BY <1>1, <1>2, <1>3, NotOut
  <1>12. After(k, z, c)
    <2>1. ProcOK(c)'
      BY <1>7 DEF ProcOK, Idle
    <2>2. FiringOK'
      BY <1>2 DEF LocalInv, FiringOK
    <2>3. z <= startSeq /\ startSeq \in Nat /\ ~crashed
      BY <1>1, <1>2, Typed DEF LocalInv, FreshUnused, OutcomesOK
    <2> QED BY <1>2, <1>3, <1>5, <1>6, <1>7, <1>11, <2>1, <2>2, <2>3 DEF After
  <1>13. RequestsAside(z)
    BY <1>2, <1>3, <1>7, NoneOpenFor, RequestsStay
  <1>14. QueuesAside(k)
    BY <1>2, <1>3, <1>11, QueuesStay
  <1> QED BY <1>2, <1>3, <1>8, <1>9, <1>10, <1>12, <1>13, <1>14, OneCall

\* The callback has been run, and the Call is released or, after a panic, lost.
LEMMA CallbackLocal ==
  ASSUME LocalInv, NEW h \in Handlers, RunCallback(h)
  PROVE  LocalInv'
  <1>0. PICK panics \in BOOLEAN : HandlerRpcResponseCB(h, panics)
    BY DEF RunCallback
  <1>1. PICK k, z, e : k = Head(chanEvent[h]) /\ z = call[k].Seq /\ e = call[k].Err
    OBVIOUS
  <1>2. /\ chanEvent[h] # <<>>
        /\ UNCHANGED <<pc, my, queue, serving, pushing, startSeq, pending, timers, firing, others>>
    BY <1>0 DEF HandlerRpcResponseCB, RunCallback, localVars
  <1>3. k \in Calls /\ QueuedOK(h, k) /\ h # None
    BY <1>1, <1>2, TailFacts, CallTableAssumption DEF LocalInv, LocalTypeOK, TableTypeOK, QueuesOK
  <1>4. /\ call[k].ref /\ call[k].callback = h /\ z \in Seqs /\ returned[z] = <<>> /\ pending[z] = None
        /\ k \notin lost /\ (\A p \in Procs : my[p].call # k) /\ (\A r \in pushing : r.call # k)
    BY <1>1, <1>3 DEF QueuedOK, OutOK
  <1>5. e \in Errs
    BY <1>1, <1>3, Typed DEF LocalInv
  <1>6. /\ Return(z, e)
        /\ chanEvent' = [chanEvent EXCEPT ![h] = Tail(chanEvent[h])]
        /\ IF panics THEN lost' = lost \cup {k} /\ UNCHANGED <<call, crashed>>
                     ELSE ReleaseCall(k) /\ lost' = lost
    BY <1>0, <1>1, <1>3, <1>4 DEF HandlerRpcResponseCB
  <1>7. /\ returned' \in [Seqs -> Seq(Errs)]
        /\ \A s \in Seqs : s # z => returned'[s] = returned[s]
        /\ Len(returned'[z]) = 1
    BY <1>4, <1>5, <1>6, ReturnFacts DEF LocalInv
  <1>8. /\ crashed' = crashed /\ call' \in [Calls -> CallRecords]
        /\ \A l \in Calls : l # k => call'[l] = call[l]
        /\ IF panics THEN call'[k] = call[k] /\ lost' = lost \cup {k}
                     ELSE call'[k] = Cleared /\ ~call'[k].ref /\ call'[k].Seq = 0 /\ lost' = lost
    <2>1. CASE panics
      BY <1>6, <2>1 DEF LocalInv, LocalTypeOK, TableTypeOK
    <2>2. CASE ~panics
      BY <1>3, <1>4, <1>6, <2>2, ReleaseFacts DEF LocalInv
    <2> QED BY <2>1, <2>2
  <1>9. /\ chanEvent' \in [Handlers -> Seq(Calls)]
        /\ \A g \in Handlers : g # h => chanEvent'[g] = chanEvent[g]
        /\ \A i \in DOMAIN chanEvent'[h] : /\ i \in Nat \ {0} /\ i + 1 \in DOMAIN chanEvent[h]
                                           /\ chanEvent'[h][i] = chanEvent[h][i + 1]
        /\ \A j \in DOMAIN chanEvent[h] : j # 1 => /\ j - 1 \in DOMAIN chanEvent'[h]
                                                   /\ chanEvent'[h][j - 1] = chanEvent[h][j]
        /\ 1 \in DOMAIN chanEvent[h] /\ chanEvent[h][1] = k
    <2>1. chanEvent[h] \in Seq(Calls) /\ chanEvent \in [Handlers -> Seq(Calls)]
      BY DEF LocalInv, LocalTypeOK, TableTypeOK
    <2> QED BY <1>1, <1>2, <1>6, <2>1, TailFacts
  <1>10. LocalTypeOK'
    BY <1>2, <1>3, <1>7, <1>8, <1>9 DEF LocalInv, LocalTypeOK, TableTypeOK
  <1>11. Apart(k, z, None)
    BY <1>1, <1>3, <1>4, HeldApart, ProcKinds
  <1>12. Aside(k, z, None)
    BY <1>2, <1>7, <1>8 DEF Aside
  <1>13. After(k, z, None)
    <2>1. FiringOK'
      BY <1>2 DEF LocalInv, FiringOK
    <2>2. z <= startSeq /\ startSeq \in Nat /\ ~crashed
      BY <1>1, <1>3, Typed DEF LocalInv, FreshUnused, OutcomesOK
    <2>3. call'[k].ref => Owned(k)'
      BY <1>3, <1>4, <1>8 DEF Owned
    <2>4. call'[k].Seq \in {0, z} /\ (~call'[k].ref => call'[k] = Cleared)
      BY <1>1, <1>4, <1>8
    <2>5. k \in lost' => call'[k].ref /\ call'[k].callback # None /\ \A p \in Procs : my'[p].call # k
      BY <1>2, <1>3, <1>4, <1>8
    <2> QED BY <1>2, <1>4, <1>7, <1>8, <2>1, <2>2, <2>3, <2>4, <2>5, ProcKinds DEF After
  <1>14. RequestsAside(z)
    BY <1>2, <1>4, NoneOpenFor, RequestsStay
  <1>15. QueuesAside(k)
    <2>1. \A i \in DOMAIN chanEvent'[h] : chanEvent'[h][i] # k
      BY <1>9 DEF LocalInv, QueuedOnce
    <2>2. \A g \in Handlers : g # h => \A i \in DOMAIN chanEvent[g] : chanEvent[g][i] # k
      BY <1>4 DEF LocalInv, QueuesOK, QueuedOK
    <2>3. \A g \in Handlers : \A i \in DOMAIN chanEvent'[g] :
             chanEvent'[g][i] # k /\ \E j \in DOMAIN chanEvent[g] : chanEvent'[g][i] = chanEvent[g][j]
      <3> SUFFICES ASSUME NEW g \in Handlers, NEW i \in DOMAIN chanEvent'[g]
                   PROVE  chanEvent'[g][i] # k /\ \E j \in DOMAIN chanEvent[g] : chanEvent'[g][i] = chanEvent[g][j]
        OBVIOUS
      <3>1. CASE g = h
        BY <1>9, <2>1, <3>1
      <3>2. CASE g # h
        BY <1>9, <2>2, <3>2
      <3> QED BY <3>1, <3>2
    <2>4. \A g \in Handlers : \A j \in DOMAIN chanEvent[g] :
             chanEvent[g][j] # k => \E i \in DOMAIN chanEvent'[g] : chanEvent'[g][i] = chanEvent[g][j]
      <3> SUFFICES ASSUME NEW g \in Handlers, NEW j \in DOMAIN chanEvent[g], chanEvent[g][j] # k
                   PROVE  \E i \in DOMAIN chanEvent'[g] : chanEvent'[g][i] = chanEvent[g][j]
        OBVIOUS
      <3>1. CASE g = h
        BY <1>9, <3>1
      <3>2. CASE g # h
        BY <1>9, <3>2
      <3> QED BY <3>1, <3>2
    <2>5. QueuedOnce'
      <3> SUFFICES ASSUME NEW g \in Handlers, NEW i \in DOMAIN chanEvent'[g], NEW j \in DOMAIN chanEvent'[g],
                          chanEvent'[g][i] = chanEvent'[g][j]
                   PROVE  i = j
        BY DEF QueuedOnce
      <3>1. CASE g = h
        BY <1>9, <3>1 DEF LocalInv, QueuedOnce
      <3>2. CASE g # h
        BY <1>9, <3>2 DEF LocalInv, QueuedOnce
      <3> QED BY <3>1, <3>2
    <2> QED BY <1>2, <1>4, <2>3, <2>4, <2>5 DEF QueuesAside
  <1> QED BY <1>3, <1>4, <1>10, <1>11, <1>12, <1>13, <1>14, <1>15, OneCall

-----------------------------------------------------------------------------
(* A call leaves the table *)

\* An entry of the table, and the goroutine that waits for it.
LEMMA Entry ==
  ASSUME LocalInv, NEW z \in Seqs, NEW k \in Calls, pending[z] = k
  PROVE  /\ call[k].ref /\ call[k].Seq = z /\ call[k].done = 0 /\ returned[z] = <<>> /\ k \notin lost
         /\ \A r \in pushing : r.call # k
         /\ \A h \in Handlers : \A i \in DOMAIN chanEvent[h] : chanEvent[h][i] # k
         /\ call[k].callback # None => \A p \in Procs : my[p].call # k
         /\ call[k].callback = None =>
               \E o \in Procs : o \in Callers /\ my[o].call = k /\ my[o].seq = z /\ pc[o] = "done"
         /\ z <= startSeq /\ startSeq \in Nat /\ ~crashed
  <1>1. call[k].ref /\ call[k].Seq = z /\ call[k].done = 0 /\ returned[z] = <<>> /\ k \notin lost
    BY CallTableAssumption DEF LocalInv, PendingOK, EntryOK
  <1>2. /\ \A r \in pushing : r.call # k
        /\ \A h \in Handlers : \A i \in DOMAIN chanEvent[h] : chanEvent[h][i] # k
    BY NotOut
  <1>3. ASSUME NEW p \in Procs, my[p].call = k
        PROVE  pc[p] = "done" /\ my[p].seq = z /\ p \in Callers /\ call[k].callback = None
    <2>1. pc[p] # "idle"
      BY <1>3, CallTableAssumption DEF LocalInv, ProcsOK, ProcOK, Idle
    <2>2. my[p].seq = z
      BY <1>1, <1>3, <2>1 DEF LocalInv, ProcsOK, ProcOK
    <2>3. pc[p] = "done"
      BY <2>1, <2>2, CallTableAssumption DEF LocalInv, ProcsOK, ProcOK, LocalTypeOK
    <2>4. p \notin Handlers
      BY <2>3, <2>1 DEF LocalInv, ProcsOK, ProcOK
    <2>5. p \in Callers
      BY <2>4, ProcKinds
    <2> QED BY <1>3, <2>1, <2>2, <2>3, <2>5 DEF LocalInv, ProcsOK, ProcOK
  <1>4. call[k].callback = None => \E p \in Procs : my[p].call = k
    BY <1>1 DEF LocalInv, Accounted, Owned
  <1>5. z <= startSeq /\ startSeq \in Nat /\ ~crashed
    BY <1>1, Typed DEF LocalInv, FreshUnused, OutcomesOK
  <1> QED BY <1>1, <1>2, <1>3, <1>4, <1>5

\* The entry of a caller that waits is removed, by a reply or by the timeout, and the
\* caller is strobed.
LEMMA StrobedLocal ==
  ASSUME LocalInv, LocalTypeOK', NEW z \in Seqs, NEW k \in Calls, pending[z] = k, call[k].callback = None,
         \A s \in Seqs : pending'[s] = IF s = z THEN None ELSE pending[s],
         \A l \in Calls : l # k => call'[l] = call[l],
         call'[k].ref = call[k].ref, call'[k].Seq = call[k].Seq, call'[k].callback = None, call'[k].done = 1,
         \A s \in Seqs : s # z /\ firing.seq = s => firing'.seq = s,
         FiringOK', serving' \subseteq serving, \A r \in serving' : r.seq # z,
         \A i \in DOMAIN queue : queue[i].kind # "go" => queue[i].seq # z,
         UNCHANGED <<startSeq, timers, chanEvent, lost, crashed, returned, pc, my, queue, pushing>>
  PROVE  LocalInv'
  <1>1. /\ call[k].ref /\ call[k].Seq = z /\ call[k].done = 0 /\ returned[z] = <<>> /\ k \notin lost
        /\ \A r \in pushing : r.call # k
        /\ \A h \in Handlers : \A i \in DOMAIN chanEvent[h] : chanEvent[h][i] # k
        /\ z <= startSeq /\ startSeq \in Nat /\ ~crashed
    BY Entry
  <1>2. PICK o \in Procs : o \in Callers /\ my[o].call = k /\ my[o].seq = z /\ pc[o] = "done"
    BY Entry
  <1>3. Apart(k, z, o)
    BY <1>2, HeldApart, ProcKinds
  <1>4. Aside(k, z, o)
    BY DEF Aside
  <1>5. After(k, z, o)
    <2>1. ProcOK(o)'
      BY <1>1, <1>2, ProcKinds DEF ProcOK
    <2>2. Owned(k)'
      BY <1>2 DEF Owned
    <2> QED BY <1>1, <1>2, <2>1, <2>2 DEF After
  <1>6. RequestsAside(z)
    BY RequestsStay
  <1>7. QueuesAside(k)
    BY <1>1, QueuesStay
  <1> QED BY <1>3, <1>4, <1>5, <1>6, <1>7, OneCall

\* PushRpcResponse puts the Call at the end of the queue, or drops it.
LEMMA PushFacts ==
  ASSUME LocalTypeOK, NEW h \in Handlers, NEW k \in Calls, NEW who, PushRpcResponse(who, h, k)
  PROVE  /\ chanEvent' \in [Handlers -> Seq(Calls)] /\ lost' \subseteq Calls
         /\ lost \subseteq lost' /\ lost' \subseteq lost \cup {k}
         /\ \A g \in Handlers : \A i \in DOMAIN chanEvent'[g] :
               \/ i \in DOMAIN chanEvent[g] /\ chanEvent'[g][i] = chanEvent[g][i]
               \/ i = Len(chanEvent[g]) + 1 /\ chanEvent'[g][i] = k /\ g = h /\ lost' = lost
         /\ \A g \in Handlers : \A i \in DOMAIN chanEvent[g] :
               i \in DOMAIN chanEvent'[g] /\ chanEvent'[g][i] = chanEvent[g][i]
         /\ k \in lost' \/ \E i \in DOMAIN chanEvent'[h] : chanEvent'[h][i] = k
  <1>1. chanEvent \in [Handlers -> Seq(Calls)] /\ chanEvent[h] \in Seq(Calls) /\ lost \subseteq Calls
    BY DEF LocalTypeOK, TableTypeOK
  <1>2. CASE lost' = lost \cup {k} /\ UNCHANGED chanEvent
    BY <1>1, <1>2
  <1>3. CASE chanEvent' = [chanEvent EXCEPT ![h] = Append(@, k)] /\ UNCHANGED lost
    <2>1. /\ chanEvent'[h] = Append(chanEvent[h], k)
          /\ \A g \in Handlers : g # h => chanEvent'[g] = chanEvent[g]
      BY <1>1, <1>3
    <2>2. /\ Append(chanEvent[h], k) \in Seq(Calls)
          /\ \A i \in DOMAIN chanEvent'[h] :
                \/ i \in DOMAIN chanEvent[h] /\ chanEvent'[h][i] = chanEvent[h][i]
                \/ i = Len(chanEvent[h]) + 1 /\ chanEvent'[h][i] = k
          /\ \A i \in DOMAIN chanEvent[h] :
                i \in DOMAIN chanEvent'[h] /\ chanEvent'[h][i] = chanEvent[h][i]
          /\ Len(chanEvent[h]) + 1 \in DOMAIN chanEvent'[h] /\ chanEvent'[h][Len(chanEvent[h]) + 1] = k
      BY <1>1, <2>1, AppendFacts
    <2>3. chanEvent' \in [Handlers -> Seq(Calls)]
      BY <1>1, <1>3, <2>2
    <2>4. \A g \in Handlers : \A i \in DOMAIN chanEvent'[g] :
             \/ i \in DOMAIN chanEvent[g] /\ chanEvent'[g][i] = chanEvent[g][i]
             \/ i = Len(chanEvent[g]) + 1 /\ chanEvent'[g][i] = k /\ g = h
      BY <2>1, <2>2
    <2>5. \A g \in Handlers : \A i \in DOMAIN chanEvent[g] :
             i \in DOMAIN chanEvent'[g] /\ chanEvent'[g][i] = chanEvent[g][i]
      BY <2>1, <2>2
    <2> QED BY <1>1, <1>3, <2>2, <2>3, <2>4, <2>5
  <1> QED BY <1>2, <1>3 DEF PushRpcResponse

\* A Call with an outcome that nobody waits for goes to the service of its callback:
\* the timeout takes its entry away with the same step, the reply has done so before.
LEMMA PushedLocal ==
  ASSUME LocalInv, LocalTypeOK', NEW z \in Seqs, NEW k \in Calls, NEW h \in Handlers, NEW who,
         PushRpcResponse(who, h, k), call[k].callback = h,
         call[k].ref, call[k].Seq = z, returned[z] = <<>>, k \notin lost,
         \A p \in Procs : my[p].call # k,
         \A g \in Handlers : \A i \in DOMAIN chanEvent[g] : chanEvent[g][i] # k,
         \A s \in Seqs : pending'[s] = IF s = z THEN None ELSE pending[s],
         \A r : r \in pushing' <=> r \in pushing /\ r.call # k,
         \A s \in Seqs : s # z /\ firing.seq = s => firing'.seq = s,
         FiringOK', pending[z] = None \/ z \notin timers,
         UNCHANGED <<call, startSeq, timers, crashed, returned, pc, my, queue, serving>>
  PROVE  LocalInv'
  <1>1. h # None /\ z # 0 /\ z \in Nat
    BY CallTableAssumption, SeqsNat
  <1>2. /\ lost \subseteq lost' /\ lost' \subseteq lost \cup {k}
        /\ \A g \in Handlers : \A i \in DOMAIN chanEvent'[g] :
              \/ i \in DOMAIN chanEvent[g] /\ chanEvent'[g][i] = chanEvent[g][i]
              \/ i = Len(chanEvent[g]) + 1 /\ chanEvent'[g][i] = k /\ g = h /\ lost' = lost
        /\ \A g \in Handlers : \A i \in DOMAIN chanEvent[g] :
              i \in DOMAIN chanEvent'[g] /\ chanEvent'[g][i] = chanEvent[g][i]
        /\ k \in lost' \/ \E i \in DOMAIN chanEvent'[h] : chanEvent'[h][i] = k
    BY PushFacts DEF LocalInv
  <1>3. Apart(k, z, None)
    BY HeldApart, ProcKinds
  <1>4. Aside(k, z, None)
    BY <1>2 DEF Aside
  <1>5. After(k, z, None)
    <2>1. z <= startSeq /\ startSeq \in Nat /\ ~crashed
      BY Typed DEF LocalInv, FreshUnused, OutcomesOK
    <2>2. Owned(k)'
      BY <1>1, <1>2 DEF Owned
    <2> QED BY <1>1, <1>2, <2>1, <2>2, ProcKinds DEF After
  <1>6. RequestsAside(z)
    BY NoneOpenFor, RequestsStay
  <1>7. QueuesAside(k)
    <2>1. lost' = lost => QueuedOK(h, k)'
      BY <1>1 DEF QueuedOK, OutOK
    <2>2. \A g \in Handlers : \A i \in DOMAIN chanEvent'[g] :
             \/ chanEvent'[g][i] # k /\ \E j \in DOMAIN chanEvent[g] : chanEvent'[g][i] = chanEvent[g][j]
             \/ chanEvent'[g][i] = k /\ QueuedOK(g, k)'
      BY <1>2, <2>1
    <2>3. QueuedOnce'
      <3> SUFFICES ASSUME NEW g \in Handlers, NEW i \in DOMAIN chanEvent'[g], NEW j \in DOMAIN chanEvent'[g],
                          chanEvent'[g][i] = chanEvent'[g][j]
                   PROVE  i = j
        BY DEF QueuedOnce
      <3>1. \/ i \in DOMAIN chanEvent[g] /\ chanEvent'[g][i] = chanEvent[g][i]
            \/ i = Len(chanEvent[g]) + 1 /\ chanEvent'[g][i] = k
        BY <1>2
      <3>2. \/ j \in DOMAIN chanEvent[g] /\ chanEvent'[g][j] = chanEvent[g][j]
            \/ j = Len(chanEvent[g]) + 1 /\ chanEvent'[g][j] = k
        BY <1>2
      <3> QED BY <3>1, <3>2 DEF LocalInv, QueuedOnce
    <2> QED BY <1>2, <2>2, <2>3 DEF QueuesAside
  <1> QED BY <1>3, <1>4, <1>5, <1>6, <1>7, OneCall, ProcKinds

\* The Call and the number of an open request.
LEMMA OpenRequest ==
  ASSUME LocalInv, NEW r \in serving
  PROVE  /\ r.call \in Calls /\ r.seq \in Seqs /\ r.kind \in {"call", "async"}
         /\ pending[r.seq] = r.call /\ call[r.call].Seq = r.seq /\ call[r.call].done = 0
         /\ r.kind = "async" <=> call[r.call].callback # None
         /\ \A q \in serving : q # r => q.seq # r.seq
         /\ \A i \in DOMAIN queue : queue[i].seq # r.seq
  <1>1. r.call \in Calls /\ r.seq \in Seqs /\ r.kind \in {"call", "async"}
    BY Typed, RequestFields DEF LocalInv
  <1>2. pending[r.seq] = r.call /\ (r.kind = "async" <=> call[r.call].callback # None)
    BY DEF LocalInv, RequestsOK, RequestOK
  <1>3. call[r.call].Seq = r.seq /\ call[r.call].done = 0
    BY <1>1, <1>2, CallTableAssumption DEF LocalInv, PendingOK, EntryOK
  <1> QED BY <1>1, <1>2, <1>3 DEF LocalInv, RequestsOnce

\* RemovePending takes away one entry.
LEMMA RemoveFacts ==
  ASSUME LocalTypeOK, NEW z \in Seqs, RemovePending(z)
  PROVE  /\ pending' \in [Seqs -> Calls \cup {None}]
         /\ \A s \in Seqs : pending'[s] = IF s = z THEN None ELSE pending[s]
  BY DEF RemovePending, LocalTypeOK, TableTypeOK

\* The closure of a call that waits.
LEMMA CallReplyLocal ==
  ASSUME LocalInv, CalleeTimely, NEW r \in serving, NEW e \in {"nil", "err"}, NEW kept \in BOOLEAN,
         Reply(r, e, kept), r.kind = "call"
  PROVE  LocalInv'
  <1>1. PICK k, z : k = r.call /\ z = r.seq
    OBVIOUS
  <1>2. /\ k \in Calls /\ z \in Seqs /\ pending[z] = k /\ call[k].Seq = z /\ call[k].done = 0
        /\ call[k].callback = None
        /\ \A q \in serving : q # r => q.seq # z
        /\ \A i \in DOMAIN queue : queue[i].seq # z
    BY <1>1, OpenRequest
  <1>3. /\ LockFree /\ serving' = serving \ {r} /\ HandleReply(r, e)
        /\ UNCHANGED <<startSeq, timers, firing, chanEvent, others, lost, returned, pc, my, queue>>
    BY DEF Reply, CalleeTimely
  <1>4. /\ RemovePending(z) /\ call' = [call EXCEPT ![k].Err = e, ![k].done = 1]
        /\ UNCHANGED <<crashed, pushing>>
    BY <1>1, <1>2, <1>3, CallTableAssumption DEF HandleReply
  <1>5. call[k] \in CallRecords /\ call \in [Calls -> CallRecords] /\ e \in Errs /\ 1 \in 0..1
    BY <1>2 DEF LocalInv, LocalTypeOK, TableTypeOK, Errs
  <1> DEFINE rec == WithOutcome(call[k], e, 1)
  <1>6. call' = [call EXCEPT ![k] = rec]
    BY <1>4, <1>5 DEF WithOutcome, CallRecords
  <1>7. /\ rec \in CallRecords /\ rec.ref = call[k].ref /\ rec.Seq = call[k].Seq
        /\ rec.callback = call[k].callback /\ rec.done = 1
    BY <1>5, OutcomeFields
  <1> HIDE DEF rec
  <1>8. /\ call' \in [Calls -> CallRecords] /\ call'[k] = rec
        /\ \A l \in Calls : l # k => call'[l] = call[l]
    BY <1>2, <1>5, <1>6, <1>7
  <1>9. /\ pending' \in [Seqs -> Calls \cup {None}]
        /\ \A s \in Seqs : pending'[s] = IF s = z THEN None ELSE pending[s]
    BY <1>2, <1>4, RemoveFacts DEF LocalInv
  <1>10. LocalTypeOK'
    BY <1>3, <1>4, <1>8, <1>9 DEF LocalInv, LocalTypeOK, TableTypeOK
  <1>11. FiringOK'
    BY <1>3 DEF LocalInv, FiringOK, LockFree
  <1>12. \A q \in serving' : q.seq # z
    BY <1>2, <1>3
  <1> QED BY <1>2, <1>3, <1>4, <1>7, <1>8, <1>9, <1>10, <1>11, <1>12, StrobedLocal

LEMMA ErrFields ==
  ASSUME NEW c \in CallRecords, NEW e \in Errs, NEW rec, rec = [c EXCEPT !.Err = e]
  PROVE  /\ rec \in CallRecords /\ rec.ref = c.ref /\ rec.Seq = c.Seq
         /\ rec.callback = c.callback /\ rec.Err = e /\ rec.done = c.done
  BY DEF CallRecords

\* Writing the outcome into a Call.
LEMMA ErrFacts ==
  ASSUME LocalTypeOK, NEW k \in Calls, NEW e \in Errs, call' = [call EXCEPT ![k].Err = e]
  PROVE  /\ call' \in [Calls -> CallRecords]
         /\ \A l \in Calls : l # k => call'[l] = call[l]
         /\ call'[k].ref = call[k].ref /\ call'[k].Seq = call[k].Seq
         /\ call'[k].callback = call[k].callback /\ call'[k].done = call[k].done
  <1>1. call \in [Calls -> CallRecords] /\ call[k] \in CallRecords
    BY DEF LocalTypeOK, TableTypeOK
  <1> DEFINE rec == [call[k] EXCEPT !.Err = e]
  <1>2. /\ rec \in CallRecords /\ rec.ref = call[k].ref /\ rec.Seq = call[k].Seq
        /\ rec.callback = call[k].callback /\ rec.done = call[k].done
    BY <1>1, ErrFields
  <1>3. call' = [call EXCEPT ![k] = rec]
    OBVIOUS
  <1> HIDE DEF rec
  <1> QED BY <1>1, <1>2, <1>3

\* The closure of an asynchronous call, up to the push.
LEMMA AsyncReplyLocal ==
  ASSUME LocalInv, CalleeTimely, NEW r \in serving, NEW e \in {"nil", "err"}, NEW kept \in BOOLEAN,
         Reply(r, e, kept), r.kind = "async"
  PROVE  LocalInv'
  <1>1. PICK k, z : k = r.call /\ z = r.seq
    OBVIOUS
  <1>2. /\ k \in Calls /\ z \in Seqs /\ pending[z] = k /\ call[k].Seq = z
        /\ call[k].callback # None
        /\ \A q \in serving : q # r => q.seq # z
        /\ \A i \in DOMAIN queue : queue[i].seq # z
    BY <1>1, OpenRequest
  <1>3. /\ LockFree /\ serving' = serving \ {r} /\ HandleAsyncReply(r, e)
        /\ UNCHANGED <<startSeq, timers, firing, chanEvent, others, lost, returned, pc, my, queue>>
    BY DEF Reply, CalleeTimely
  <1>4. /\ RemovePending(z) /\ call' = [call EXCEPT ![k].Err = e]
        /\ crashed' = crashed /\ pushing' = pushing \cup {r}
    BY <1>1, <1>2, <1>3, CallTableAssumption DEF HandleAsyncReply
  <1>5. /\ call' \in [Calls -> CallRecords]
        /\ \A l \in Calls : l # k => call'[l] = call[l]
        /\ call'[k].ref = call[k].ref /\ call'[k].Seq = call[k].Seq
        /\ call'[k].callback = call[k].callback
    BY <1>2, <1>4, ErrFacts DEF LocalInv, Errs
  <1>6. /\ pending' \in [Seqs -> Calls \cup {None}]
        /\ \A s \in Seqs : pending'[s] = IF s = z THEN None ELSE pending[s]
    BY <1>2, <1>4, RemoveFacts DEF LocalInv
  <1>7. /\ call[k].ref /\ returned[z] = <<>> /\ k \notin lost
        /\ \A q \in pushing : q.call # k
        /\ \A h \in Handlers : \A i \in DOMAIN chanEvent[h] : chanEvent[h][i] # k
        /\ \A p \in Procs : my[p].call # k
        /\ z <= startSeq /\ startSeq \in Nat /\ ~crashed
    BY <1>2, Entry
  <1>8. LocalTypeOK'
    BY <1>3, <1>4, <1>5, <1>6 DEF LocalInv, LocalTypeOK, TableTypeOK
  <1>9. Apart(k, z, None)
    BY <1>2, <1>7, HeldApart, ProcKinds
  <1>10. Aside(k, z, None)
    BY <1>3, <1>5, <1>6 DEF Aside
  <1>11. OutOK(k)'
    BY <1>2, <1>3, <1>5, <1>6, <1>7 DEF OutOK
  <1>12. After(k, z, None)
    <2>1. FiringOK'
      BY <1>3 DEF LocalInv, FiringOK, LockFree
    <2>2. Owned(k)'
      BY <1>1, <1>2, <1>4, <1>5 DEF Owned
    <2> QED BY <1>2, <1>3, <1>4, <1>5, <1>6, <1>7, <2>1, <2>2, ProcKinds DEF After
  <1>13. RequestsAside(z)
    BY <1>2, <1>3, RequestsStay
  <1>14. QueuesAside(k)
    <2>1. \A q \in pushing' : \/ q \in pushing /\ q.call # k
                              \/ q.call = k /\ OutOK(k)' /\ call'[k].Seq = q.seq
      BY <1>1, <1>2, <1>4, <1>5, <1>7, <1>11
    <2> QED BY <1>3, <1>4, <1>7, <2>1 DEF QueuesAside, LocalInv, QueuedOnce
  <1> QED BY <1>2, <1>8, <1>9, <1>10, <1>12, <1>13, <1>14, OneCall

LEMMA PushReplyLocal ==
  ASSUME LocalInv, NEW r \in pushing, PushReply(r)
  PROVE  LocalInv'
  <1>1. PICK k, z, h : k = r.call /\ z = r.seq /\ h = call[k].callback
    OBVIOUS
  <1>2. k \in Calls /\ OutOK(k) /\ call[k].Seq = z /\ z \in Seqs /\ r \in Requests
    BY <1>1, Typed, RequestFields DEF LocalInv, PushingOK
  <1>3. /\ h \in Handlers /\ call[k].ref /\ pending[z] = None /\ returned[z] = <<>> /\ k \notin lost
        /\ \A p \in Procs : my[p].call # k
    BY <1>1, <1>2, Typed DEF OutOK, LocalInv
  <1>4. /\ PushRpcResponse(<<"reply", r.seq>>, h, k) /\ crashed' = crashed /\ pushing' = pushing \ {r}
        /\ UNCHANGED <<call, startSeq, pending, timers, firing, others, returned, pc, my, queue, serving>>
    BY <1>1, <1>3, CallTableAssumption DEF PushReply
  <1>5. \A q : q \in pushing' <=> q \in pushing /\ q.call # k
    <2>1. ASSUME NEW q \in pushing, q.call = k PROVE q = r
      <3>1. q \in Requests /\ q.kind = "async" /\ r.kind = "async" /\ q.seq = z
        BY <1>2, <2>1, Typed DEF LocalInv, PushingOK
      <3> QED BY <1>1, <1>2, <2>1, <3>1 DEF Requests
    <2> QED BY <1>1, <1>4, <2>1
  <1>6. \A g \in Handlers : \A i \in DOMAIN chanEvent[g] : chanEvent[g][i] # k
    BY <1>1 DEF LocalInv, QueuesOK, QueuedOK
  <1>7. chanEvent' \in [Handlers -> Seq(Calls)] /\ lost' \subseteq Calls
    BY <1>2, <1>3, <1>4, PushFacts DEF LocalInv
  <1>8. LocalTypeOK'
    BY <1>4, <1>7 DEF LocalInv, LocalTypeOK, TableTypeOK
  <1>9. FiringOK' /\ \A s \in Seqs : pending'[s] = IF s = z THEN None ELSE pending[s]
    BY <1>3, <1>4 DEF LocalInv, FiringOK
  <1> QED BY <1>1, <1>2, <1>3, <1>4, <1>5, <1>6, <1>8, <1>9, PushedLocal

LEMMA FinishTimeoutLocal ==
  ASSUME LocalInv, FinishTimeout
  PROVE  LocalInv'
  <1>1. PICK k, z : k = firing.call /\ z = firing.seq
    OBVIOUS
  <1>2. /\ k # None /\ RemovePending(call[k].Seq) /\ Strobe(<<"timeout">>, k) /\ firing' = NoHold
        /\ UNCHANGED <<startSeq, timers, others, crashed, returned, pc, my, queue, serving, pushing>>
    BY <1>1 DEF FinishTimeout, DeliverTimeout, localVars
  <1>3. k \in Calls /\ z \in Seqs /\ pending[z] = k /\ z \notin timers
    BY <1>1, <1>2, Typed DEF LocalInv, FiringOK
  <1>4. /\ call[k].ref /\ call[k].Seq = z /\ call[k].done = 0 /\ returned[z] = <<>> /\ k \notin lost
        /\ \A r \in pushing : r.call # k
        /\ \A h \in Handlers : \A i \in DOMAIN chanEvent[h] : chanEvent[h][i] # k
        /\ call[k].callback # None => \A p \in Procs : my[p].call # k
    BY <1>3, Entry
  <1>5. /\ pending' \in [Seqs -> Calls \cup {None}]
        /\ \A s \in Seqs : pending'[s] = IF s = z THEN None ELSE pending[s]
    BY <1>2, <1>3, <1>4, RemoveFacts DEF LocalInv
  <1>6. /\ firing' \in [seq : 0..MaxSeq, call : Calls \cup {None}]
        /\ firing'.call = None /\ firing'.seq = 0
    BY <1>2, CallTableAssumption DEF NoHold
  <1>7. FiringOK' /\ \A s \in Seqs : s # z /\ firing.seq = s => firing'.seq = s
    BY <1>1, <1>2, <1>6, Typed, SeqsNat DEF LocalInv, FiringOK
  <1>8. CASE call[k].callback = None
    <2>1. call' = [call EXCEPT ![k].done = 1] /\ UNCHANGED <<chanEvent, lost>>
      BY <1>2, <1>8 DEF Strobe
    <2>2. call[k] \in CallRecords /\ call \in [Calls -> CallRecords]
      BY <1>3 DEF LocalInv, LocalTypeOK, TableTypeOK
    <2> DEFINE rec == [call[k] EXCEPT !.done = 1]
    <2>3. /\ rec \in CallRecords /\ rec.ref = call[k].ref /\ rec.Seq = call[k].Seq
          /\ rec.callback = call[k].callback /\ rec.done = 1
      BY <2>2 DEF CallRecords
    <2>4. call' = [call EXCEPT ![k] = rec]
      BY <2>1
    <2> HIDE DEF rec
    <2>5. /\ call' \in [Calls -> CallRecords] /\ call'[k] = rec
          /\ \A l \in Calls : l # k => call'[l] = call[l]
      BY <1>3, <2>2, <2>3, <2>4
    <2>6. LocalTypeOK'
      BY <1>2, <1>5, <1>6, <2>1, <2>5 DEF LocalInv, LocalTypeOK, TableTypeOK
    <2>7. /\ \A r \in serving : r.seq # z
          /\ \A i \in DOMAIN queue : queue[i].kind # "go" => queue[i].seq # z
      BY <1>3, NoneOpenFor
    <2> QED BY <1>2, <1>3, <1>5, <1>7, <1>8, <2>1, <2>3, <2>5, <2>6, <2>7, StrobedLocal
  <1>9. CASE call[k].callback # None
    <2>1. PICK h \in Handlers : h = call[k].callback
      BY <1>3, <1>9, Typed DEF LocalInv
    <2>2. PushRpcResponse(<<"timeout">>, h, k) /\ call' = call
      BY <1>2, <1>9, <2>1 DEF Strobe
    <2>3. chanEvent' \in [Handlers -> Seq(Calls)] /\ lost' \subseteq Calls
      BY <1>3, <2>2, PushFacts DEF LocalInv
    <2>4. LocalTypeOK'
      BY <1>2, <1>5, <1>6, <2>2, <2>3 DEF LocalInv, LocalTypeOK, TableTypeOK
    <2>5. \A r : r \in pushing' <=> r \in pushing /\ r.call # k
      BY <1>2, <1>4
    <2> QED BY <1>2, <1>3, <1>4, <1>5, <1>7, <1>9, <2>1, <2>2, <2>4, <2>5, PushedLocal
  <1> QED BY <1>8, <1>9

-----------------------------------------------------------------------------
(* The timeout *)

\* A timely callee has no open request when the timer fires: whatever closure held the
\* Call has run or never will.
LEMMA NoneOpen ==
  ASSUME LocalInv, CalleeTimely, NEW s \in Seqs, handleRpcCallTimeout(s)
  PROVE  (\A r \in serving : r.seq # s) /\ (\A i \in DOMAIN queue : queue[i].seq # s)
  BY DEF CalleeTimely, handleRpcCallTimeout, Unanswered

LEMMA TimeoutLocal ==
  ASSUME LocalInv, CalleeTimely, NEW z \in Seqs, handleRpcCallTimeout(z)
  PROVE  LocalInv'
  <1>1. /\ z \in timers /\ LockFree /\ timers' = timers \ {z}
        /\ UNCHANGED <<startSeq, pending, chanEvent, others, lost, crashed, returned,
                       pc, my, queue, serving, pushing>>
    BY DEF handleRpcCallTimeout, FireTimeout, localVars
  <1>2. firing.call = None /\ firing.seq = 0 /\ z # 0
    BY <1>1, SeqsNat DEF LocalInv, FiringOK, LockFree
  <1>3. CASE pending[z] = None
    <2>1. UNCHANGED <<call, firing>>
      BY <1>3 DEF handleRpcCallTimeout, FireTimeout
    <2>2. LocalTypeOK' /\ RequestsOnce'
      BY <1>1, <2>1 DEF LocalInv, LocalTypeOK, TableTypeOK, RequestsOnce
    <2> QED BY <1>1, <1>3, <2>1, <2>2, RequestsMove
  <1>4. CASE pending[z] # None
    <2>1. PICK k \in Calls : k = pending[z]
      BY <1>4, Typed DEF LocalInv
    <2>2. call' = [call EXCEPT ![k].Err = "timeout"] /\ firing' = [seq |-> z, call |-> k]
      BY <1>4, <2>1 DEF handleRpcCallTimeout, FireTimeout
    <2>3. /\ call' \in [Calls -> CallRecords]
          /\ \A l \in Calls : l # k => call'[l] = call[l]
          /\ call'[k].ref = call[k].ref /\ call'[k].Seq = call[k].Seq
          /\ call'[k].callback = call[k].callback /\ call'[k].done = call[k].done
      BY <2>2, ErrFacts DEF LocalInv, Errs
    <2>4. /\ firing' \in [seq : 0..MaxSeq, call : Calls \cup {None}]
          /\ firing'.seq = z /\ firing'.call = k
      BY <2>2, CallTableAssumption DEF Seqs
    <2>5. LocalTypeOK'
      BY <1>1, <2>3, <2>4 DEF LocalInv, LocalTypeOK, TableTypeOK
    <2>6. /\ call[k].ref /\ call[k].Seq = z /\ call[k].done = 0 /\ returned[z] = <<>> /\ k \notin lost
          /\ \A r \in pushing : r.call # k
          /\ \A h \in Handlers : \A i \in DOMAIN chanEvent[h] : chanEvent[h][i] # k
          /\ z <= startSeq /\ startSeq \in Nat /\ ~crashed
      BY <2>1, Entry
    <2>7. PICK o \in Procs \cup {None} :
             /\ o \in Procs => my[o].call = k /\ my[o].seq = z /\ pc[o] # "idle"
             /\ o = None => \A p \in Procs : my[p].call # k
      BY <2>6, Holder
    <2>8. Apart(k, z, o)
      BY <2>6, <2>7, HeldApart
    <2>9. Aside(k, z, o)
      BY <1>1, <1>2, <2>3, SeqsNat DEF Aside
    <2>10. After(k, z, o)
      <3>1. EntryOK(z, k)'
        BY <1>1, <2>3, <2>4, <2>6 DEF EntryOK
      <3>2. Owned(k)'
        <4>1. Owned(k)
          BY <2>6 DEF LocalInv, Accounted
        <4> QED BY <1>1, <2>3, <4>1 DEF Owned
      <3>3. FiringOK'
        BY <1>1, <2>1, <2>4, CallTableAssumption DEF FiringOK
      <3>4. o \in Procs => ProcOK(o)'
        <4> SUFFICES ASSUME o \in Procs PROVE ProcOK(o)'
          OBVIOUS
        <4>1. ProcOK(o) /\ my[o].call = k
          BY <2>7 DEF LocalInv, ProcsOK
        <4> QED BY <1>1, <2>3, <2>7, <4>1 DEF ProcOK
      <3>5. Len(returned[z]) <= 1
        BY DEF LocalInv, OutcomesOK
      <3> QED BY <1>1, <2>1, <2>3, <2>6, <2>7, <3>1, <3>2, <3>3, <3>4, <3>5 DEF After
    <2>11. RequestsAside(z)
      BY <1>1, NoneOpen, RequestsStay
    <2>12. QueuesAside(k)
      BY <1>1, <2>6, QueuesStay
    <2> QED BY <2>5, <2>8, <2>9, <2>10, <2>11, <2>12, OneCall
  <1> QED BY <1>3, <1>4

-----------------------------------------------------------------------------
(* The theorems *)

LEMMA LocalInit == Init => LocalInv
  <1> SUFFICES ASSUME Init PROVE LocalInv
    OBVIOUS
  <1> USE DEF Init, TableInit
  <1>1. Cleared \in CallRecords /\ NoHold \in [seq : 0..MaxSeq, call : Calls \cup {None}]
    BY CallTableAssumption DEF Cleared, CallRecords, Errs, NoHold
  <1>2. Idle \in [call : Calls \cup {None}, seq : 0..MaxSeq]
    BY CallTableAssumption DEF Idle
  <1>3. LocalTypeOK
    <2>1. TableTypeOK
      <3>1. startSeq \in 0..MaxSeq
        BY CallTableAssumption
      <3>2. call \in [Calls -> CallRecords]
        BY <1>1
      <3>3. pending \in [Seqs -> Calls \cup {None}] /\ timers \subseteq Seqs /\ lost \subseteq Calls
        OBVIOUS
      <3>4. chanEvent \in [Handlers -> Seq(Calls)]
        OBVIOUS
      <3>5. returned \in [Seqs -> Seq(Errs)]
        OBVIOUS
      <3>6. crashed \in BOOLEAN /\ firing \in [seq : 0..MaxSeq, call : Calls \cup {None}]
        BY <1>1
      <3>7. others \in [Handlers -> 0..MaxOthers]
        BY CallTableAssumption
      <3> QED BY <3>1, <3>2, <3>3, <3>4, <3>5, <3>6, <3>7 DEF TableTypeOK
    <2> QED BY <1>2, <2>1 DEF LocalTypeOK
  <1>4. FreeIsClear /\ NumbersUnique /\ FreshUnused
    BY DEF FreeIsClear, NumbersUnique, FreshUnused, Cleared, Idle
  <1>5. PendingOK /\ FiringOK /\ RequestsOK /\ RequestsOnce
    BY DEF PendingOK, FiringOK, RequestsOK, RequestsOnce, NoHold
  <1>6. PushingOK /\ QueuesOK /\ QueuedOnce /\ LostOK
    BY DEF PushingOK, QueuesOK, QueuedOnce, LostOK
  <1>7. ProcsOK
    BY DEF ProcsOK, ProcOK, Idle
  <1>8. Accounted
    BY DEF Accounted, Cleared
  <1>9. OutcomesOK
    BY DEF OutcomesOK
  <1> QED BY <1>3, <1>4, <1>5, <1>6, <1>7, <1>8, <1>9 DEF LocalInv

LEMMA LocalStep ==
  ASSUME LocalInv, CalleeTimely, [Next]_vars
  PROVE  LocalInv'
  <1>1. CASE UNCHANGED vars
    <2>1. UNCHANGED <<call, startSeq, pending, timers, firing, chanEvent, others, lost, crashed, returned,
                      pc, my, queue, serving, pushing>>
      BY <1>1 DEF vars, tableVars, localVars
    <2>2. LocalTypeOK' /\ RequestsOnce'
      BY <2>1 DEF LocalInv, LocalTypeOK, TableTypeOK, RequestsOnce
    <2> QED BY <2>1, <2>2, RequestsMove
  <1>2. CASE \E p \in Procs : NewLocalCall(p)
    BY <1>2, NewCallLocal
  <1>3. CASE \E c \in Callers : selfNodeRpcHandlerGo(c) \/ ServiceNotFound(c) \/ Done(c)
    BY <1>3, CallGoes, NotFoundLocal, DoneLocal
  <1>4. CASE \E h \in Handlers : selfNodeRpcHandlerAsyncGo(h) \/ RunCallback(h)
    BY <1>4, AsyncGoes, CallbackLocal
  <1>5. CASE QueueStep
    BY <1>5, QueueStepLocal
  <1>6. CASE goRpc \/ HandlerRpcRequest \/ FinishTimeout
    BY <1>6, GoGoes, RequestTaken, FinishTimeoutLocal
  <1>7. CASE Answering
    <2>1. PICK r \in serving : (\E e \in {"nil", "err"}, kept \in BOOLEAN : Reply(r, e, kept)) \/ NoReply(r)
      BY <1>7 DEF Answering
    <2>2. r.kind \in {"call", "async"}
      BY OpenRequest
    <2> QED BY <2>1, <2>2, CallReplyLocal, AsyncReplyLocal, NoReplyLocal
  <1>8. CASE \E r \in pushing : PushReply(r)
    BY <1>8, PushReplyLocal
  <1>9. CASE \E s \in Seqs : handleRpcCallTimeout(s)
    BY <1>9, TimeoutLocal
  <1> QED BY <1>1, <1>2, <1>3, <1>4, <1>5, <1>6, <1>7, <1>8, <1>9 DEF Next, QueueStep

LEMMA LocalInvariant == CalleeTimely => (Spec => []LocalInv)
  <1>1. CASE CalleeTimely
    <2>1. Init => LocalInv
      BY LocalInit
    <2>2. LocalInv /\ [Next]_vars => LocalInv'
      BY <1>1, LocalStep
    <2> QED BY <2>1, <2>2, PTL DEF Spec
  <1> QED BY <1>1

\* Of the reply and the timeout of a call inside the node exactly one reaches its user,
\* when methods are timely and reply once.
THEOREM LocalToldOnce == CalleeTimely => (Spec => []CompletedOnce)
  <1>1. LocalInv => CompletedOnce
    BY DEF LocalInv, OutcomesOK, CompletedOnce
  <1> QED BY <1>1, LocalInvariant, PTL

\* No Call is released twice, neither by the caller, the callback nor the closure, when
\* methods are timely and reply once. Without either half of that the code does release
\* a Call twice.
THEOREM LocalPoolSound == CalleeTimely => (Spec => []NoDoubleFree)
  <1>1. LocalInv => NoDoubleFree
    BY DEF LocalInv, OutcomesOK, NoDoubleFree
  <1> QED BY <1>1, LocalInvariant, PTL

\* Every Call out of the pool has an owner, whichever of the reply, the missing reply
\* and the timeout comes.
THEOREM LocalNothingLeaks == CalleeTimely => (Spec => []LocalNoLeak)
  <1>1. LocalInv => LocalNoLeak
    <2> SUFFICES ASSUME LocalInv, NEW k \in Calls, call[k].ref
                 PROVE  \/ \E p \in Procs : my[p].call = k
                        \/ \E s \in Seqs : pending[s] = k
                        \/ \E r \in pushing : r.call = k
                        \/ \E h \in Handlers : \E i \in DOMAIN chanEvent[h] : chanEvent[h][i] = k
                        \/ k \in lost
      BY DEF LocalNoLeak
    <2>1. Owned(k)
      BY DEF LocalInv, Accounted
    <2> QED BY <2>1 DEF Owned
  <1> QED BY <1>1, LocalInvariant, PTL
=============================================================================
