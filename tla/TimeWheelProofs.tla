-------------------------- MODULE TimeWheelProofs --------------------------
(***************************************************************************)
(* The safety of the timers for any number of timers and any wheels.       *)
(*                                                                         *)
(* BaseInv: the clock, the poller and the remover. A timer that fires once *)
(* only moves down, and the wheels the remover has visited are above it.   *)
(*                                                                         *)
(* TurnsInv: the moment at which the slot a timer is in will be turned, or *)
(* scanned by the poller, is no later than its due time and its slack.     *)
(*                                                                         *)
(* CountInv: calls made, calls on the poller's list and calls still to be  *)
(* armed add up to the number of calls asked for.                          *)
(***************************************************************************)
EXTENDS TimeWheel, WellFoundedInduction, TLAPS

\* What the number of calls depends on: the poller's look-ahead is not longer than a
\* slot of the lowest wheel, as its 100 ms are, and no period is shorter than it.
Separated == MaxTimeDelay <= Interval[Leaf] /\ \A i \in Periods : i >= MaxTimeDelay

Listed(t) == \E x \in poll.list : x.id = t

Polls == [pc : {"sleep", "scan", "readd"}, scan : SUBSET Timers,
          list : SUBSET [id : Timers, timer : TimerRecords],
          map : BOOLEAN, id : Timers \cup {None}]

WheelTypeOK ==
    /\ now \in Nat
    /\ curIndex \in [1..Wheels -> Nat]
    /\ wake \in [1..(Wheels + 1) -> Nat]
    /\ timer \in [Timers -> TimerRecords \cup {None}]
    /\ at \in [Timers -> Slots \cup {None}]
    /\ poll \in Polls
    /\ visit \in [Timers -> 0..Wheels]
    /\ fires \in [Timers -> Nat]

\* Nobody oversleeps, and nobody sleeps longer than its period; the pointers are
\* within their wheels.
ClockOK ==
    /\ \A g \in 1..Poller : wake[g] >= now
    /\ \A w \in 1..Wheels : wake[w] <= now + Interval[w] /\ curIndex[w] < Scales[w]
    /\ wake[Poller] <= now + 1

\* The poller has a list, and something left to scan, only at the time it woke up; the
\* timer it re-adds has calls left.
PollOK ==
    /\ poll.pc = "sleep" => poll.scan = {} /\ poll.list = {}
    /\ poll.pc # "sleep" => wake[Poller] = now
    /\ poll.pc = "readd" => /\ poll.id \in Timers /\ poll.id \notin poll.scan
                            /\ timer[poll.id] # None /\ timer[poll.id].times >= 2

\* A timer that has not been created is nowhere.
UnbornOK ==
    \A t \in Timers : timer[t] = None =>
        at[t] = None /\ visit[t] = 0 /\ t \notin poll.scan /\ fires[t] = 0 /\ ~Listed(t)

\* One that has been has its counts in order, and is not further away than its delay.
BornOK ==
    \A t \in Timers : timer[t] # None =>
        /\ timer[t].times \in 1..timer[t].asked
        /\ timer[t].unixts <= now + timer[t].delay
        /\ timer[t].Interval \in Periods

\* The remover is above a timer that fires once.
RemoverOK ==
    \A t \in Timers : at[t] # None =>
        /\ at[t][2] < Scales[at[t][1]]
        /\ timer[t].asked = 1 => visit[t] < at[t][1]

BaseInv == WheelTypeOK /\ ClockOK /\ PollOK /\ UnbornOK /\ BornOK /\ RemoverOK

\* How many turns slot i of wheel w is ahead of the pointer.
Ahead(w, i) == IF i >= curIndex[w] THEN i - curIndex[w] ELSE i + Scales[w] - curIndex[w]

\* With slack s, a timer due at ts in slot p of a higher wheel is turned over in time; on
\* the lowest wheel, it is in reach of the poller in time.
Early(p, ts, s) ==
    LET k == Ahead(p[1], p[2]) IN
    \/ p[1] < Leaf /\ wake[p[1]] + k * Interval[p[1]] <= ts + s
    \/ p[1] = Leaf /\ k >= 1 /\ wake[Leaf] + (k - 1) * Interval[Leaf] <= ts + s
    \/ p[1] = Leaf /\ k = 0 /\ now <= ts + s

\* It was in reach one moment ago and the poller, who has just woken up, takes it now.
LastChance(t, s) ==
    /\ t \in Current
    /\ now = timer[t].unixts + s + 1
    /\ wake[Poller] = now /\ (poll.pc = "sleep" \/ t \in poll.scan)

TurnsInTime(t, s) == Early(at[t], timer[t].unixts, s) \/ LastChance(t, s)

TurnsInv ==
    /\ \A t \in Timers : at[t] # None => \E s \in Slack(timer[t].delay) : TurnsInTime(t, s)
    /\ \A t \in poll.scan : Due(t) /\ InTime(timer[t])
    /\ CalledInTime

\* The calls of t that are made or listed.
Taken(t) == fires[t] + (IF Listed(t) THEN 1 ELSE 0)

CountOK(t) ==
    /\ at[t] # None \/ t \in poll.scan => Taken(t) + timer[t].times = timer[t].asked
    /\ poll.pc = "readd" /\ poll.id = t =>
          Listed(t) /\ fires[t] + timer[t].times = timer[t].asked /\ at[t] = None
    /\ Taken(t) <= timer[t].asked
    /\ at[t] = None /\ t \notin poll.scan /\ ~(poll.pc = "readd" /\ poll.id = t) /\ visit[t] = 0 =>
          Taken(t) = timer[t].asked
    /\ t \in poll.scan => ~Listed(t) /\ Due(t) /\ (at[t] # None => t \in Current)
    /\ Listed(t) /\ at[t] # None => ~Due(t)

CountInv == \A t \in Timers : timer[t] # None => CountOK(t)

-----------------------------------------------------------------------------
(* Arithmetic *)

LEMMA DivBound ==
  ASSUME NEW d \in Nat, NEW i \in Nat \ {0}, d >= i
  PROVE  d \div i \in Nat /\ d \div i >= 1 /\ (d \div i) * i <= d
  BY SMT

LEMMA ModBound ==
  ASSUME NEW n \in Nat, NEW s \in Nat \ {0}
  PROVE  n % s \in Nat /\ n % s < s
  BY SMT

\* The slot k after the pointer c of a wheel with s slots is at most k ahead of it, and
\* at most k - 1 ahead of where the pointer is after the next turn.
LEMMA SlotAhead ==
  ASSUME NEW c \in Nat, NEW k \in Nat, NEW s \in Nat \ {0}, c < s
  PROVE  LET r == (c + k) % s IN r \in Nat /\ r < s /\ (IF r >= c THEN r - c <= k ELSE r + s - c <= k)
  BY SMT

LEMMA NextSlot ==
  ASSUME NEW c \in Nat, NEW s \in Nat \ {0}, c < s
  PROVE  (c + 1) % s = IF c + 1 < s THEN c + 1 ELSE 0
  BY SMT

LEMMA SlotAheadNext ==
  ASSUME NEW c \in Nat, NEW k \in Nat, NEW s \in Nat \ {0}, c < s, k >= 1
  PROVE  LET r == (c + k) % s
             n == (c + 1) % s
         IN IF r >= n THEN r - n <= k - 1 ELSE r + s - n <= k - 1
  <1> DEFINE n == (c + 1) % s
             r == (c + k) % s
  <1>1. n = IF c + 1 < s THEN c + 1 ELSE 0
    BY NextSlot
  <1>2. CASE c + 1 < s
    <2>1. n = c + 1 /\ n < s /\ k - 1 \in Nat /\ r = (n + (k - 1)) % s
      BY <1>1, <1>2
    <2> HIDE DEF n, r
    <2>2. n \in Nat
      BY <2>1
    <2> QED BY <2>1, <2>2, SlotAhead DEF n, r
  <1>3. CASE ~(c + 1 < s)
    <2>1. n = 0 /\ c + 1 = s
      BY <1>1, <1>3
    <2>2. r \in Nat /\ r <= k - 1
      BY <2>1
    <2> QED BY <2>1, <2>2
  <1> QED BY <1>2, <1>3

\* One turn less, one interval later.
LEMMA TurnLater ==
  ASSUME NEW k \in Nat, NEW i \in Nat, k >= 1
  PROVE  (k - 1) * i + i = k * i
  BY SMT

LEMMA ProductMonotone ==
  ASSUME NEW a \in Nat, NEW b \in Nat, NEW i \in Nat, a <= b
  PROVE  a * i <= b * i /\ a * i \in Nat /\ b * i \in Nat
  BY SMT

\* Every set of natural numbers has a least element.
LEMMA LeastElement ==
  ASSUME NEW T \in SUBSET Nat, T # {}
  PROVE  \E x \in T : \A y \in T : x <= y
  <1> DEFINE R == {p \in Nat \X Nat : p[1] < p[2]}
  <1>1. R = OpToRel(<, Nat)
    BY Zenon DEF OpToRel
  <1>2. IsWellFoundedOn(R, Nat)
    BY <1>1, NatLessThanWellFounded
  <1>3. PICK x \in T : \A y \in T : ~(<<y, x>> \in R)
    BY <1>2, WFMin
  <1>4. ASSUME NEW y \in T PROVE x <= y
    <2>1. ~(<<y, x>> \in R)
      BY <1>3
    <2> QED BY <2>1
  <1> QED BY <1>4

-----------------------------------------------------------------------------
(* Placing a timer *)

\* p is a slot k turns ahead on wheel v, and a timer due at ts is due by the last of them.
Forward(p, v, k, ts) ==
    /\ v \in 1..Wheels /\ k \in Nat /\ k >= 1
    /\ ts >= now + Interval[v] /\ k * Interval[v] <= ts - now
    /\ p = <<v, (curIndex[v] + k) % Scales[v]>>

\* A timer due within one slot of the lowest wheel.
Near(ts) == ts < now + Interval[Leaf]

\* What the types say of a single wheel or timer.
LEMMA Typed ==
  ASSUME WheelTypeOK
  PROVE  /\ now \in Nat /\ Wheels \in Nat /\ Wheels >= 1
         /\ \A w \in 1..Wheels : /\ w \in Nat /\ curIndex[w] \in Nat /\ wake[w] \in Nat
                               /\ Interval[w] \in Nat /\ Interval[w] > 0
                               /\ Scales[w] \in Nat /\ Scales[w] > 0
         /\ wake[Poller] \in Nat
         /\ \A t \in Timers : /\ timer[t] \in TimerRecords \cup {None}
                             /\ at[t] \in Slots \cup {None}
                             /\ visit[t] \in Nat /\ visit[t] <= Wheels /\ fires[t] \in Nat
  <1>1. Wheels \in Nat /\ Wheels >= 1
    BY TimeWheelAssumption
  <1>2. \A w \in 1..Wheels : /\ w \in Nat /\ curIndex[w] \in Nat /\ wake[w] \in Nat
                            /\ Interval[w] \in Nat /\ Interval[w] > 0
                            /\ Scales[w] \in Nat /\ Scales[w] > 0
    <2> SUFFICES ASSUME NEW w \in 1..Wheels
                 PROVE  /\ w \in Nat /\ curIndex[w] \in Nat /\ wake[w] \in Nat
                        /\ Interval[w] \in Nat /\ Interval[w] > 0
                        /\ Scales[w] \in Nat /\ Scales[w] > 0
      OBVIOUS
    <2>1. w \in Nat /\ w \in 1..(Wheels + 1)
      BY <1>1
    <2>2. curIndex[w] \in Nat /\ wake[w] \in Nat
      BY <2>1 DEF WheelTypeOK
    <2>3. Interval[w] \in Nat \ {0} /\ Scales[w] \in Nat \ {0}
      BY TimeWheelAssumption
    <2> QED BY <2>1, <2>2, <2>3
  <1>3. now \in Nat /\ wake[Poller] \in Nat
    BY <1>1 DEF WheelTypeOK, Poller
  <1>4. \A t \in Timers : /\ timer[t] \in TimerRecords \cup {None}
                         /\ at[t] \in Slots \cup {None}
                         /\ visit[t] \in Nat /\ visit[t] <= Wheels /\ fires[t] \in Nat
    BY <1>1 DEF WheelTypeOK
  <1> QED BY <1>1, <1>2, <1>3, <1>4

LEMMA RecordTyped ==
  ASSUME NEW r \in TimerRecords
  PROVE  /\ r.unixts \in Nat /\ r.times \in Nat /\ r.Interval \in Nat /\ r.delay \in Nat /\ r.asked \in Nat
         /\ r # None
  BY TimeWheelAssumption DEF TimerRecords

\* Slots are pairs.
LEMMA SlotPair ==
  ASSUME NEW w \in 1..Wheels, NEW i \in Nat, NEW p, p = <<w, i>>
  PROVE  p \in Slots /\ p # None /\ p[1] = w /\ p[2] = i
  <1>1. p \in Slots
    BY DEF Slots
  <1> QED BY <1>1, TimeWheelAssumption

LEMMA SlotParts ==
  ASSUME NEW p \in Slots
  PROVE  p # None /\ p[1] \in 1..Wheels /\ p[2] \in Nat /\ p = <<p[1], p[2]>>
  BY TimeWheelAssumption DEF Slots

LEMMA LeafIsWheel == Leaf \in 1..Wheels /\ Wheels \in Nat
  BY TimeWheelAssumption DEF Leaf

LEMMA Fits ==
  ASSUME WheelTypeOK, NEW w \in 1..Wheels, NEW ts \in Nat
  PROVE  LET due == IF ts > now THEN ts - now ELSE 0
             fits == {v \in w..Wheels : due >= Interval[v]}
             v == CHOOSE x \in fits : \A y \in fits : x <= y
         IN /\ fits = {} => Near(ts)
            /\ fits # {} => /\ v \in w..Wheels
                            /\ Forward(<<v, (curIndex[v] + due \div Interval[v]) % Scales[v]>>,
                                       v, due \div Interval[v], ts)
  <1> DEFINE due == IF ts > now THEN ts - now ELSE 0
             fits == {v \in w..Wheels : due >= Interval[v]}
             v == CHOOSE x \in fits : \A y \in fits : x <= y
  <1>1. due \in Nat
    BY DEF WheelTypeOK
  <1>2. fits \in SUBSET Nat
    BY TimeWheelAssumption
  <1>3. \A x \in 1..Wheels : Interval[x] \in Nat \ {0}
    BY TimeWheelAssumption
  <1>4. CASE fits = {}
    <2>1. Leaf \in w..Wheels /\ Leaf \in 1..Wheels
      BY LeafIsWheel DEF Leaf
    <2>2. ~(due >= Interval[Leaf])
      BY <1>4, <2>1
    <2>3. ts < now + Interval[Leaf]
      BY <1>3, <2>1, <2>2 DEF WheelTypeOK
    <2> QED BY <1>4, <2>3 DEF Near
  <1>5. CASE fits # {}
    <2>1. \E x \in fits : \A y \in fits : x <= y
      <3> HIDE DEF fits
      <3> QED BY <1>2, <1>5, LeastElement
    <2>2. v \in fits
      <3> HIDE DEF fits
      <3> QED BY <2>1
    <2>3. v \in w..Wheels /\ due >= Interval[v]
      BY <2>2
    <2> HIDE DEF v
    <2>4. v \in 1..Wheels
      BY <2>3, TimeWheelAssumption
    <2>5. ts >= now + Interval[v] /\ due = ts - now
      BY <1>3, <2>3, <2>4 DEF WheelTypeOK
    <2> HIDE DEF due
    <2>6. due \div Interval[v] \in Nat /\ due \div Interval[v] >= 1
          /\ (due \div Interval[v]) * Interval[v] <= due
      BY <1>1, <1>3, <2>3, <2>4, DivBound
    <2>7. Forward(<<v, (curIndex[v] + due \div Interval[v]) % Scales[v]>>, v, due \div Interval[v], ts)
      BY <2>4, <2>5, <2>6 DEF Forward
    <2> QED BY <1>5, <2>3, <2>7 DEF v, due
  <1> QED BY <1>4, <1>5

\* A timer that is put in.
LEMMA PlacedNew ==
  ASSUME WheelTypeOK, NEW w \in 1..Wheels, NEW ts \in Nat
  PROVE  \/ \E v \in w..Wheels, k \in Nat : Forward(addTimer(w, ts, FALSE), v, k, ts)
         \/ Near(ts) /\ addTimer(w, ts, FALSE) = <<Leaf, curIndex[Leaf]>>
  <1> DEFINE due == IF ts > now THEN ts - now ELSE 0
             fits == {v \in w..Wheels : due >= Interval[v]}
             v == CHOOSE x \in fits : \A y \in fits : x <= y
  <1>1. addTimer(w, ts, FALSE) = IF fits # {}
                                 THEN <<v, (curIndex[v] + due \div Interval[v]) % Scales[v]>>
                                 ELSE <<Leaf, curIndex[Leaf]>>
    BY DEF addTimer
  <1>2. /\ fits = {} => Near(ts)
        /\ fits # {} => /\ v \in w..Wheels
                        /\ Forward(<<v, (curIndex[v] + due \div Interval[v]) % Scales[v]>>,
                                   v, due \div Interval[v], ts)
    BY Fits
  <1> HIDE DEF fits, due, v
  <1>3. CASE fits = {}
    BY <1>1, <1>2, <1>3
  <1>4. CASE fits # {}
    <2>1. Forward(addTimer(w, ts, FALSE), v, due \div Interval[v], ts)
      BY <1>1, <1>2, <1>4
    <2>2. due \div Interval[v] \in Nat
      BY <2>1 DEF Forward
    <2> QED BY <1>2, <1>4, <2>1, <2>2
  <1> QED BY <1>3, <1>4

\* A timer of the slot that wheel w is leaving.
LEMMA PlacedTurn ==
  ASSUME WheelTypeOK, NEW w \in 1..Wheels, NEW ts \in Nat
  PROVE  \/ \E v \in w..Wheels, k \in Nat : Forward(addTimer(w, ts, TRUE), v, k, ts)
         \/ /\ Near(ts)
            /\ addTimer(w, ts, TRUE) = <<Leaf, IF w = Leaf THEN (curIndex[Leaf] + 1) % Scales[Leaf]
                                               ELSE curIndex[Leaf]>>
  <1> DEFINE due == IF ts > now THEN ts - now ELSE 0
             fits == {v \in w..Wheels : due >= Interval[v]}
             v == CHOOSE x \in fits : \A y \in fits : x <= y
  <1>1. addTimer(w, ts, TRUE) = IF fits # {}
                                THEN <<v, (curIndex[v] + due \div Interval[v]) % Scales[v]>>
                                ELSE <<Leaf, IF w = Leaf THEN (curIndex[Leaf] + 1) % Scales[Leaf]
                                             ELSE curIndex[Leaf]>>
    BY DEF addTimer
  <1>2. /\ fits = {} => Near(ts)
        /\ fits # {} => /\ v \in w..Wheels
                        /\ Forward(<<v, (curIndex[v] + due \div Interval[v]) % Scales[v]>>,
                                   v, due \div Interval[v], ts)
    BY Fits
  <1> HIDE DEF fits, due, v
  <1>3. CASE fits = {}
    BY <1>1, <1>2, <1>3
  <1>4. CASE fits # {}
    <2>1. Forward(addTimer(w, ts, TRUE), v, due \div Interval[v], ts)
      BY <1>1, <1>2, <1>4
    <2>2. due \div Interval[v] \in Nat
      BY <2>1 DEF Forward
    <2> QED BY <1>2, <1>4, <2>1, <2>2
  <1> QED BY <1>3, <1>4

\* Where a slot named by Forward is.
LEMMA ForwardSlot ==
  ASSUME WheelTypeOK, ClockOK, NEW p, NEW v, NEW k, NEW ts, Forward(p, v, k, ts)
  PROVE  p \in Slots /\ p[1] = v /\ p[2] < Scales[v]
         /\ p[2] = (curIndex[v] + k) % Scales[v]
  <1>1. v \in 1..Wheels /\ k \in Nat
    BY DEF Forward
  <1>2. Scales[v] \in Nat \ {0}
    BY <1>1, TimeWheelAssumption
  <1>3. curIndex[v] \in Nat
    BY <1>1 DEF WheelTypeOK
  <1>4. curIndex[v] + k \in Nat
    BY <1>1, <1>3
  <1>6. p = <<v, (curIndex[v] + k) % Scales[v]>>
    BY DEF Forward
  <1>5. (curIndex[v] + k) % Scales[v] \in Nat /\ (curIndex[v] + k) % Scales[v] < Scales[v]
    BY <1>2, <1>4, ModBound
  <1> QED BY <1>1, <1>5, <1>6 DEF Slots

LEMMA LeafSlot ==
  ASSUME NEW i \in Nat, i < Scales[Leaf], NEW p, p = <<Leaf, i>>
  PROVE  p \in Slots /\ p[2] < Scales[p[1]] /\ p[1] = Leaf
  <1>1. p \in Slots
    BY LeafIsWheel DEF Slots
  <1> QED BY <1>1

LEMMA NewSlot ==
  ASSUME WheelTypeOK, ClockOK, NEW ts \in Nat, NEW p, p = addTimer(1, ts, FALSE)
  PROVE  p \in Slots /\ p[2] < Scales[p[1]]
  <1>1. 1 \in 1..Wheels
    BY TimeWheelAssumption
  <1>2. CASE \E v \in 1..Wheels, k \in Nat : Forward(p, v, k, ts)
    BY <1>2, ForwardSlot
  <1>3. CASE p = <<Leaf, curIndex[Leaf]>>
    <2>1. curIndex[Leaf] \in Nat /\ curIndex[Leaf] < Scales[Leaf]
      BY LeafIsWheel, Typed DEF ClockOK
    <2> QED BY <1>3, <2>1, LeafSlot
  <1> QED BY <1>1, <1>2, <1>3, PlacedNew

LEMMA TurnedSlot ==
  ASSUME WheelTypeOK, ClockOK, NEW w \in 1..Wheels, NEW ts \in Nat, NEW p, p = addTimer(w, ts, TRUE)
  PROVE  p \in Slots /\ p[2] < Scales[p[1]] /\ p[1] \in w..Wheels
  <1>1. w \in Nat /\ w <= Wheels /\ Wheels \in Nat
    BY TimeWheelAssumption
  <1>2. CASE \E v \in w..Wheels, k \in Nat : Forward(p, v, k, ts)
    BY <1>2, ForwardSlot
  <1>3. ASSUME NEW i \in Nat, i < Scales[Leaf], p = <<Leaf, i>>
        PROVE  p \in Slots /\ p[2] < Scales[p[1]] /\ p[1] \in w..Wheels
    <2>1. Leaf \in w..Wheels
      BY <1>1 DEF Leaf
    <2> QED BY <1>3, <2>1, LeafSlot
  <1>4. /\ curIndex[Leaf] \in Nat /\ curIndex[Leaf] < Scales[Leaf]
        /\ (curIndex[Leaf] + 1) % Scales[Leaf] \in Nat
        /\ (curIndex[Leaf] + 1) % Scales[Leaf] < Scales[Leaf]
    <2>1. Scales[Leaf] \in Nat \ {0} /\ curIndex[Leaf] \in Nat /\ curIndex[Leaf] < Scales[Leaf]
      BY LeafIsWheel, Typed DEF ClockOK
    <2>2. curIndex[Leaf] + 1 \in Nat
      BY <2>1
    <2> QED BY <2>1, <2>2, ModBound
  <1>5. CASE p = <<Leaf, curIndex[Leaf]>>
    BY <1>3, <1>4, <1>5
  <1>6. CASE p = <<Leaf, (curIndex[Leaf] + 1) % Scales[Leaf]>>
    BY <1>3, <1>4, <1>6
  <1> QED BY <1>2, <1>5, <1>6, PlacedTurn

-----------------------------------------------------------------------------
(* The clock, the poller and the remover *)

LEMMA BaseInit == Init => BaseInv
  <1> SUFFICES ASSUME Init PROVE BaseInv
    OBVIOUS
  <1>1. WheelTypeOK
    BY TimeWheelAssumption DEF Init, WheelTypeOK, Polls, Idle
  <1>2. ClockOK
    BY TimeWheelAssumption DEF Init, ClockOK, Poller
  <1>3. PollOK
    BY DEF Init, PollOK, Idle
  <1>4. UnbornOK /\ BornOK /\ RemoverOK
    BY DEF Init, UnbornOK, BornOK, RemoverOK, Idle, Listed
  <1> QED BY <1>1, <1>2, <1>3, <1>4 DEF BaseInv

LEMMA CreateBase ==
  ASSUME BaseInv, NEW t \in Timers, NEW d \in Delays, NEW n \in 1..MaxTimes, NEW i \in Periods,
         CreateTimerAfter(t, d, n, i)
  PROVE  BaseInv'
  <1> USE DEF BaseInv
  <1>1. d \in Nat /\ n \in Nat /\ n >= 1 /\ i \in Nat /\ now \in Nat /\ now + d \in Nat
    BY TimeWheelAssumption DEF WheelTypeOK
  <1>2. PICK r : r = NewTimerAfter(d, n, i, n)
    OBVIOUS
  <1>3. PICK p : p = addTimer(1, now + d, FALSE)
    OBVIOUS
  <1>4. /\ timer' = [timer EXCEPT ![t] = r] /\ at' = [at EXCEPT ![t] = p] /\ timer[t] = None
        /\ UNCHANGED <<now, curIndex, wake, poll, visit, fires>>
    BY <1>2, <1>3 DEF CreateTimerAfter
  <1>5. /\ r \in TimerRecords /\ r # None
        /\ r.unixts = now + d /\ r.times = n /\ r.Interval = i /\ r.delay = d /\ r.asked = n
    <2>1. r = [unixts |-> now + d, times |-> n, Interval |-> i, delay |-> d, asked |-> n]
      BY <1>2 DEF NewTimerAfter
    <2>2. r \in TimerRecords
      BY <1>1, <2>1 DEF TimerRecords
    <2> QED BY <2>1, <2>2, RecordTyped
  <1>6. p \in Slots /\ p[2] < Scales[p[1]] /\ p[1] \in 1..Wheels
    BY <1>1, <1>3, NewSlot, SlotParts
  <1>7. /\ timer'[t] = r /\ at'[t] = p /\ visit[t] = 0
        /\ \A x \in Timers : x # t => timer'[x] = timer[x] /\ at'[x] = at[x]
    BY <1>4 DEF WheelTypeOK, UnbornOK
  <1>8. WheelTypeOK'
    BY <1>4, <1>5, <1>6 DEF WheelTypeOK
  <1>9. ClockOK' /\ PollOK'
    BY <1>4, <1>7 DEF ClockOK, PollOK
  <1>10. UnbornOK'
    BY <1>4, <1>5, <1>7 DEF UnbornOK, Listed
  <1>11. BornOK'
    BY <1>1, <1>4, <1>5, <1>7 DEF BornOK
  <1>12. RemoverOK'
    BY <1>4, <1>6, <1>7 DEF RemoverOK
  <1> QED BY <1>8, <1>9, <1>10, <1>11, <1>12

LEMMA RunBase ==
  ASSUME BaseInv, NEW w \in 1..Wheels, run(w)
  PROVE  BaseInv'
  <1> USE DEF BaseInv
  <1>1. /\ wake[w] = now /\ wake' = [wake EXCEPT ![w] = now + Interval[w]]
        /\ curIndex' = [curIndex EXCEPT ![w] = (@ + 1) % Scales[w]]
        /\ UNCHANGED <<now, timer, visit, fires>>
    BY DEF run
  <1>2. /\ poll'.pc = poll.pc /\ poll'.scan = poll.scan /\ poll'.list = poll.list /\ poll'.id = poll.id
        /\ poll' \in Polls
    BY DEF run, WheelTypeOK, Polls
  <1>3. Interval[w] \in Nat \ {0} /\ Scales[w] \in Nat \ {0} /\ now \in Nat /\ Wheels \in Nat
    BY TimeWheelAssumption DEF WheelTypeOK
  <1>4. (curIndex[w] + 1) % Scales[w] \in Nat /\ (curIndex[w] + 1) % Scales[w] < Scales[w]
    <2>1. curIndex[w] + 1 \in Nat
      BY Typed
    <2> QED BY <1>3, <2>1, ModBound
  <1>5. ASSUME NEW t \in Timers, at[t] = <<w, curIndex[w]>>
        PROVE  /\ at'[t] = addTimer(w, timer[t].unixts, TRUE) /\ timer[t] # None /\ timer[t].unixts \in Nat
               /\ at'[t] \in Slots /\ at'[t][2] < Scales[at'[t][1]] /\ at'[t][1] \in w..Wheels
    <2>1. at'[t] = addTimer(w, timer[t].unixts, TRUE)
      BY <1>5 DEF run
    <2>2. at[t] # None
      BY <1>5, Typed, SlotPair
    <2>3. timer[t] \in TimerRecords /\ timer[t] # None
      BY <2>2 DEF UnbornOK, WheelTypeOK
    <2>4. timer[t].unixts \in Nat
      BY <2>3 DEF TimerRecords
    <2>5. PICK p : p = at'[t]
      OBVIOUS
    <2>6. p \in Slots /\ p[2] < Scales[p[1]] /\ p[1] \in w..Wheels
      BY <2>1, <2>4, <2>5, TurnedSlot
    <2> QED BY <2>1, <2>3, <2>4, <2>5, <2>6
  <1>6. \A t \in Timers : at[t] # <<w, curIndex[w]>> => at'[t] = at[t]
    BY DEF run
  <1>7. at' \in [Timers -> Slots \cup {None}]
    <2>1. \A t \in Timers : at'[t] \in Slots \cup {None}
      BY <1>5, <1>6 DEF WheelTypeOK
    <2>2. PICK f : at' = [t \in Timers |-> f[t]]
      <3>1. at' = [t \in Timers |-> at'[t]]
        BY DEF run
      <3> QED BY <3>1
    <2> QED BY <2>1, <2>2
  <1>8. WheelTypeOK'
    <2>1. curIndex' \in [1..Wheels -> Nat]
      BY <1>1, <1>4 DEF WheelTypeOK
    <2>2. wake' \in [1..(Wheels + 1) -> Nat]
      <3>1. now + Interval[w] \in Nat
        BY <1>3
      <3> QED BY <1>1, <3>1 DEF WheelTypeOK
    <2> QED BY <1>1, <1>2, <1>7, <2>1, <2>2 DEF WheelTypeOK
  <1>9. ClockOK'
    <2>1. \A g \in 1..Poller : wake'[g] = IF g = w THEN now + Interval[w] ELSE wake[g]
      BY <1>1 DEF WheelTypeOK, Poller
    <2>2. \A v \in 1..Wheels : curIndex'[v] = IF v = w THEN (curIndex[w] + 1) % Scales[w] ELSE curIndex[v]
      BY <1>1 DEF WheelTypeOK
    <2>3. \A v \in 1..Wheels : curIndex'[v] < Scales[v]
      BY <1>4, <2>2 DEF ClockOK
    <2>4. Poller \in 1..Poller /\ Poller # w /\ \A v \in 1..Wheels : v \in 1..Poller
      BY <1>3 DEF Poller
    <2>5. \A v \in 1..Poller : wake'[v] >= now
      BY <1>3, <2>1 DEF ClockOK
    <2>6. \A v \in 1..Wheels : wake'[v] <= now + Interval[v]
      BY <1>3, <2>1, <2>4 DEF ClockOK
    <2>7. wake'[Poller] <= now + 1
      BY <2>1, <2>4 DEF ClockOK
    <2> QED BY <1>1, <2>3, <2>5, <2>6, <2>7 DEF ClockOK
  <1>10. PollOK'
    <2>1. Poller # w /\ Poller \in 1..(Wheels + 1)
      BY <1>3 DEF Poller
    <2>2. wake'[Poller] = wake[Poller]
      BY <1>1, <2>1 DEF WheelTypeOK
    <2> QED BY <1>1, <1>2, <2>2 DEF PollOK
  <1>11. UnbornOK'
    BY <1>1, <1>2, <1>5, <1>6 DEF UnbornOK, Listed
  <1>12. BornOK'
    BY <1>1 DEF BornOK
  <1>13. RemoverOK'
    <2> SUFFICES ASSUME NEW t \in Timers, at'[t] # None
                 PROVE  /\ at'[t][2] < Scales[at'[t][1]]
                        /\ timer[t].asked = 1 => visit[t] < at'[t][1]
      BY <1>1 DEF RemoverOK
    <2>1. CASE at[t] = <<w, curIndex[w]>>
      <3>1. at[t] # None /\ at[t][1] = w
        BY <2>1, Typed, SlotPair
      <3>2. timer[t].asked = 1 => visit[t] < w
        BY <3>1 DEF RemoverOK
      <3>3. at'[t][1] \in w..Wheels /\ visit[t] \in Nat /\ w \in Nat
        BY <1>5, <2>1, Typed
      <3>4. at'[t][1] >= w
        BY <3>3, Typed
      <3>5. timer[t].asked = 1 => visit[t] < at'[t][1]
        BY <3>2, <3>3, <3>4
      <3> QED BY <1>5, <2>1, <3>5
    <2>2. CASE at[t] # <<w, curIndex[w]>>
      BY <1>6, <2>2 DEF RemoverOK
    <2> QED BY <2>1, <2>2
  <1> QED BY <1>8, <1>9, <1>10, <1>11, <1>12, <1>13

\* A timer in a slot has been created.
LEMMA InSlotBorn ==
  ASSUME WheelTypeOK, UnbornOK, NEW t \in Timers, at[t] # None \/ t \in poll.scan \/ t \in Current
  PROVE  timer[t] \in TimerRecords /\ timer[t] # None /\ (t \in Current => at[t] # None)
  <1>1. t \in Current => at[t] # None
    <2>1. <<Leaf, curIndex[Leaf]>> # None
      BY LeafIsWheel, Typed, SlotPair
    <2> QED BY <2>1 DEF Current
  <1>2. timer[t] # None
    BY <1>1 DEF UnbornOK
  <1> QED BY <1>1, <1>2, Typed

LEMMA PollStartBase ==
  ASSUME BaseInv, PollStart
  PROVE  BaseInv'
  <1> USE DEF BaseInv
  <1>1. /\ poll'.pc = "scan" /\ poll'.scan = {t \in Current : Due(t)} /\ poll'.list = {} /\ poll' \in Polls
        /\ wake[Poller] = now /\ UNCHANGED <<now, curIndex, wake, timer, at, visit, fires>>
    BY DEF PollStart, Idle, Polls, Current
  <1>2. WheelTypeOK'
    BY <1>1 DEF WheelTypeOK, Polls
  <1>3. ClockOK' /\ PollOK' /\ BornOK' /\ RemoverOK'
    BY <1>1 DEF ClockOK, PollOK, BornOK, RemoverOK
  <1>4. UnbornOK'
    <2>1. \A t \in Timers : t \in poll'.scan => timer[t] # None
      BY <1>1, InSlotBorn
    <2> QED BY <1>1, <2>1 DEF UnbornOK, Listed
  <1> QED BY <1>2, <1>3, <1>4

\* What a visit of t does to the poller and to the slots.
LEMMA VisitFacts ==
  ASSUME BaseInv, NEW t \in Timers, PollVisit(t)
  PROVE  /\ timer[t] \in TimerRecords /\ timer[t] # None /\ poll.pc = "scan"
         /\ poll'.scan = poll.scan \ {t}
         /\ poll'.list = {x \in poll.list : x.id # t} \cup {[id |-> t, timer |-> timer[t]]}
         /\ timer[t].times <= 1 => poll'.pc = "scan" /\ poll'.id = None
         /\ ~(timer[t].times <= 1) => poll'.pc = "readd" /\ poll'.id = t
         /\ poll' \in Polls
         /\ \A x \in Timers : x # t => at'[x] = at[x]
         /\ at'[t] = IF t \in Current THEN None ELSE at[t]
         /\ at' \in [Timers -> Slots \cup {None}]
         /\ \A x \in Timers : Listed(x)' <=> Listed(x) \/ x = t
         /\ UNCHANGED <<now, curIndex, wake, timer, visit, fires>>
  <1> USE DEF BaseInv
  <1>1. timer[t] \in TimerRecords /\ timer[t] # None
    BY InSlotBorn DEF PollVisit
  <1>2. /\ poll.pc = "scan"
        /\ poll'.scan = poll.scan \ {t}
        /\ poll'.list = {x \in poll.list : x.id # t} \cup {[id |-> t, timer |-> timer[t]]}
        /\ timer[t].times <= 1 => poll'.pc = "scan" /\ poll'.id = None
        /\ ~(timer[t].times <= 1) => poll'.pc = "readd" /\ poll'.id = t
        /\ UNCHANGED <<now, curIndex, wake, timer, visit, fires>>
    BY DEF PollVisit, WheelTypeOK
  <1>3. poll' \in Polls
    <2>1. [id |-> t, timer |-> timer[t]] \in [id : Timers, timer : TimerRecords]
      BY <1>1
    <2>2. PICK l : l = {x \in poll.list : x.id # t} \cup {[id |-> t, timer |-> timer[t]]}
      OBVIOUS
    <2>3. l \in SUBSET [id : Timers, timer : TimerRecords]
      BY <2>1, <2>2 DEF WheelTypeOK, Polls
    <2>4. poll' = [poll EXCEPT !.scan = @ \ {t}, !.list = l,
                    !.pc = IF timer[t].times <= 1 THEN "scan" ELSE "readd",
                    !.id = IF timer[t].times <= 1 THEN None ELSE t]
      BY <2>2 DEF PollVisit
    <2> QED BY <2>3, <2>4 DEF WheelTypeOK, Polls
  <1>4. /\ \A x \in Timers : x # t => at'[x] = at[x]
        /\ at'[t] = IF t \in Current THEN None ELSE at[t]
        /\ at' \in [Timers -> Slots \cup {None}]
    BY DEF PollVisit, WheelTypeOK
  <1>5. \A x \in Timers : Listed(x)' <=> Listed(x) \/ x = t
    <2>1. PICK e : e = [id |-> t, timer |-> timer[t]]
      OBVIOUS
    <2>2. e.id = t /\ \A x : x \in poll'.list <=> (x \in poll.list /\ x.id # t) \/ x = e
      BY <1>2, <2>1
    <2> QED BY <2>2 DEF Listed
  <1> QED BY <1>1, <1>2, <1>3, <1>4, <1>5

LEMMA PollVisitBase ==
  ASSUME BaseInv, NEW t \in Timers, PollVisit(t)
  PROVE  BaseInv'
  <1>1. WheelTypeOK'
    BY VisitFacts DEF BaseInv, WheelTypeOK, Polls
  <1>2. ClockOK' /\ BornOK'
    BY VisitFacts DEF BaseInv, ClockOK, BornOK
  <1>3. PollOK'
    <2>1. /\ wake[Poller] = now /\ (timer[t].times <= 1 \/ timer[t].times >= 2)
      BY VisitFacts, RecordTyped DEF BaseInv, PollOK
    <2>2. CASE timer[t].times <= 1
      BY <2>1, <2>2, VisitFacts DEF PollOK
    <2>3. CASE ~(timer[t].times <= 1)
      BY <2>1, <2>3, VisitFacts DEF PollOK
    <2> QED BY <2>2, <2>3
  <1>4. UnbornOK'
    BY VisitFacts DEF BaseInv, UnbornOK
  <1>5. RemoverOK'
    BY VisitFacts DEF BaseInv, RemoverOK
  <1> QED BY <1>1, <1>2, <1>3, <1>4, <1>5 DEF BaseInv

\* What re-adding the timer t does: it is armed anew, with one call less, as r in slot p.
Readds(t, r, p) ==
    /\ poll.pc = "readd" /\ poll.id = t /\ timer[t] \in TimerRecords
    /\ timer[t].times >= 2 /\ t \notin poll.scan
    /\ r.unixts = now + timer[t].Interval /\ r.times = timer[t].times - 1
    /\ r.Interval = timer[t].Interval /\ r.delay = timer[t].Interval
    /\ r.asked = timer[t].asked
    /\ p = addTimer(1, now + timer[t].Interval, FALSE) /\ p[2] < Scales[p[1]]
    /\ timer' = [timer EXCEPT ![t] = r] /\ at' = [at EXCEPT ![t] = p]
    /\ poll'.pc = "scan" /\ poll'.scan = poll.scan /\ poll'.list = poll.list
    /\ poll' \in Polls
    /\ UNCHANGED <<now, curIndex, wake, visit, fires>>

LEMMA ReaddFacts ==
  ASSUME BaseInv, PollReadd
  PROVE  \E t \in Timers, r \in TimerRecords, p \in Slots : Readds(t, r, p)
  <1> USE DEF BaseInv
  <1>1. PICK t \in Timers : poll.id = t /\ timer[t] # None /\ timer[t].times >= 2 /\ t \notin poll.scan
    BY DEF PollReadd, PollOK
  <1>2. timer[t] \in TimerRecords
    BY <1>1, Typed
  <1>3. PICK i : i = timer[t].Interval
    OBVIOUS
  <1>4. i \in Nat /\ timer[t].times - 1 \in Nat /\ timer[t].asked \in Nat /\ now \in Nat /\ now + i \in Nat
    BY <1>1, <1>2, <1>3, RecordTyped, Typed
  <1>5. PICK r : r = [unixts |-> now + i, times |-> timer[t].times - 1, Interval |-> i, delay |-> i,
                      asked |-> timer[t].asked]
    OBVIOUS
  <1>6. r \in TimerRecords
    BY <1>4, <1>5 DEF TimerRecords
  <1>7. PICK p : p = addTimer(1, now + i, FALSE)
    OBVIOUS
  <1>8. p \in Slots /\ p[2] < Scales[p[1]]
    BY <1>4, <1>7, NewSlot
  <1>9. /\ timer' = [timer EXCEPT ![t] = r] /\ at' = [at EXCEPT ![t] = p] /\ poll.pc = "readd"
        /\ UNCHANGED <<now, curIndex, wake, visit, fires>>
    BY <1>1, <1>3, <1>5, <1>7 DEF PollReadd, NewTimerAfter
  <1>10. /\ poll'.pc = "scan" /\ poll'.scan = poll.scan /\ poll'.list = poll.list
         /\ poll' \in Polls
    BY DEF PollReadd, WheelTypeOK, Polls
  <1>11. /\ r.unixts = now + timer[t].Interval /\ r.times = timer[t].times - 1
         /\ r.Interval = timer[t].Interval /\ r.delay = timer[t].Interval /\ r.asked = timer[t].asked
    BY <1>3, <1>5
  <1>12. Readds(t, r, p)
    BY <1>1, <1>2, <1>3, <1>7, <1>8, <1>9, <1>10, <1>11 DEF Readds
  <1> QED BY <1>6, <1>8, <1>12

LEMMA PollReaddBase ==
  ASSUME BaseInv, PollReadd
  PROVE  BaseInv'
  <1> USE DEF BaseInv
  <1>1. PICK t \in Timers, r \in TimerRecords, p \in Slots : Readds(t, r, p)
    BY ReaddFacts
  <1> USE DEF Readds
  <1>2. /\ timer'[t] = r /\ at'[t] = p /\ timer[t] # None /\ r # None
        /\ \A x \in Timers : x # t => timer'[x] = timer[x] /\ at'[x] = at[x]
    BY <1>1, RecordTyped DEF WheelTypeOK
  <1>3. WheelTypeOK'
    <2>1. timer' \in [Timers -> TimerRecords \cup {None}]
      BY <1>1 DEF WheelTypeOK
    <2>2. at' \in [Timers -> Slots \cup {None}]
      BY <1>1 DEF WheelTypeOK
    <2> QED BY <1>1, <2>1, <2>2 DEF WheelTypeOK, Polls
  <1>4. ClockOK' /\ PollOK'
    BY <1>1 DEF ClockOK, PollOK
  <1>5. UnbornOK'
    <2> SUFFICES ASSUME NEW x \in Timers, timer'[x] = None
                 PROVE  /\ at'[x] = None /\ visit'[x] = 0 /\ x \notin poll'.scan /\ fires'[x] = 0
                        /\ ~Listed(x)'
      BY DEF UnbornOK
    <2>1. x # t /\ timer[x] = None /\ at'[x] = at[x]
      BY <1>2
    <2>2. at[x] = None /\ visit[x] = 0 /\ x \notin poll.scan /\ fires[x] = 0 /\ ~Listed(x)
      BY <2>1 DEF UnbornOK
    <2> QED BY <1>1, <2>1, <2>2 DEF Listed
  <1>6. timer[t].times \in 1..timer[t].asked /\ timer[t].Interval \in Periods
    BY <1>1, <1>2 DEF BornOK
  <1>7. r.times \in 1..r.asked /\ r.unixts <= now + r.delay /\ timer[t].asked # 1
    BY <1>1, <1>6, RecordTyped, Typed
  <1>8. BornOK'
    BY <1>1, <1>2, <1>6, <1>7 DEF BornOK
  <1>9. RemoverOK'
    <2>1. timer'[t].asked # 1 /\ at'[t][2] < Scales[at'[t][1]]
      BY <1>1, <1>2, <1>7
    <2>2. visit' = visit
      BY <1>1
    <2> QED BY <1>2, <2>1, <2>2 DEF RemoverOK
  <1> QED BY <1>3, <1>4, <1>5, <1>8, <1>9

LEMMA PollEndBase ==
  ASSUME BaseInv, PollEnd
  PROVE  BaseInv'
  <1> USE DEF BaseInv
  <1>1. /\ poll.pc = "scan" /\ poll' = Idle /\ wake' = [wake EXCEPT ![Poller] = now + 1]
        /\ fires' = [t \in Timers |-> IF Listed(t) THEN fires[t] + 1 ELSE fires[t]]
        /\ UNCHANGED <<now, curIndex, timer, at, visit>>
    BY DEF PollEnd, Listed
  <1>2. Idle \in Polls /\ Idle.pc = "sleep" /\ Idle.scan = {} /\ Idle.list = {}
    BY DEF Idle, Polls
  <1>3. \A t \in Timers : fires'[t] = IF Listed(t) THEN fires[t] + 1 ELSE fires[t]
    BY <1>1
  <1>4. fires' \in [Timers -> Nat]
    BY <1>1, Typed
  <1>5. Wheels \in Nat /\ now \in Nat /\ now + 1 \in Nat
    BY Typed
  <1>6. wake' \in [1..(Wheels + 1) -> Nat] /\ wake'[Poller] = now + 1
        /\ \A w \in 1..Wheels : wake'[w] = wake[w]
    BY <1>1, <1>5 DEF WheelTypeOK, Poller
  <1>7. WheelTypeOK'
    BY <1>1, <1>2, <1>4, <1>6 DEF WheelTypeOK, Polls
  <1>8. ClockOK'
    <2>1. \A g \in 1..Poller : g = Poller \/ g \in 1..Wheels
      BY <1>5 DEF Poller
    <2> QED BY <1>1, <1>5, <1>6, <2>1 DEF ClockOK
  <1>9. PollOK'
    BY <1>1, <1>2 DEF PollOK
  <1>10. UnbornOK'
    BY <1>1, <1>2, <1>3 DEF UnbornOK, Listed
  <1>11. BornOK' /\ RemoverOK'
    BY <1>1 DEF BornOK, RemoverOK
  <1> QED BY <1>7, <1>8, <1>9, <1>10, <1>11

\* What the remover does with wheel visit[t] + 1.
LEMMA RemoveFacts ==
  ASSUME BaseInv, NEW t \in Timers, RomoveTimer(t)
  PROVE  /\ timer[t] # None /\ visit' = [visit EXCEPT ![t] = @ + 1] /\ visit[t] < Wheels
         /\ \A x \in Timers : x # t => at'[x] = at[x] /\ visit'[x] = visit[x]
         /\ at'[t] = IF at[t] # None /\ at[t][1] = visit[t] + 1 THEN None ELSE at[t]
         /\ visit'[t] = visit[t] + 1
         /\ at' \in [Timers -> Slots \cup {None}]
         /\ poll' \in Polls /\ poll'.pc = poll.pc /\ poll'.list = poll.list /\ poll'.id = poll.id
         /\ \/ poll'.scan = poll.scan
            \/ poll'.scan = poll.scan \ {t} /\ at'[t] = None
         /\ UNCHANGED <<now, curIndex, wake, timer, fires>>
  <1> USE DEF BaseInv
  <1>1. /\ timer[t] # None /\ visit' = [visit EXCEPT ![t] = @ + 1] /\ visit[t] < Wheels
        /\ UNCHANGED <<now, curIndex, wake, timer, fires>> /\ RemoveTimer(visit[t] + 1, t)
    BY DEF RomoveTimer
  <1>2. /\ \A x \in Timers : x # t => at'[x] = at[x]
        /\ at'[t] = IF at[t] # None /\ at[t][1] = visit[t] + 1 THEN None ELSE at[t]
        /\ at' \in [Timers -> Slots \cup {None}]
    BY <1>1 DEF RemoveTimer, WheelTypeOK
  <1>3. (\A x \in Timers : x # t => visit'[x] = visit[x]) /\ visit'[t] = visit[t] + 1
    BY <1>1 DEF WheelTypeOK
  <1>4. CASE visit[t] + 1 = Leaf /\ poll.map /\ t \in Current
    <2>1. poll' = [poll EXCEPT !.scan = @ \ {t}]
      BY <1>1, <1>4 DEF RemoveTimer
    <2>2. at[t] # None /\ at[t][1] = Leaf
      BY <1>4, InSlotBorn DEF Current
    <2>3. at'[t] = None
      BY <1>2, <1>4, <2>2
    <2>4. /\ poll' \in Polls /\ poll'.pc = poll.pc /\ poll'.list = poll.list /\ poll'.id = poll.id
          /\ poll'.scan = poll.scan \ {t}
      BY <2>1 DEF WheelTypeOK, Polls
    <2> QED BY <1>1, <1>2, <1>3, <2>3, <2>4
  <1>5. CASE ~(visit[t] + 1 = Leaf /\ poll.map /\ t \in Current)
    <2>1. poll' = poll
      BY <1>1, <1>5 DEF RemoveTimer
    <2>2. poll \in Polls
      BY DEF WheelTypeOK, Polls
    <2> QED BY <1>1, <1>2, <1>3, <2>1, <2>2
  <1> QED BY <1>4, <1>5

LEMMA RemoveBase ==
  ASSUME BaseInv, NEW t \in Timers, RomoveTimer(t)
  PROVE  BaseInv'
  <1>1. WheelTypeOK'
    <2>1. visit[t] + 1 \in 0..Wheels
      BY RemoveFacts, Typed DEF BaseInv
    <2>2. visit' \in [Timers -> 0..Wheels]
      <3>1. visit' = [visit EXCEPT ![t] = @ + 1]
        BY RemoveFacts
      <3>2. visit \in [Timers -> 0..Wheels]
        BY DEF BaseInv, WheelTypeOK
      <3> QED BY <2>1, <3>1, <3>2
    <2> QED BY <2>2, RemoveFacts DEF BaseInv, WheelTypeOK, Polls
  <1>2. ClockOK' /\ BornOK'
    BY RemoveFacts DEF BaseInv, ClockOK, BornOK
  <1>3. PollOK'
    BY RemoveFacts DEF BaseInv, PollOK
  <1>4. UnbornOK'
    BY RemoveFacts DEF BaseInv, UnbornOK, Listed
  <1>5. RemoverOK'
    <2> SUFFICES ASSUME NEW x \in Timers, at'[x] # None
                 PROVE  /\ at'[x][2] < Scales[at'[x][1]]
                        /\ timer[x].asked = 1 => visit'[x] < at'[x][1]
      BY RemoveFacts DEF RemoverOK
    <2>1. at'[x] = at[x] /\ at[x] # None
      BY RemoveFacts
    <2>2. at[x][2] < Scales[at[x][1]] /\ (timer[x].asked = 1 => visit[x] < at[x][1])
      BY <2>1 DEF BaseInv, RemoverOK
    <2>3. at[x][1] \in Nat /\ visit[x] \in Nat
      BY <2>1, Typed, SlotParts DEF BaseInv
    <2>4. x = t => at[x][1] # visit[x] + 1
      BY <2>1, RemoveFacts
    <2>5. visit'[x] = visit[x] \/ (x = t /\ visit'[x] = visit[x] + 1)
      BY RemoveFacts
    <2>6. timer[x].asked = 1 => visit'[x] < at[x][1]
      BY <2>2, <2>3, <2>4, <2>5
    <2> QED BY <2>1, <2>2, <2>6
  <1> QED BY <1>1, <1>2, <1>3, <1>4, <1>5 DEF BaseInv

LEMMA TickBase ==
  ASSUME BaseInv, Tick
  PROVE  BaseInv'
  <1> USE DEF BaseInv
  <1>1. /\ now' = now + 1 /\ \A g \in 1..Poller : wake[g] > now
        /\ UNCHANGED <<curIndex, wake, timer, at, poll, visit, fires>>
    BY DEF Tick
  <1>2. now \in Nat /\ Wheels \in Nat /\ Poller \in 1..Poller
    BY Typed DEF Poller
  <1>3. WheelTypeOK'
    <2>1. now' \in Nat
      BY <1>1, <1>2
    <2> QED BY <1>1, <2>1 DEF WheelTypeOK
  <1>4. \A g \in 1..Poller : wake[g] \in Nat
    BY <1>2 DEF WheelTypeOK, Poller
  <1>5. ClockOK'
    <2>1. \A g \in 1..Poller : wake[g] >= now + 1
      BY <1>1, <1>2, <1>4
    <2>2. \A w \in 1..Wheels : wake[w] <= now + 1 + Interval[w] /\ curIndex[w] < Scales[w]
      BY <1>2, Typed DEF ClockOK
    <2>3. wake[Poller] <= now + 1 + 1
      BY <1>2, Typed DEF ClockOK
    <2> QED BY <1>1, <2>1, <2>2, <2>3 DEF ClockOK
  <1>6. PollOK'
    <2>1. wake[Poller] # now
      BY <1>1, <1>2, <1>4
    <2> QED BY <1>1, <2>1 DEF PollOK
  <1>7. UnbornOK' /\ RemoverOK'
    BY <1>1 DEF UnbornOK, RemoverOK, Listed
  <1>8. BornOK'
    <2> SUFFICES ASSUME NEW t \in Timers, timer[t] # None
                 PROVE  /\ timer[t].times \in 1..timer[t].asked
                        /\ timer[t].unixts <= now + 1 + timer[t].delay
                        /\ timer[t].Interval \in Periods
      BY <1>1 DEF BornOK
    <2>1. timer[t] \in TimerRecords
      BY Typed
    <2>2. timer[t].unixts <= now + timer[t].delay
      BY DEF BornOK
    <2>3. timer[t].unixts <= now + 1 + timer[t].delay
      BY <1>2, <2>1, <2>2, RecordTyped
    <2> QED BY <2>3 DEF BornOK
  <1> QED BY <1>3, <1>5, <1>6, <1>7, <1>8

LEMMA BaseStep ==
  ASSUME BaseInv, [Next]_vars
  PROVE  BaseInv'
  <1>1. CASE UNCHANGED vars
    BY <1>1 DEF vars, BaseInv, WheelTypeOK, ClockOK, PollOK, UnbornOK, BornOK, RemoverOK, Listed
  <1> QED BY <1>1, CreateBase, RunBase, PollStartBase, PollVisitBase, PollReaddBase, PollEndBase,
          RemoveBase, TickBase DEF Next

LEMMA BaseInvariant == Spec => []BaseInv
  BY BaseInit, BaseStep, PTL DEF Spec

\* RomoveTimer, which locks the wheels one after the other from the highest down, does
\* not miss a timer that fires once: turns move it down only, and never past the remover.
THEOREM RemoverCatches == Spec => []RemovedIsOut
  <1>1. BaseInv => RemovedIsOut
    <2> SUFFICES ASSUME BaseInv, NEW t \in Armed, timer[t].asked = 1, visit[t] = Wheels, at[t] # None
                 PROVE  FALSE
      BY DEF RemovedIsOut
    <2>1. t \in Timers
      BY DEF Armed
    <2>2. at[t][1] \in 1..Wheels /\ Wheels \in Nat
      BY <2>1, Typed, SlotParts DEF BaseInv
    <2>3. visit[t] < at[t][1]
      BY <2>1 DEF BaseInv, RemoverOK
    <2> QED BY <2>2, <2>3
  <1> QED BY <1>1, BaseInvariant, PTL

-----------------------------------------------------------------------------
(* In time *)

LEMMA SlackNat ==
  ASSUME NEW d \in Nat, NEW s \in Slack(d)
  PROVE  s \in Nat
  BY TimeWheelAssumption DEF Slack

LEMMA AheadNat ==
  ASSUME WheelTypeOK, ClockOK, NEW w \in 1..Wheels, NEW i \in Nat, i < Scales[w]
  PROVE  Ahead(w, i) \in Nat /\ (Ahead(w, i) = 0 <=> i = curIndex[w])
  BY Typed DEF Ahead, ClockOK

\* A timer that is put in, or comes down from another wheel.
LEMMA ForwardEarly ==
  ASSUME WheelTypeOK, ClockOK, NEW p, NEW v, NEW k, NEW ts \in Nat, Forward(p, v, k, ts),
         NEW d \in Nat, ts <= now + d
  PROVE  \E s \in Slack(d) : Early(p, ts, s)
  <1>1. /\ v \in 1..Wheels /\ k \in Nat /\ k >= 1 /\ ts >= now + Interval[v]
        /\ k * Interval[v] <= ts - now
    BY DEF Forward
  <1>2. p[1] = v /\ p[2] = (curIndex[v] + k) % Scales[v]
    BY ForwardSlot
  <1>3. /\ curIndex[v] \in Nat /\ Scales[v] \in Nat \ {0} /\ curIndex[v] < Scales[v]
        /\ Interval[v] \in Nat /\ now \in Nat /\ wake[v] \in Nat /\ wake[v] <= now + Interval[v]
    BY <1>1, Typed DEF ClockOK
  <1>4. PICK a : a = Ahead(v, p[2])
    OBVIOUS
  <1>5. a \in Nat /\ a <= k
    <2>1. p[2] \in Nat /\ p[2] < Scales[v]
          /\ (IF p[2] >= curIndex[v] THEN p[2] - curIndex[v] <= k ELSE p[2] + Scales[v] - curIndex[v] <= k)
      BY <1>1, <1>2, <1>3, SlotAhead
    <2> QED BY <1>1, <1>3, <1>4, <2>1 DEF Ahead
  <1>6. a * Interval[v] \in Nat /\ a * Interval[v] <= ts - now
    <2>1. a * Interval[v] \in Nat /\ a * Interval[v] <= k * Interval[v] /\ k * Interval[v] \in Nat
      BY <1>1, <1>3, <1>5, ProductMonotone
    <2> QED BY <1>1, <1>3, <2>1
  <1>7. CASE v < Leaf
    <2>1. Interval[v] \in Slack(d)
      <3>1. v \in 1..(Wheels - 1) /\ d >= Interval[v]
        BY <1>1, <1>3, <1>7, Typed DEF Leaf
      <3> QED BY <3>1 DEF Slack
    <2>2. wake[v] + a * Interval[v] <= ts + Interval[v]
      BY <1>3, <1>6
    <2>3. Early(p, ts, Interval[v])
      BY <1>2, <1>4, <1>7, <2>2 DEF Early
    <2> QED BY <2>1, <2>3
  <1>8. CASE v = Leaf
    <2>1. 0 \in Slack(d)
      BY DEF Slack
    <2>2. CASE a = 0
      <3>1. now <= ts + 0
        BY <1>1, <1>3
      <3> QED BY <1>2, <1>4, <1>8, <2>1, <2>2, <3>1 DEF Early
    <2>3. CASE a >= 1
      <3>1. (a - 1) * Interval[v] + Interval[v] = a * Interval[v]
        BY <1>3, <1>5, <2>3, TurnLater
      <3>2. (a - 1) * Interval[v] \in Nat
        BY <1>3, <1>5, <2>3, ProductMonotone
      <3>3. wake[v] + (a - 1) * Interval[v] <= ts + 0
        BY <1>3, <1>6, <3>1, <3>2
      <3> QED BY <1>2, <1>4, <1>8, <2>1, <2>3, <3>3 DEF Early
    <2> QED BY <1>5, <2>2, <2>3
  <1> QED BY <1>1, <1>7, <1>8, Typed DEF Leaf

LEMMA NearEarly ==
  ASSUME WheelTypeOK, ClockOK, NEW p, p = <<Leaf, curIndex[Leaf]>>, NEW ts \in Nat, NEW s \in Nat, now <= ts + s
  PROVE  Early(p, ts, s)
  <1>1. p[1] = Leaf /\ p[2] = curIndex[Leaf]
    OBVIOUS
  <1>2. Ahead(Leaf, curIndex[Leaf]) = 0
    BY LeafIsWheel, Typed DEF Ahead
  <1> QED BY <1>1, <1>2 DEF Early

\* A timer that is put in.
LEMMA NewEarly ==
  ASSUME WheelTypeOK, ClockOK, NEW d \in Nat, NEW p, p = addTimer(1, now + d, FALSE)
  PROVE  \E s \in Slack(d) : Early(p, now + d, s)
  <1>1. 1 \in 1..Wheels /\ now + d \in Nat /\ now \in Nat /\ now <= now + d + 0
    BY Typed
  <1>2. CASE \E v \in 1..Wheels, k \in Nat : Forward(p, v, k, now + d)
    <2>1. PICK v \in 1..Wheels, k \in Nat : Forward(p, v, k, now + d)
      BY <1>2
    <2>2. PICK ts \in Nat : ts = now + d
      BY <1>1
    <2>3. Forward(p, v, k, ts)
      BY <2>1, <2>2, Zenon
    <2>4. ts <= now + d
      BY <1>1, <2>2
    <2>5. \E s \in Slack(d) : Early(p, ts, s)
      BY <2>3, <2>4, ForwardEarly
    <2> QED BY <2>2, <2>5, Zenon
  <1>3. CASE p = <<Leaf, curIndex[Leaf]>>
    <2>1. 0 \in Slack(d)
      BY DEF Slack
    <2>2. Early(p, now + d, 0)
      BY <1>1, <1>3, NearEarly
    <2> QED BY <2>1, <2>2
  <1> QED BY <1>1, <1>2, <1>3, PlacedNew

\* What a timer that turns in time means now.
LEMMA InTimeNow ==
  ASSUME BaseInv, NEW t \in Timers, at[t] # None, NEW s \in Nat, TurnsInTime(t, s)
  PROVE  now <= timer[t].unixts + s + 1
  <1> USE DEF BaseInv
  <1>1. timer[t].unixts \in Nat /\ now \in Nat
    BY InSlotBorn, RecordTyped, Typed
  <1>2. CASE LastChance(t, s)
    BY <1>1, <1>2 DEF LastChance
  <1>3. CASE Early(at[t], timer[t].unixts, s)
    <2>1. PICK w, i : w = at[t][1] /\ i = at[t][2]
      OBVIOUS
    <2>2. w \in 1..Wheels /\ i \in Nat /\ i < Scales[w]
      BY <2>1, Typed, SlotParts DEF RemoverOK
    <2>3. PICK k : k = Ahead(w, i)
      OBVIOUS
    <2>4. k \in Nat
      BY <2>2, <2>3, AheadNat
    <2>5. wake[w] \in Nat /\ wake[w] >= now /\ Interval[w] \in Nat /\ k * Interval[w] \in Nat
      <3>1. w \in 1..Poller
        BY <2>2, Typed DEF Poller
      <3> QED BY <2>2, <2>4, <3>1, Typed, ProductMonotone DEF ClockOK
    <2>6. CASE w < Leaf /\ wake[w] + k * Interval[w] <= timer[t].unixts + s
      BY <1>1, <2>5, <2>6
    <2>7. CASE w = Leaf /\ k >= 1 /\ wake[w] + (k - 1) * Interval[w] <= timer[t].unixts + s
      <3>1. (k - 1) * Interval[w] \in Nat
        BY <2>4, <2>5, <2>7, ProductMonotone
      <3> QED BY <1>1, <2>5, <2>7, <3>1
    <2>8. CASE now <= timer[t].unixts + s
      BY <1>1, <2>8
    <2> QED BY <1>3, <2>1, <2>3, <2>6, <2>7, <2>8 DEF Early
  <1> QED BY <1>2, <1>3 DEF TurnsInTime

\* A timer armed with delay d is due in time.
LEMMA ScanInTime ==
  ASSUME BaseInv, TurnsInv, NEW t \in Timers, at[t] # None
  PROVE  InTime(timer[t])
  <1>1. timer[t].delay \in Nat
    BY InSlotBorn, RecordTyped DEF BaseInv
  <1>2. PICK s \in Slack(timer[t].delay) : TurnsInTime(t, s)
    BY DEF TurnsInv
  <1>3. s \in Nat
    BY <1>1, SlackNat
  <1>4. now <= timer[t].unixts + s + 1
    BY <1>2, <1>3, InTimeNow
  <1> QED BY <1>4 DEF InTime

\* Steps that leave the wheels and the clock alone: a timer that stays where it is, with
\* its last chance, turns in time.
LEMMA StaysInTime ==
  ASSUME UNCHANGED <<now, curIndex, wake>>, NEW t \in Timers, NEW s,
         at'[t] = at[t], timer'[t] = timer[t],
         poll.pc = "sleep" \/ t \in poll.scan => (poll'.pc = "sleep" \/ t \in poll'.scan \/ ~LastChance(t, s)),
         TurnsInTime(t, s)
  PROVE  TurnsInTime(t, s)'
  <1>1. Early(at[t], timer[t].unixts, s) => Early(at[t], timer[t].unixts, s)'
    BY DEF Early, Ahead
  <1> QED BY DEF TurnsInTime, Early, Ahead, LastChance, Current

LEMMA TurnsInit == Init => TurnsInv
  BY DEF Init, TurnsInv, CalledInTime, Idle

LEMMA CreateTurns ==
  ASSUME BaseInv, BaseInv', TurnsInv,
         NEW t \in Timers, NEW d \in Delays, NEW n \in 1..MaxTimes, NEW i \in Periods,
         CreateTimerAfter(t, d, n, i)
  PROVE  TurnsInv'
  <1>1. d \in Nat /\ now \in Nat
    BY TimeWheelAssumption, Typed DEF BaseInv
  <1>2. PICK p : p = addTimer(1, now + d, FALSE)
    OBVIOUS
  <1>3. /\ timer'[t].unixts = now + d /\ timer'[t].delay = d /\ at'[t] = p
        /\ \A x \in Timers : x # t => timer'[x] = timer[x] /\ at'[x] = at[x]
        /\ t \notin poll.scan
        /\ UNCHANGED <<now, curIndex, wake, poll, visit, fires>>
    BY <1>2 DEF CreateTimerAfter, NewTimerAfter, BaseInv, WheelTypeOK, UnbornOK
  <1>4. PICK s \in Slack(d) : Early(p, now + d, s)
    BY <1>1, <1>2, NewEarly DEF BaseInv
  <1>5. TurnsInTime(t, s)'
    <2>1. PICK ts : ts = now + d
      OBVIOUS
    <2>2. Early(p, ts, s)'
      BY <1>3, <1>4, <2>1 DEF Early, Ahead
    <2> QED BY <1>3, <2>1, <2>2 DEF TurnsInTime, Early, Ahead
  <1>6. ASSUME NEW x \in Timers, x # t, at'[x] # None
        PROVE  \E r \in Slack(timer'[x].delay) : TurnsInTime(x, r)'
    <2>1. PICK r \in Slack(timer[x].delay) : TurnsInTime(x, r)
      BY <1>3, <1>6 DEF TurnsInv
    <2>2. TurnsInTime(x, r)'
      BY <1>3, <1>6, <2>1, StaysInTime
    <2> QED BY <1>3, <1>6, <2>1, <2>2
  <1>7. \A x \in Timers : at'[x] # None => \E r \in Slack(timer'[x].delay) : TurnsInTime(x, r)'
    BY <1>3, <1>5, <1>6
  <1>8. \A x \in poll'.scan : Due(x)' /\ InTime(timer[x])'
    <2> SUFFICES ASSUME NEW x \in poll.scan PROVE Due(x)' /\ InTime(timer[x])'
      BY <1>3
    <2>1. x \in Timers /\ x # t
      BY <1>3 DEF BaseInv, WheelTypeOK, Polls
    <2>2. timer'[x] = timer[x] /\ Due(x) /\ InTime(timer[x])
      BY <1>3, <2>1 DEF TurnsInv
    <2> QED BY <1>3, <2>2 DEF Due, InTime
  <1>9. CalledInTime'
    BY <1>3 DEF TurnsInv, CalledInTime, InTime
  <1> QED BY <1>3, <1>7, <1>8, <1>9 DEF TurnsInv, Slack

\* The turn of wheel w, for a timer due at ts in slot p of another position.
LEMMA TurnStaysEarly ==
  ASSUME BaseInv, NEW w \in 1..Wheels, run(w), NEW p \in Slots, p[2] < Scales[p[1]],
         p # <<w, curIndex[w]>>, NEW ts \in Nat, NEW s \in Nat, Early(p, ts, s)
  PROVE  Early(p, ts, s)'
  <1> USE DEF BaseInv
  <1>1. PICK v \in 1..Wheels, i \in Nat : v = p[1] /\ i = p[2] /\ i < Scales[v]
    BY SlotParts
  <1>2. /\ wake[w] = now /\ now' = now
        /\ wake' = [wake EXCEPT ![w] = now + Interval[w]]
        /\ curIndex' = [curIndex EXCEPT ![w] = (@ + 1) % Scales[w]]
    BY DEF run
  <1>3. CASE v # w
    <2>1. wake'[v] = wake[v] /\ curIndex'[v] = curIndex[v]
      BY <1>2, <1>3 DEF WheelTypeOK
    <2> QED BY <1>1, <1>2, <2>1 DEF Early, Ahead
  <1>4. CASE v = w
    <2>1. i # curIndex[w]
      BY <1>1, <1>4, SlotParts
    <2>2. /\ curIndex[w] \in Nat /\ Scales[w] \in Nat \ {0} /\ curIndex[w] < Scales[w]
          /\ Interval[w] \in Nat /\ now \in Nat
      BY Typed DEF ClockOK
    <2>3. wake'[w] = now + Interval[w]
      <3>1. w \in 1..(Wheels + 1)
        BY Typed
      <3> QED BY <1>2, <3>1 DEF WheelTypeOK
    <2>4. curIndex'[w] = IF curIndex[w] + 1 < Scales[w] THEN curIndex[w] + 1 ELSE 0
      <3>1. curIndex'[w] = (curIndex[w] + 1) % Scales[w]
        BY <1>2 DEF WheelTypeOK
      <3> QED BY <2>2, <3>1, NextSlot
    <2>5. PICK k : k = Ahead(w, i)
      OBVIOUS
    <2>6. k \in Nat /\ k >= 1
      BY <1>1, <1>4, <2>1, <2>5, AheadNat
    <2>7. Ahead(w, i)' = k - 1
      BY <1>1, <1>4, <2>1, <2>2, <2>4, <2>5 DEF Ahead
    <2>8. (k - 1) * Interval[w] + Interval[w] = k * Interval[w] /\ (k - 1) * Interval[w] \in Nat
      BY <2>2, <2>6, TurnLater, ProductMonotone
    <2>9. CASE w < Leaf
      <3>1. now + k * Interval[w] <= ts + s
        BY <1>1, <1>2, <1>4, <2>5, <2>9, LeafIsWheel DEF Early
      <3>2. now + Interval[w] + (k - 1) * Interval[w] <= ts + s
        BY <2>2, <2>8, <3>1
      <3> QED BY <1>1, <1>4, <2>3, <2>7, <2>9, <3>2 DEF Early
    <2>10. CASE w = Leaf
      <3>1. now + (k - 1) * Interval[w] <= ts + s
        BY <1>1, <1>2, <1>4, <2>5, <2>6, <2>10, LeafIsWheel DEF Early
      <3>2. CASE k = 1
        <4>1. now <= ts + s
          BY <2>2, <2>8, <3>1
        <4> QED BY <1>1, <1>2, <1>4, <2>7, <2>10, <3>2, <4>1 DEF Early
      <3>3. CASE k # 1
        <4>1. PICK j \in Nat : j = k - 1 /\ j >= 1
          BY <2>6, <3>3
        <4>2. (j - 1) * Interval[w] + Interval[w] = j * Interval[w] /\ (j - 1) * Interval[w] \in Nat
          BY <2>2, <4>1, TurnLater, ProductMonotone
        <4>3. now + Interval[w] + (j - 1) * Interval[w] <= ts + s
          BY <2>2, <3>1, <4>1, <4>2
        <4> QED BY <1>1, <1>4, <2>3, <2>7, <2>10, <4>1, <4>3 DEF Early
      <3> QED BY <3>2, <3>3
    <2> QED BY <2>9, <2>10, Typed DEF Leaf
  <1> QED BY <1>3, <1>4

\* The turn of wheel w, for a timer that it puts k slots ahead.
LEMMA TurnForwardEarly ==
  ASSUME BaseInv, BaseInv', NEW w \in 1..Wheels, run(w), NEW p, NEW v, NEW k, NEW ts \in Nat, NEW d \in Nat,
         ts <= now + d, Forward(p, v, k, ts)
  PROVE  \E s \in Slack(d) : Early(p, ts, s)'
  <1> USE DEF BaseInv
  <1>1. /\ wake[w] = now /\ now' = now
        /\ wake' = [wake EXCEPT ![w] = now + Interval[w]]
        /\ curIndex' = [curIndex EXCEPT ![w] = (@ + 1) % Scales[w]]
    BY DEF run
  <1>2. /\ v \in 1..Wheels /\ k \in Nat /\ k >= 1 /\ ts >= now + Interval[v]
        /\ k * Interval[v] <= ts - now
    BY DEF Forward
  <1>3. CASE v # w
    <2>1. wake'[v] = wake[v] /\ curIndex'[v] = curIndex[v]
      BY <1>1, <1>2, <1>3 DEF WheelTypeOK
    <2>2. p[1] = v
      BY ForwardSlot
    <2>3. PICK s \in Slack(d) : Early(p, ts, s)
      BY ForwardEarly
    <2>4. Early(p, ts, s)'
      BY <1>1, <2>1, <2>2, <2>3 DEF Early, Ahead
    <2> QED BY <2>4
  <1>4. CASE v = w
    <2>1. p[1] = w /\ p[2] = (curIndex[w] + k) % Scales[w]
      BY <1>4, ForwardSlot
    <2>2. /\ curIndex[w] \in Nat /\ Scales[w] \in Nat \ {0} /\ curIndex[w] < Scales[w]
          /\ Interval[w] \in Nat /\ now \in Nat
      BY Typed DEF ClockOK
    <2>3. wake'[w] = now + Interval[w]
      <3>1. w \in 1..(Wheels + 1)
        BY Typed
      <3> QED BY <1>1, <3>1 DEF WheelTypeOK
    <2>4. curIndex'[w] = (curIndex[w] + 1) % Scales[w]
      BY <1>1 DEF WheelTypeOK
    <2>5. PICK a : a = Ahead(w, p[2])'
      OBVIOUS
    <2>6. a \in Nat /\ a <= k - 1
      <3>1. PICK r, n : r = p[2] /\ n = curIndex'[w]
        OBVIOUS
      <3>2. r \in Nat /\ r < Scales[w] /\ n \in Nat /\ n < Scales[w]
        BY <1>2, <2>1, <2>2, <2>4, <3>1, ModBound
      <3>3. IF r >= n THEN r - n <= k - 1 ELSE r + Scales[w] - n <= k - 1
        <4>1. PICK c, m : c = curIndex[w] /\ m = Scales[w]
          OBVIOUS
        <4>2. c \in Nat /\ m \in Nat \ {0} /\ c < m /\ k \in Nat /\ k >= 1
          BY <1>2, <2>2, <4>1
        <4>3. r = (c + k) % m /\ n = (c + 1) % m
          BY <2>1, <2>4, <3>1, <4>1
        <4> QED BY <4>1, <4>2, <4>3, SlotAheadNext
      <3>4. a = IF r >= n THEN r - n ELSE r + Scales[w] - n
        BY <2>5, <3>1 DEF Ahead
      <3> QED BY <1>2, <2>2, <3>2, <3>3, <3>4
    <2>7. a * Interval[w] \in Nat /\ a * Interval[w] + Interval[w] <= ts - now
      <3>1. k - 1 \in Nat
        BY <1>2
      <3>2. PICK j \in Nat : j = k - 1
        BY <3>1
      <3>3. a * Interval[w] \in Nat /\ a * Interval[w] <= j * Interval[w] /\ j * Interval[w] \in Nat
        BY <2>2, <2>6, <3>2, ProductMonotone
      <3>4. j * Interval[w] + Interval[w] = k * Interval[w]
        BY <1>2, <2>2, <3>2, TurnLater
      <3> QED BY <1>2, <1>4, <2>2, <3>3, <3>4
    <2>8. 0 \in Slack(d)
      BY DEF Slack
    <2>9. Early(p, ts, 0)'
      <3>1. CASE w < Leaf
        <4>1. now + Interval[w] + a * Interval[w] <= ts + 0
          BY <2>2, <2>7
        <4> QED BY <2>1, <2>3, <2>5, <3>1, <4>1 DEF Early
      <3>2. CASE w = Leaf /\ a = 0
        <4>1. now <= ts + 0
          BY <2>2, <2>7
        <4> QED BY <1>1, <2>1, <2>5, <3>2, <4>1 DEF Early
      <3>3. CASE w = Leaf /\ a >= 1
        <4>1. (a - 1) * Interval[w] + Interval[w] = a * Interval[w] /\ (a - 1) * Interval[w] \in Nat
          BY <2>2, <2>6, <3>3, TurnLater, ProductMonotone
        <4>2. now + Interval[w] + (a - 1) * Interval[w] <= ts + 0
          BY <2>2, <2>7, <4>1
        <4> QED BY <2>1, <2>3, <2>5, <3>3, <4>2 DEF Early
      <3> QED BY <2>6, <3>1, <3>2, <3>3, Typed DEF Leaf
    <2> QED BY <2>8, <2>9
  <1> QED BY <1>3, <1>4

LEMMA RunTurns ==
  ASSUME BaseInv, BaseInv', TurnsInv, NEW w \in 1..Wheels, run(w)
  PROVE  TurnsInv'
  <1>1. /\ wake[w] = now /\ UNCHANGED <<now, timer>>
        /\ curIndex' = [curIndex EXCEPT ![w] = (@ + 1) % Scales[w]]
        /\ wake' = [wake EXCEPT ![w] = now + Interval[w]]
        /\ poll'.pc = poll.pc /\ poll'.scan = poll.scan /\ poll'.list = poll.list
    BY DEF run, BaseInv, WheelTypeOK
  <1>2. wake'[Poller] = wake[Poller]
    <2>1. Poller # w /\ Poller \in 1..(Wheels + 1)
      BY Typed DEF Poller, BaseInv
    <2> QED BY <1>1, <2>1 DEF BaseInv, WheelTypeOK
  <1>3. \A v \in 1..Wheels : v # w => curIndex'[v] = curIndex[v]
    BY <1>1 DEF BaseInv, WheelTypeOK
  <1>4. curIndex'[w] = (curIndex[w] + 1) % Scales[w] /\ curIndex'[Leaf] \in Nat /\ curIndex[Leaf] \in Nat
    <2>1. curIndex'[w] = (curIndex[w] + 1) % Scales[w]
      BY <1>1 DEF BaseInv, WheelTypeOK
    <2> QED BY <2>1, LeafIsWheel DEF BaseInv, WheelTypeOK
  <1>5. ASSUME NEW t \in Timers, at'[t] # None
        PROVE  \E s \in Slack(timer[t].delay) : TurnsInTime(t, s)'
    <2>1. at[t] # None
      <3>1. <<w, curIndex[w]>> # None
        BY Typed, SlotPair DEF BaseInv
      <3> QED BY <1>5, <3>1 DEF run
    <2>2. PICK s \in Slack(timer[t].delay) : TurnsInTime(t, s)
      BY <2>1 DEF TurnsInv
    <2>3. PICK ts, d : ts = timer[t].unixts /\ d = timer[t].delay
      OBVIOUS
    <2>4. ts \in Nat /\ d \in Nat /\ ts <= now + d /\ timer'[t] = timer[t] /\ s \in Nat
      BY <1>1, <2>1, <2>2, <2>3, InSlotBorn, RecordTyped, SlackNat DEF BaseInv, BornOK
    <2>5. PICK p : p = at'[t]
      OBVIOUS
    <2>6. SUFFICES \E r \in Slack(d) : Early(p, ts, r)' \/ LastChance(t, r)'
      BY <2>3, <2>4, <2>5 DEF TurnsInTime, Early, Ahead
    <2>7. CASE at[t] # <<w, curIndex[w]>>
      <3>1. p = at[t]
        BY <2>5, <2>7 DEF run
      <3>2. CASE Early(at[t], ts, s)
        <4>1. p \in Slots /\ p[2] < Scales[p[1]] /\ p # <<w, curIndex[w]>> /\ Early(p, ts, s)
          BY <2>1, <2>7, <3>1, <3>2, Typed DEF BaseInv, RemoverOK
        <4>2. Early(p, ts, s)'
          BY <2>4, <4>1, TurnStaysEarly
        <4> QED BY <2>2, <2>3, <4>2
      <3>3. CASE LastChance(t, s)
        <4>1. w # Leaf /\ at[t] = <<Leaf, curIndex[Leaf]>>
          BY <2>7, <3>3 DEF LastChance, Current
        <4>2. curIndex'[Leaf] = curIndex[Leaf]
          BY <1>3, <4>1, LeafIsWheel
        <4>3. LastChance(t, s)'
          BY <1>1, <1>2, <2>5, <3>1, <3>3, <4>1, <4>2 DEF LastChance, Current
        <4> QED BY <2>2, <2>3, <4>3
      <3> QED BY <2>2, <2>3, <3>2, <3>3 DEF TurnsInTime
    <2>8. CASE at[t] = <<w, curIndex[w]>>
      <3>1. p = addTimer(w, ts, TRUE)
        BY <2>3, <2>5, <2>8 DEF run
      <3>2. CASE \E v \in w..Wheels, k \in Nat : Forward(p, v, k, ts)
        <4>1. PICK v, k : Forward(p, v, k, ts)
          BY <3>2
        <4> QED BY <2>4, <4>1, TurnForwardEarly
      <3>3. CASE p = <<Leaf, IF w = Leaf THEN (curIndex[Leaf] + 1) % Scales[Leaf] ELSE curIndex[Leaf]>>
        <4>1. p = <<Leaf, curIndex'[Leaf]>>
          BY <1>3, <1>4, <3>3, LeafIsWheel
        <4>2. CASE LastChance(t, s)
          <5>1. LastChance(t, s)'
            BY <1>1, <1>2, <2>5, <4>1, <4>2 DEF LastChance, Current
          <5> QED BY <2>2, <2>3, <5>1
        <4>3. CASE Early(at[t], ts, s)
          <5>1. now <= ts + s
            <6>1. at[t][1] = w /\ at[t][2] = curIndex[w] /\ Interval[w] \in Nat /\ curIndex[w] \in Nat /\ now \in Nat
              BY <2>8, Typed DEF BaseInv
            <6>2. Ahead(w, curIndex[w]) = 0 /\ 0 * Interval[w] = 0
              BY <6>1 DEF Ahead
            <6>3. wake[w] + 0 * Interval[w] <= ts + s \/ now <= ts + s
              BY <4>3, <6>1, <6>2 DEF Early
            <6> QED BY <1>1, <6>1, <6>2, <6>3
          <5>2. p[1] = Leaf /\ p[2] = curIndex'[Leaf]
            BY <4>1
          <5>3. Ahead(Leaf, curIndex[Leaf])' = 0
            BY <1>4 DEF Ahead
          <5>4. Early(p, ts, s)'
            BY <1>1, <5>1, <5>2, <5>3 DEF Early, Ahead
          <5> QED BY <2>2, <2>3, <5>4
        <4> QED BY <2>2, <2>3, <4>2, <4>3 DEF TurnsInTime
      <3> QED BY <2>4, <3>1, <3>2, <3>3, PlacedTurn DEF BaseInv
    <2> QED BY <2>7, <2>8
  <1>6. \A x \in poll'.scan : Due(x)' /\ InTime(timer[x])'
    BY <1>1 DEF TurnsInv, Due, InTime
  <1>7. CalledInTime'
    BY <1>1 DEF TurnsInv, CalledInTime, InTime
  <1> QED BY <1>1, <1>5, <1>6, <1>7 DEF TurnsInv

LEMMA PollStartTurns ==
  ASSUME BaseInv, TurnsInv, PollStart
  PROVE  TurnsInv'
  <1>1. /\ poll'.pc = "scan" /\ poll'.scan = {t \in Current : Due(t)} /\ poll'.list = {}
        /\ UNCHANGED <<now, curIndex, wake, timer, at>>
    BY DEF PollStart, Idle
  <1>2. ASSUME NEW t \in Timers, at[t] # None
        PROVE  \E s \in Slack(timer[t].delay) : TurnsInTime(t, s)'
    <2>1. PICK s \in Slack(timer[t].delay) : TurnsInTime(t, s)
      BY <1>2 DEF TurnsInv
    <2>2. timer[t].unixts \in Nat /\ s \in Nat /\ now \in Nat
      BY <1>2, <2>1, InSlotBorn, RecordTyped, SlackNat, Typed DEF BaseInv
    <2>3. LastChance(t, s) => t \in poll'.scan
      <3>1. HAVE LastChance(t, s)
      <3>2. t \in Current /\ now = timer[t].unixts + s + 1
        BY <3>1 DEF LastChance
      <3>3. MaxTimeDelay \in Nat
        BY TimeWheelAssumption
      <3>4. timer[t].unixts < now + MaxTimeDelay
        BY <2>2, <3>2, <3>3
      <3>5. Due(t)
        BY <3>4 DEF Due
      <3> QED BY <1>1, <3>2, <3>5
    <2>4. TurnsInTime(t, s)'
      BY <1>1, <2>1, <2>3, StaysInTime
    <2> QED BY <2>4
  <1>3. \A t \in poll'.scan : Due(t)' /\ InTime(timer[t])'
    <2>1. \A t \in poll'.scan : Due(t) /\ InTime(timer[t])
      BY <1>1, InSlotBorn, ScanInTime DEF Current, BaseInv
    <2> QED BY <1>1, <2>1 DEF Due, InTime
  <1>4. CalledInTime'
    BY <1>1 DEF CalledInTime
  <1> QED BY <1>1, <1>2, <1>3, <1>4 DEF TurnsInv

LEMMA PollVisitTurns ==
  ASSUME BaseInv, TurnsInv, NEW t \in Timers, PollVisit(t)
  PROVE  TurnsInv'
  <1>1. /\ UNCHANGED <<now, curIndex, wake, timer>> /\ poll.pc = "scan" /\ poll'.scan = poll.scan \ {t}
        /\ poll'.list = {x \in poll.list : x.id # t} \cup {[id |-> t, timer |-> timer[t]]}
        /\ \A x \in Timers : x # t => at'[x] = at[x]
        /\ at'[t] = IF t \in Current THEN None ELSE at[t]
    BY VisitFacts
  <1>2. ASSUME NEW x \in Timers, at'[x] # None
        PROVE  \E s \in Slack(timer[x].delay) : TurnsInTime(x, s)'
    <2>1. at'[x] = at[x] /\ at[x] # None /\ (x = t => t \notin Current)
      BY <1>1, <1>2
    <2>2. PICK s \in Slack(timer[x].delay) : TurnsInTime(x, s)
      BY <2>1 DEF TurnsInv
    <2>3. LastChance(x, s) => x \in poll'.scan
      BY <1>1, <2>1 DEF LastChance
    <2>4. TurnsInTime(x, s)'
      BY <1>1, <2>1, <2>2, <2>3, StaysInTime
    <2> QED BY <2>4
  <1>3. \A x \in poll'.scan : Due(x)' /\ InTime(timer[x])'
    BY <1>1 DEF TurnsInv, Due, InTime
  <1>4. timer[t].unixts < now + MaxTimeDelay /\ InTime(timer[t])
    <2>1. CASE t \in poll.scan
      BY <2>1 DEF TurnsInv, Due
    <2>2. CASE t \in Current /\ Due(t)
      BY <2>2, InSlotBorn, ScanInTime DEF Due, BaseInv
    <2> QED BY <2>1, <2>2 DEF PollVisit
  <1>5. CalledInTime'
    <2> SUFFICES ASSUME NEW x \in poll'.list
                 PROVE  x.timer.unixts < now + MaxTimeDelay /\ InTime(x.timer)
      BY <1>1 DEF CalledInTime, InTime
    <2>1. x \in poll.list \/ x.timer = timer[t]
      BY <1>1
    <2> QED BY <1>4, <2>1 DEF TurnsInv, CalledInTime
  <1> QED BY <1>1, <1>2, <1>3, <1>5 DEF TurnsInv

LEMMA PollReaddTurns ==
  ASSUME BaseInv, TurnsInv, PollReadd
  PROVE  TurnsInv'
  <1>1. PICK t \in Timers, r \in TimerRecords, p \in Slots : Readds(t, r, p)
    BY ReaddFacts
  <1> USE DEF Readds
  <1>2. PICK d \in Nat : d = timer[t].Interval
    BY <1>1, RecordTyped
  <1>3. /\ timer'[t].unixts = now + d /\ timer'[t].delay = d /\ at'[t] = p
        /\ \A x \in Timers : x # t => timer'[x] = timer[x] /\ at'[x] = at[x]
    BY <1>1, <1>2 DEF BaseInv, WheelTypeOK
  <1>4. PICK s \in Slack(d) : Early(p, now + d, s)
    BY <1>1, <1>2, NewEarly DEF BaseInv
  <1>5. TurnsInTime(t, s)'
    <2>1. PICK ts : ts = now + d
      OBVIOUS
    <2>2. Early(p, ts, s)'
      BY <1>1, <1>4, <2>1 DEF Early, Ahead
    <2> QED BY <1>3, <2>1, <2>2 DEF TurnsInTime, Early, Ahead
  <1>6. ASSUME NEW x \in Timers, x # t, at'[x] # None
        PROVE  \E q \in Slack(timer'[x].delay) : TurnsInTime(x, q)'
    <2>1. PICK q \in Slack(timer[x].delay) : TurnsInTime(x, q)
      BY <1>3, <1>6 DEF TurnsInv
    <2>2. TurnsInTime(x, q)'
      BY <1>1, <1>3, <1>6, <2>1, StaysInTime
    <2> QED BY <1>3, <1>6, <2>1, <2>2
  <1>7. \A x \in Timers : at'[x] # None => \E q \in Slack(timer'[x].delay) : TurnsInTime(x, q)'
    BY <1>3, <1>5, <1>6
  <1>8. \A x \in poll'.scan : Due(x)' /\ InTime(timer[x])'
    <2> SUFFICES ASSUME NEW x \in poll.scan PROVE Due(x)' /\ InTime(timer[x])'
      BY <1>1
    <2>1. x \in Timers /\ x # t
      BY <1>1 DEF BaseInv, WheelTypeOK, Polls
    <2>2. timer'[x] = timer[x] /\ Due(x) /\ InTime(timer[x])
      BY <1>3, <2>1 DEF TurnsInv
    <2> QED BY <1>1, <2>2 DEF Due, InTime
  <1>9. CalledInTime'
    BY <1>1 DEF TurnsInv, CalledInTime, InTime
  <1> QED BY <1>1, <1>7, <1>8, <1>9 DEF TurnsInv, Slack

LEMMA PollEndTurns ==
  ASSUME BaseInv, TurnsInv, PollEnd
  PROVE  TurnsInv'
  <1>1. /\ poll.pc = "scan" /\ poll.scan = {} /\ poll'.pc = "sleep" /\ poll'.scan = {} /\ poll'.list = {}
        /\ wake' = [wake EXCEPT ![Poller] = now + 1]
        /\ UNCHANGED <<now, curIndex, timer, at>>
    BY DEF PollEnd, Idle
  <1>2. \A w \in 1..Wheels : wake'[w] = wake[w]
    BY <1>1, Typed DEF BaseInv, WheelTypeOK, Poller
  <1>3. ASSUME NEW t \in Timers, at[t] # None
        PROVE  \E s \in Slack(timer[t].delay) : TurnsInTime(t, s)'
    <2>1. PICK s \in Slack(timer[t].delay) : TurnsInTime(t, s)
      BY <1>3 DEF TurnsInv
    <2>2. ~LastChance(t, s)
      BY <1>1 DEF LastChance
    <2>3. at[t][1] \in 1..Wheels
      BY <1>3, Typed, SlotParts DEF BaseInv
    <2>4. TurnsInTime(t, s)'
      BY <1>1, <1>2, <2>1, <2>2, <2>3, LeafIsWheel DEF TurnsInTime, Early, Ahead
    <2> QED BY <2>4
  <1>4. CalledInTime'
    BY <1>1 DEF CalledInTime
  <1> QED BY <1>1, <1>3, <1>4 DEF TurnsInv

LEMMA RemoveTurns ==
  ASSUME BaseInv, TurnsInv, NEW t \in Timers, RomoveTimer(t)
  PROVE  TurnsInv'
  <1>1. /\ UNCHANGED <<now, curIndex, wake, timer>> /\ poll'.pc = poll.pc /\ poll'.list = poll.list
        /\ poll'.scan \subseteq poll.scan
        /\ \A x \in Timers : x \in poll.scan /\ at'[x] # None => x \in poll'.scan
        /\ \A x \in Timers : at'[x] # None => at'[x] = at[x]
    BY RemoveFacts
  <1>2. ASSUME NEW x \in Timers, at'[x] # None
        PROVE  \E s \in Slack(timer[x].delay) : TurnsInTime(x, s)'
    <2>1. at'[x] = at[x] /\ at[x] # None
      BY <1>1, <1>2
    <2>2. PICK s \in Slack(timer[x].delay) : TurnsInTime(x, s)
      BY <2>1 DEF TurnsInv
    <2>3. TurnsInTime(x, s)'
      BY <1>1, <1>2, <2>1, <2>2, StaysInTime
    <2> QED BY <2>3
  <1>3. \A x \in poll'.scan : Due(x)' /\ InTime(timer[x])'
    BY <1>1 DEF TurnsInv, Due, InTime
  <1>4. CalledInTime'
    BY <1>1 DEF TurnsInv, CalledInTime, InTime
  <1> QED BY <1>1, <1>2, <1>3, <1>4 DEF TurnsInv

LEMMA TickTurns ==
  ASSUME BaseInv, TurnsInv, Tick
  PROVE  TurnsInv'
  <1>1. now' = now + 1 /\ UNCHANGED <<curIndex, wake, timer, at, poll>>
    BY DEF Tick
  <1>2. wake[Poller] > now /\ wake[Poller] <= now + 1 /\ wake[Poller] \in Nat /\ now \in Nat
    <2>1. Poller \in 1..Poller
      BY Typed DEF Poller, BaseInv
    <2> QED BY <2>1, Typed DEF Tick, BaseInv, ClockOK
  <1>3. poll.pc = "sleep" /\ poll.scan = {} /\ poll.list = {} /\ wake[Poller] = now + 1
    BY <1>2 DEF BaseInv, PollOK
  <1>4. ASSUME NEW t \in Timers, at[t] # None
        PROVE  \E s \in Slack(timer[t].delay) : TurnsInTime(t, s)'
    <2>1. PICK s \in Slack(timer[t].delay) : TurnsInTime(t, s)
      BY <1>4 DEF TurnsInv
    <2>2. timer[t].unixts \in Nat /\ s \in Nat
      BY <1>4, <2>1, InSlotBorn, RecordTyped, SlackNat DEF BaseInv
    <2>3. Early(at[t], timer[t].unixts, s)
      BY <1>2, <2>1 DEF TurnsInTime, LastChance
    <2>4. PICK w, i : w = at[t][1] /\ i = at[t][2] /\ w \in 1..Wheels /\ i \in Nat /\ at[t] = <<w, i>>
                      /\ i < Scales[w]
      BY <1>4, Typed, SlotParts DEF BaseInv, RemoverOK
    <2>5. CASE w = Leaf /\ Ahead(w, i) = 0
      <3>1. now <= timer[t].unixts + s
        BY <2>3, <2>4, <2>5, LeafIsWheel DEF Early
      <3>2. CASE now + 1 <= timer[t].unixts + s
        BY <1>1, <2>4, <2>5, <3>2 DEF TurnsInTime, Early, Ahead
      <3>3. CASE ~(now + 1 <= timer[t].unixts + s)
        <4>1. now + 1 = timer[t].unixts + s + 1
          BY <1>2, <2>2, <3>1, <3>3
        <4>2. i = curIndex[Leaf]
          BY <2>4, <2>5, AheadNat DEF BaseInv
        <4>3. LastChance(t, s)'
          BY <1>1, <1>3, <2>4, <2>5, <4>1, <4>2 DEF LastChance, Current
        <4> QED BY <4>3 DEF TurnsInTime
      <3> QED BY <3>2, <3>3
    <2>6. CASE ~(w = Leaf /\ Ahead(w, i) = 0)
      <3>1. Early(at[t], timer[t].unixts, s)'
        BY <1>1, <2>3, <2>4, <2>6 DEF Early, Ahead
      <3> QED BY <3>1 DEF TurnsInTime
    <2> QED BY <2>5, <2>6
  <1>5. CalledInTime'
    BY <1>1, <1>3 DEF CalledInTime
  <1> QED BY <1>1, <1>3, <1>4, <1>5 DEF TurnsInv

LEMMA TurnsStep ==
  ASSUME BaseInv, BaseInv', TurnsInv, [Next]_vars
  PROVE  TurnsInv'
  <1>1. CASE UNCHANGED vars
    BY <1>1 DEF vars, TurnsInv, TurnsInTime, Early, Ahead, LastChance, Current, CalledInTime, InTime, Due
  <1> QED BY <1>1, CreateTurns, RunTurns, PollStartTurns, PollVisitTurns, PollReaddTurns, PollEndTurns,
          RemoveTurns, TickTurns DEF Next

LEMMA TurnsInvariant == Spec => [](BaseInv /\ TurnsInv)
  <1>1. BaseInv /\ TurnsInv /\ [Next]_vars => (BaseInv /\ TurnsInv)'
    BY BaseStep, TurnsStep
  <1> QED BY <1>1, BaseInit, TurnsInit, PTL DEF Spec

\* Whatever wheels there are, and however turns, cascades, polls and removals interleave,
\* no timer in a slot is overdue by more than the poller's period and one slot of a higher
\* wheel that its delay was long enough for.
THEOREM OverdueBounded == Spec => []NeverOverdue
  <1>1. BaseInv /\ TurnsInv => NeverOverdue
    BY ScanInTime DEF NeverOverdue, Armed
  <1> QED BY <1>1, TurnsInvariant, PTL

\* Every function the poller is about to call is called no earlier than its look-ahead
\* and no later than that bound.
THEOREM CallsInTime == Spec => []CalledInTime
  <1>1. TurnsInv => CalledInTime
    BY DEF TurnsInv
  <1> QED BY <1>1, TurnsInvariant, PTL

-----------------------------------------------------------------------------
(* As often as asked *)

\* What the types say of a timer's counts.
LEMMA Counts ==
  ASSUME BaseInv, NEW t \in Timers, timer[t] # None
  PROVE  /\ timer[t] \in TimerRecords
         /\ fires[t] \in Nat /\ timer[t].times \in Nat /\ timer[t].times >= 1 /\ timer[t].asked \in Nat
         /\ timer[t].unixts \in Nat /\ now \in Nat
  <1>1. timer[t] \in TimerRecords
    BY Typed DEF BaseInv
  <1> QED BY <1>1, RecordTyped, Typed DEF BaseInv, BornOK

\* A timer whose record and place, and whose place in the poller's hands, do not change.
LEMMA CountStays ==
  ASSUME NEW t \in Timers, CountOK(t), now' = now, curIndex' = curIndex,
         at'[t] = at[t], timer'[t] = timer[t], fires'[t] = fires[t], visit'[t] = visit[t],
         Listed(t)' <=> Listed(t), t \in poll'.scan <=> t \in poll.scan,
         (poll'.pc = "readd" /\ poll'.id = t) <=> (poll.pc = "readd" /\ poll.id = t)
  PROVE  CountOK(t)'
  <1>1. Taken(t)' = Taken(t) /\ (Due(t)' <=> Due(t)) /\ (t \in Current' <=> t \in Current)
    BY DEF Taken, Due, Current
  <1> QED BY <1>1 DEF CountOK

LEMMA CountInit == Init => CountInv
  BY DEF Init, CountInv

LEMMA CreateCount ==
  ASSUME BaseInv, BaseInv', CountInv,
         NEW t \in Timers, NEW d \in Delays, NEW n \in 1..MaxTimes, NEW i \in Periods,
         CreateTimerAfter(t, d, n, i)
  PROVE  CountInv'
  <1>1. /\ timer[t] = None /\ timer'[t].times = n /\ timer'[t].asked = n
        /\ \A x \in Timers : x # t => timer'[x] = timer[x] /\ at'[x] = at[x]
        /\ UNCHANGED <<now, curIndex, wake, poll, visit, fires>>
    BY DEF CreateTimerAfter, NewTimerAfter, BaseInv, WheelTypeOK
  <1>2. at'[t] # None
    <2>1. d \in Nat /\ now + d \in Nat
      BY TimeWheelAssumption, Typed DEF BaseInv
    <2>2. PICK p : p = addTimer(1, now + d, FALSE)
      OBVIOUS
    <2>3. p # None
      BY <2>1, <2>2, NewSlot, SlotParts DEF BaseInv
    <2> QED BY <2>2, <2>3 DEF CreateTimerAfter, BaseInv, WheelTypeOK
  <1>3. fires[t] = 0 /\ ~Listed(t) /\ t \notin poll.scan /\ ~(poll.pc = "readd" /\ poll.id = t)
    BY <1>1 DEF BaseInv, UnbornOK, PollOK
  <1>4. CountOK(t)'
    <2>1. Taken(t)' = 0 /\ ~Listed(t)' /\ t \notin poll'.scan /\ ~(poll'.pc = "readd" /\ poll'.id = t)
      BY <1>1, <1>3 DEF Taken, Listed
    <2> QED BY <1>1, <1>2, <2>1 DEF CountOK
  <1>5. ASSUME NEW x \in Timers, x # t, timer'[x] # None
        PROVE  CountOK(x)'
    <2>1. CountOK(x)
      BY <1>1, <1>5 DEF CountInv
    <2>2. Listed(x)' <=> Listed(x)
      BY <1>1 DEF Listed
    <2> QED BY <1>1, <1>5, <2>1, <2>2, CountStays
  <1> QED BY <1>4, <1>5 DEF CountInv

LEMMA RunCount ==
  ASSUME Separated, BaseInv, BaseInv', CountInv, NEW w \in 1..Wheels, run(w)
  PROVE  CountInv'
  <1>1. /\ UNCHANGED <<now, timer, visit, fires>>
        /\ curIndex' = [curIndex EXCEPT ![w] = (@ + 1) % Scales[w]]
        /\ poll'.pc = poll.pc /\ poll'.scan = poll.scan /\ poll'.list = poll.list /\ poll'.id = poll.id
    BY DEF run, BaseInv, WheelTypeOK
  <1>2. SUFFICES ASSUME NEW t \in Timers, timer[t] # None PROVE CountOK(t)'
    BY <1>1 DEF CountInv
  <1>3. CountOK(t)
    BY <1>2 DEF CountInv
  <1>4. /\ Taken(t)' = Taken(t) /\ (Listed(t)' <=> Listed(t)) /\ (Due(t)' <=> Due(t))
        /\ t \in poll'.scan <=> t \in poll.scan
    BY <1>1 DEF Taken, Listed, Due
  <1>5. at'[t] = None <=> at[t] = None
    <2>1. CASE at[t] = <<w, curIndex[w]>>
      <3>1. <<w, curIndex[w]>> # None
        BY Typed, SlotPair DEF BaseInv
      <3>2. PICK p : p = addTimer(w, timer[t].unixts, TRUE)
        OBVIOUS
      <3>3. p \in Slots
        BY <1>2, <3>2, Counts, TurnedSlot DEF BaseInv
      <3>4. at'[t] = p
        BY <2>1, <3>2 DEF run
      <3> QED BY <2>1, <3>1, <3>3, <3>4, SlotParts
    <2>2. CASE at[t] # <<w, curIndex[w]>>
      BY <2>2 DEF run
    <2> QED BY <2>1, <2>2
  <1>6. ASSUME t \in poll.scan, at[t] # None
        PROVE  t \in Current'
    <2>1. at[t] = <<Leaf, curIndex[Leaf]>> /\ Due(t)
      BY <1>3, <1>6 DEF CountOK, Current
    <2>2. CASE w # Leaf
      <3>1. curIndex'[Leaf] = curIndex[Leaf]
        BY <1>1, <2>2, LeafIsWheel DEF BaseInv, WheelTypeOK
      <3>2. at'[t] = at[t]
        <4>1. at[t] # <<w, curIndex[w]>>
          BY <2>1, <2>2
        <4> QED BY <4>1 DEF run
      <3> QED BY <2>1, <3>1, <3>2 DEF Current
    <2>3. CASE w = Leaf
      <3>1. PICK ts : ts = timer[t].unixts
        OBVIOUS
      <3>2. PICK p : p = addTimer(w, ts, TRUE)
        OBVIOUS
      <3>3. at'[t] = p
        BY <2>1, <2>3, <3>1, <3>2 DEF run
      <3>4. ts \in Nat /\ now \in Nat /\ ts < now + Interval[Leaf]
        <4>1. ts \in Nat /\ now \in Nat
          BY <1>2, <3>1, Counts
        <4>2. ts < now + MaxTimeDelay /\ MaxTimeDelay <= Interval[Leaf]
          BY <2>1, <3>1 DEF Due, Separated
        <4>3. MaxTimeDelay \in Nat /\ Interval[Leaf] \in Nat
          BY LeafIsWheel, Typed, TimeWheelAssumption DEF BaseInv
        <4> QED BY <4>1, <4>2, <4>3
      <3>5. ~\E v \in w..Wheels, k \in Nat : Forward(p, v, k, ts)
        <4> SUFFICES ASSUME NEW v \in w..Wheels, NEW k \in Nat, Forward(p, v, k, ts) PROVE FALSE
          OBVIOUS
        <4>1. v = Leaf /\ ts >= now + Interval[v]
          BY <2>3, LeafIsWheel DEF Forward, Leaf
        <4>2. Interval[Leaf] \in Nat
          BY LeafIsWheel, Typed DEF BaseInv
        <4> QED BY <3>4, <4>1, <4>2
      <3>6. p = <<Leaf, (curIndex[Leaf] + 1) % Scales[Leaf]>>
        BY <2>3, <3>2, <3>4, <3>5, PlacedTurn DEF BaseInv
      <3>7. curIndex'[Leaf] = (curIndex[Leaf] + 1) % Scales[Leaf]
        BY <1>1, <2>3 DEF BaseInv, WheelTypeOK
      <3> QED BY <3>3, <3>6, <3>7 DEF Current
    <2> QED BY <2>2, <2>3
  <1> QED BY <1>1, <1>3, <1>4, <1>5, <1>6 DEF CountOK

LEMMA PollStartCount ==
  ASSUME BaseInv, CountInv, PollStart
  PROVE  CountInv'
  <1>1. /\ poll.pc = "sleep" /\ poll'.pc = "scan" /\ poll'.scan = {t \in Current : Due(t)} /\ poll'.list = {}
        /\ poll.scan = {} /\ poll.list = {}
        /\ UNCHANGED <<now, curIndex, wake, timer, at, visit, fires>>
    BY DEF PollStart, Idle, BaseInv, PollOK
  <1>2. SUFFICES ASSUME NEW t \in Timers, timer[t] # None PROVE CountOK(t)'
    BY <1>1 DEF CountInv
  <1>3. CountOK(t)
    BY <1>2 DEF CountInv
  <1>4. Taken(t)' = Taken(t) /\ ~Listed(t)' /\ (Due(t)' <=> Due(t)) /\ (t \in Current' <=> t \in Current)
    BY <1>1 DEF Taken, Listed, Due, Current
  <1>5. t \in Current => at[t] # None
    BY InSlotBorn DEF BaseInv
  <1> QED BY <1>1, <1>3, <1>4, <1>5 DEF CountOK

LEMMA PollVisitCount ==
  ASSUME BaseInv, CountInv, NEW t \in Timers, PollVisit(t)
  PROVE  CountInv'
  <1>1. /\ UNCHANGED <<now, curIndex, wake, timer, visit, fires>> /\ poll.pc = "scan"
        /\ poll'.scan = poll.scan \ {t} /\ timer[t] # None
        /\ timer[t].times <= 1 => poll'.pc = "scan" /\ poll'.id = None
        /\ ~(timer[t].times <= 1) => poll'.pc = "readd" /\ poll'.id = t
        /\ \A x \in Timers : Listed(x)' <=> Listed(x) \/ x = t
        /\ \A x \in Timers : x # t => at'[x] = at[x]
        /\ at'[t] = IF t \in Current THEN None ELSE at[t]
    BY VisitFacts
  <1>2. CountOK(t) /\ (t \in Current => at[t] # None)
    BY <1>1, InSlotBorn DEF CountInv, BaseInv
  <1>3. ~Listed(t) /\ Taken(t) = fires[t] /\ fires[t] + timer[t].times = timer[t].asked
        /\ (at[t] # None => t \in Current)
    <2>1. ~Listed(t) /\ (at[t] # None \/ t \in poll.scan) /\ (at[t] # None => t \in Current)
      BY <1>2 DEF PollVisit, CountOK
    <2>2. Taken(t) = fires[t]
      BY <1>1, <2>1, Counts DEF Taken
    <2> QED BY <1>2, <2>1, <2>2 DEF CountOK
  <1>4. CountOK(t)'
    <2>1. Listed(t)' /\ at'[t] = None /\ t \notin poll'.scan
      BY <1>1, <1>3
    <2>2. Taken(t)' = fires[t] + 1
      BY <1>1, <2>1 DEF Taken
    <2>3. CASE timer[t].times <= 1
      <3>1. fires[t] + 1 = timer[t].asked
        BY <1>1, <1>3, <2>3, Counts
      <3> QED BY <1>1, <2>1, <2>2, <2>3, <3>1, Counts DEF CountOK
    <2>4. CASE ~(timer[t].times <= 1)
      <3>1. fires[t] + 1 <= timer[t].asked
        BY <1>1, <1>3, <2>4, Counts
      <3> QED BY <1>1, <1>3, <2>1, <2>2, <2>4, <3>1 DEF CountOK
    <2> QED BY <2>3, <2>4
  <1>5. ASSUME NEW x \in Timers, x # t, timer[x] # None
        PROVE  CountOK(x)'
    <2>1. CountOK(x) /\ x # None
      BY <1>5, TimeWheelAssumption DEF CountInv
    <2>2. ~(poll'.pc = "readd" /\ poll'.id = x)
      BY <1>1, <1>5
    <2> QED BY <1>1, <1>5, <2>1, <2>2, CountStays
  <1> QED BY <1>1, <1>4, <1>5 DEF CountInv

LEMMA PollReaddCount ==
  ASSUME Separated, BaseInv, CountInv, PollReadd
  PROVE  CountInv'
  <1>1. PICK t \in Timers, r \in TimerRecords, p \in Slots : Readds(t, r, p)
    BY ReaddFacts
  <1> USE DEF Readds
  <1>2. /\ timer'[t] = r /\ at'[t] = p /\ p # None /\ timer[t] # None
        /\ \A x \in Timers : x # t => timer'[x] = timer[x] /\ at'[x] = at[x]
    BY <1>1, RecordTyped, SlotParts DEF BaseInv, WheelTypeOK
  <1>3. \A x \in Timers : Listed(x)' <=> Listed(x)
    BY <1>1 DEF Listed
  <1>4. CountOK(t)'
    <2>1. CountOK(t)
      BY <1>2 DEF CountInv
    <2>2. Listed(t) /\ fires[t] + timer[t].times = timer[t].asked
      BY <1>1, <2>1 DEF CountOK
    <2>3. Taken(t)' = fires[t] + 1
      BY <1>1, <1>3, <2>2 DEF Taken
    <2>4. fires[t] + 1 + r.times = r.asked /\ fires[t] + 1 <= r.asked
      BY <1>1, <1>2, <2>2, Counts
    <2>5. ~Due(t)'
      <3>1. timer[t].Interval \in Periods /\ timer[t].Interval \in Nat /\ now \in Nat /\ MaxTimeDelay \in Nat
        BY <1>1, <1>2, RecordTyped, Typed, TimeWheelAssumption DEF BaseInv, BornOK
      <3>2. timer[t].Interval >= MaxTimeDelay
        BY <3>1 DEF Separated
      <3>3. ~(r.unixts < now + MaxTimeDelay)
        BY <1>1, <3>1, <3>2
      <3> QED BY <1>1, <1>2, <3>3 DEF Due
    <2> QED BY <1>1, <1>2, <2>3, <2>4, <2>5 DEF CountOK
  <1>5. ASSUME NEW x \in Timers, x # t, timer'[x] # None
        PROVE  CountOK(x)'
    <2>1. CountOK(x)
      BY <1>2, <1>5 DEF CountInv
    <2>2. (poll'.pc = "readd" /\ poll'.id = x) <=> (poll.pc = "readd" /\ poll.id = x)
      BY <1>1, <1>5
    <2> QED BY <1>1, <1>2, <1>3, <1>5, <2>1, <2>2, CountStays
  <1> QED BY <1>4, <1>5 DEF CountInv

LEMMA PollEndCount ==
  ASSUME BaseInv, CountInv, PollEnd
  PROVE  CountInv'
  <1>1. /\ poll.pc = "scan" /\ poll.scan = {} /\ poll'.pc = "sleep" /\ poll'.scan = {} /\ poll'.list = {}
        /\ \A t \in Timers : fires'[t] = IF Listed(t) THEN fires[t] + 1 ELSE fires[t]
        /\ UNCHANGED <<now, curIndex, timer, at, visit>>
    BY DEF PollEnd, Idle, Listed
  <1>2. SUFFICES ASSUME NEW t \in Timers, timer[t] # None PROVE CountOK(t)'
    BY <1>1 DEF CountInv
  <1>3. CountOK(t)
    BY <1>2 DEF CountInv
  <1>4. ~Listed(t)'
    BY <1>1 DEF Listed
  <1>5. Taken(t)' = Taken(t)
    <2>1. Taken(t)' = fires'[t] + 0
      BY <1>4 DEF Taken
    <2> QED BY <1>1, <1>2, <2>1, Counts DEF Taken
  <1> QED BY <1>1, <1>3, <1>4, <1>5 DEF CountOK

LEMMA RemoveCount ==
  ASSUME BaseInv, CountInv, NEW t \in Timers, RomoveTimer(t)
  PROVE  CountInv'
  <1>1. /\ UNCHANGED <<now, curIndex, wake, timer, fires>>
        /\ poll'.pc = poll.pc /\ poll'.list = poll.list /\ poll'.id = poll.id /\ timer[t] # None
        /\ \A x \in Timers : x # t => at'[x] = at[x] /\ visit'[x] = visit[x]
        /\ visit'[t] = visit[t] + 1 /\ (at'[t] = at[t] \/ at'[t] = None)
        /\ \/ poll'.scan = poll.scan
           \/ poll'.scan = poll.scan \ {t}
    BY RemoveFacts
  <1>2. \A x \in Timers : Listed(x)' <=> Listed(x)
    BY <1>1 DEF Listed
  <1>3. CountOK(t)'
    <2>1. CountOK(t)
      BY <1>1 DEF CountInv
    <2>2. visit'[t] # 0
      BY <1>1, Typed DEF BaseInv
    <2>3. Taken(t)' = Taken(t) /\ (Due(t)' <=> Due(t))
          /\ (t \in Current /\ at'[t] # None => t \in Current')
      BY <1>1, <1>2 DEF Taken, Due, Current
    <2>4. t \in poll'.scan => t \in poll.scan
      BY <1>1
    <2> QED BY <1>1, <1>2, <2>1, <2>2, <2>3, <2>4 DEF CountOK
  <1>4. ASSUME NEW x \in Timers, x # t, timer[x] # None
        PROVE  CountOK(x)'
    <2>1. CountOK(x)
      BY <1>4 DEF CountInv
    <2> QED BY <1>1, <1>2, <1>4, <2>1, CountStays
  <1> QED BY <1>1, <1>3, <1>4 DEF CountInv

LEMMA TickCount ==
  ASSUME BaseInv, CountInv, Tick
  PROVE  CountInv'
  <1>1. now' = now + 1 /\ UNCHANGED <<curIndex, wake, timer, at, poll, visit, fires>>
    BY DEF Tick
  <1>2. poll.pc = "sleep" /\ poll.scan = {} /\ poll.list = {}
    <2>1. Poller \in 1..Poller /\ wake[Poller] \in Nat /\ now \in Nat
      BY Typed DEF Poller, BaseInv
    <2>2. wake[Poller] # now
      BY <2>1 DEF Tick
    <2> QED BY <2>2 DEF BaseInv, PollOK
  <1>3. SUFFICES ASSUME NEW t \in Timers, timer[t] # None PROVE CountOK(t)'
    BY <1>1 DEF CountInv
  <1>4. CountOK(t)
    BY <1>3 DEF CountInv
  <1>5. Taken(t)' = Taken(t) /\ ~Listed(t)'
    BY <1>1, <1>2 DEF Taken, Listed
  <1> QED BY <1>1, <1>2, <1>4, <1>5 DEF CountOK

LEMMA CountStep ==
  ASSUME Separated, BaseInv, BaseInv', CountInv, [Next]_vars
  PROVE  CountInv'
  <1>1. CASE UNCHANGED vars
    BY <1>1 DEF vars, CountInv, CountOK, Taken, Listed, Due, Current
  <1> QED BY <1>1, CreateCount, RunCount, PollStartCount, PollVisitCount, PollReaddCount, PollEndCount,
          RemoveCount, TickCount DEF Next

\* No cascade, poll or re-add loses or repeats a call: a timer that is in no wheel and was
\* not removed has been called as often as asked, whatever the wheels are, provided the
\* look-ahead of GetTimerWithIn exceeds neither a slot of the lowest wheel nor a period.
THEOREM CallsAsAsked == Separated => (Spec => []CalledAsAsked)
  <1> SUFFICES ASSUME Separated PROVE Spec => []CalledAsAsked
    OBVIOUS
  <1>1. BaseInv /\ CountInv /\ [Next]_vars => (BaseInv /\ CountInv)'
    BY BaseStep, CountStep
  <1>2. BaseInv /\ CountInv => CalledAsAsked
    <2> SUFFICES ASSUME BaseInv, CountInv, NEW t \in Armed
                 PROVE  /\ fires[t] <= timer[t].asked
                        /\ at[t] = None /\ visit[t] = 0 /\ poll.pc = "sleep" => fires[t] = timer[t].asked
      BY DEF CalledAsAsked
    <2>1. t \in Timers /\ timer[t] # None
      BY DEF Armed
    <2>2. CountOK(t) /\ fires[t] \in Nat /\ timer[t].asked \in Nat
      BY <2>1, Counts DEF CountInv
    <2>3. fires[t] <= Taken(t) /\ Taken(t) <= timer[t].asked /\ Taken(t) \in Nat
      BY <2>2 DEF CountOK, Taken
    <2>4. ASSUME at[t] = None, visit[t] = 0, poll.pc = "sleep"
          PROVE  fires[t] = timer[t].asked
      <3>1. poll.scan = {} /\ ~Listed(t)
        BY <2>4 DEF BaseInv, PollOK, Listed
      <3>2. Taken(t) = fires[t]
        BY <2>2, <3>1 DEF Taken
      <3> QED BY <2>2, <2>4, <3>1, <3>2 DEF CountOK
    <2> QED BY <2>2, <2>3, <2>4
  <1> QED BY <1>1, <1>2, BaseInit, CountInit, PTL DEF Spec
=============================================================================
