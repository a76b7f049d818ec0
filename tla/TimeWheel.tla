------------------------------ MODULE TimeWheel ------------------------------
(***************************************************************************)
(* The hierarchical timing wheels of jtimer, which every RPC timeout runs  *)
(* on: TimeWheel (timewheel.go), the TimerScheduler that polls it          *)
(* (timescheduler.go) and Timer (timer.go).                                *)
(*                                                                         *)
(* Goroutines: one per wheel, which turns it; the poller of                *)
(* TimerScheduler.Start; and those that create and remove timers. A wheel  *)
(* has a lock of its own. The poller holds the lowest wheel's lock while   *)
(* it scans the current slot, and gives it up to re-add a periodic timer.  *)
(*                                                                         *)
(* `now` counts half the poller's error margin. Sleepers wake on time and  *)
(* their work takes none: the clock moves only when nobody is due.         *)
(***************************************************************************)
EXTENDS Naturals

CONSTANTS Timers,       \* the timers created, by id
          Wheels,       \* the wheels are 1..Wheels, the highest first
          Interval,     \* the time a wheel takes for one slot
          Scales,       \* the number of its slots
          MaxTimeDelay, \* the poller takes what is due within this time
          Delays,       \* the delays timers are created with
          Periods,      \* the intervals of periodic timers
          MaxTimes,     \* how often a timer may be asked to fire
          MaxStart,     \* bound on the time timers are created at
          MaxNow,       \* bound on the clock
          None

Leaf == Wheels

\* A Timer. `delay` is the delay it was armed with and `asked` the number of calls
\* its creator asked for: both are history.
TimerRecords == [unixts : Nat, times : Nat, Interval : Nat, delay : Nat, asked : Nat]

\* The slots of all wheels.
Slots == (1..Wheels) \X Nat

ASSUME TimeWheelAssumption ==
    /\ Wheels \in Nat \ {0}
    /\ Interval \in [1..Wheels -> Nat \ {0}]
    /\ Scales \in [1..Wheels -> Nat \ {0}]
    /\ \A w \in 1..(Wheels - 1) : Interval[w] = Interval[w + 1] * Scales[w + 1]
    /\ MaxTimeDelay \in Nat \ {0}
    /\ Delays \subseteq Nat /\ Periods \subseteq Nat
    /\ MaxTimes \in Nat \ {0} /\ MaxStart \in Nat /\ MaxNow \in Nat
    /\ None \notin Slots /\ None \notin TimerRecords /\ None \notin Timers

VARIABLES now,      \* UnixMilli()
          curIndex, \* the current slot of each wheel
          wake,     \* when each wheel's goroutine and the poller wake up
          timer,    \* the Timer behind each id, None before it is created
          at,       \* the wheel and slot timerQueue has it in, None for nowhere
          poll,     \* the poller: what is left to visit and what it has taken
          visit,    \* how far RomoveTimer has come with each timer
          fires     \* history: the number of calls of each timer's function

vars == <<now, curIndex, wake, timer, at, poll, visit, fires>>

\* The poller's state: `map` is FALSE once the slot it ranges over has been
\* replaced by a new one.
Idle == [pc |-> "sleep", scan |-> {}, list |-> {}, map |-> TRUE, id |-> None]

Init ==
    /\ now = 0
    /\ curIndex = [w \in 1..Wheels |-> 0]
    /\ wake = [w \in 1..(Wheels + 1) |-> IF w <= Wheels THEN Interval[w] ELSE 0]
    /\ timer = [t \in Timers |-> None]
    /\ at = [t \in Timers |-> None]
    /\ poll = Idle
    /\ visit = [t \in Timers |-> 0]
    /\ fires = [t \in Timers |-> 0]

Poller == Wheels + 1
LeafFree == poll.pc # "scan"

-----------------------------------------------------------------------------
(* Placing a timer *)

\* Fault: a timer of the current slot is not moved on when the lowest wheel turns.
addTimerStays(w, ts, forceNext) ==
    LET due == IF ts > now THEN ts - now ELSE 0
        fits == {v \in w..Wheels : due >= Interval[v]}
        v == CHOOSE x \in fits : \A y \in fits : x <= y
    IN IF fits # {} THEN <<v, (curIndex[v] + due \div Interval[v]) % Scales[v]>>
       ELSE <<Leaf, IF forceNext THEN curIndex[Leaf] ELSE curIndex[Leaf]>>

\* addTimer on wheel w for a timer due at ts: into the slot that many intervals
\* ahead; what is due within one interval goes down to the next wheel, and on the
\* lowest one into the current slot, or the one after it when the wheel turns.
addTimer(w, ts, forceNext) ==
    LET due == IF ts > now THEN ts - now ELSE 0
        fits == {v \in w..Wheels : due >= Interval[v]}
        v == CHOOSE x \in fits : \A y \in fits : x <= y
    IN IF fits # {}
       THEN <<v, (curIndex[v] + due \div Interval[v]) % Scales[v]>>
       ELSE <<Leaf, IF forceNext /\ w = Leaf THEN (curIndex[Leaf] + 1) % Scales[Leaf]
                    ELSE curIndex[Leaf]>>

\* The Timer that fires d from now.
NewTimerAfter(d, n, i, asked) ==
    [unixts |-> now + d, times |-> n, Interval |-> i, delay |-> d, asked |-> asked]

\* CreateTimerAfter and CreateTimerAt. The scheduler's own lock only guards IdGen.
CreateTimerAfter(t, d, n, i) ==
    /\ timer[t] = None
    /\ now <= MaxStart
    /\ LET place == addTimer(1, now + d, FALSE) IN
        /\ place[1] = Leaf => LeafFree
        /\ at' = [at EXCEPT ![t] = place]
    /\ timer' = [timer EXCEPT ![t] = NewTimerAfter(d, n, i, n)]
    /\ UNCHANGED <<now, curIndex, wake, poll, visit, fires>>

-----------------------------------------------------------------------------
(* Turning a wheel *)

\* One turn of run: the timers of the current slot are placed again, then the
\* pointer moves. The wheels below are locked one at a time on the way.
run(w) ==
    LET here == {t \in Timers : at[t] = <<w, curIndex[w]>>}
        place(t) == addTimer(w, timer[t].unixts, TRUE)
    IN /\ wake[w] = now
       /\ (w = Leaf \/ \E t \in here : place(t)[1] = Leaf) => LeafFree
       /\ at' = [t \in Timers |-> IF t \in here THEN place(t) ELSE at[t]]
       /\ curIndex' = [curIndex EXCEPT ![w] = (@ + 1) % Scales[w]]
       /\ wake' = [wake EXCEPT ![w] = now + Interval[w]]
       /\ poll' = IF w = Leaf THEN [poll EXCEPT !.map = FALSE] ELSE poll
       /\ UNCHANGED <<now, timer, visit, fires>>

-----------------------------------------------------------------------------
(* The poller *)

Current == {t \in Timers : at[t] = <<Leaf, curIndex[Leaf]>>}

\* Fault: the whole slot counts as due.
DueSlot(t) == timer[t].unixts < now + Interval[Leaf] + MaxTimeDelay

\* unixts-now < duration
Due(t) == timer[t].unixts < now + MaxTimeDelay

\* GetTimerWithIn locks the lowest wheel and ranges over its current slot.
PollStart ==
    /\ poll.pc = "sleep"
    /\ wake[Poller] = now
    /\ poll' = [Idle EXCEPT !.pc = "scan", !.scan = {t \in Current : Due(t)}]
    /\ UNCHANGED <<now, curIndex, wake, timer, at, visit, fires>>

\* One iteration: the timer is taken, and deleted from what is the current slot
\* now; for a periodic one the lock is given up. An entry put into the map while
\* it is ranged over may be visited or not.
PollVisit(t) ==
    /\ poll.pc = "scan"
    /\ t \in poll.scan \/ (poll.map /\ t \in Current /\ Due(t))
    /\ at' = IF t \in Current THEN [at EXCEPT ![t] = None] ELSE at
    /\ poll' = [poll EXCEPT
            !.scan = @ \ {t},
            !.list = {x \in @ : x.id # t} \cup {[id |-> t, timer |-> timer[t]]},
            !.pc = IF timer[t].times <= 1 THEN "scan" ELSE "readd",
            !.id = IF timer[t].times <= 1 THEN None ELSE t]
    /\ UNCHANGED <<now, curIndex, wake, timer, visit, fires>>

\* Fault: the new timer keeps its count.
PollReaddSame ==
    /\ poll.pc = "readd"
    /\ LET t == poll.id
           i == timer[t].Interval
       IN /\ timer' = [timer EXCEPT ![t] = NewTimerAfter(i, timer[t].times, i, timer[t].asked)]
          /\ at' = [at EXCEPT ![t] = addTimer(1, now + i, FALSE)]
    /\ poll' = [poll EXCEPT !.pc = "scan", !.id = None]
    /\ UNCHANGED <<now, curIndex, wake, visit, fires>>

\* tw.AddTimer(tID, newtimer) without the lowest wheel's lock, which the poller
\* then takes again.
PollReadd ==
    /\ poll.pc = "readd"
    /\ LET t == poll.id
           i == timer[t].Interval
       IN /\ timer' = [timer EXCEPT ![t] =
                NewTimerAfter(i, timer[t].times - 1, i, timer[t].asked)]
          /\ at' = [at EXCEPT ![t] = addTimer(1, now + i, FALSE)]
    /\ poll' = [poll EXCEPT !.pc = "scan", !.id = None]
    /\ UNCHANGED <<now, curIndex, wake, visit, fires>>

\* The list goes into triggerChan and from there every function is called by a
\* goroutine of its own.
PollEnd ==
    /\ poll.pc = "scan"
    /\ poll.scan = {}
    /\ fires' = [t \in Timers |->
            IF \E x \in poll.list : x.id = t
            THEN fires[t] + 1 ELSE fires[t]]
    /\ poll' = Idle
    /\ wake' = [wake EXCEPT ![Poller] = now + 1]
    /\ UNCHANGED <<now, curIndex, timer, at, visit>>

-----------------------------------------------------------------------------
(* Removing a timer *)

\* TimeWheel.RemoveTimer under the lock of wheel w; the map may be the one the
\* poller ranges over.
RemoveTimer(w, t) ==
    /\ w = Leaf => LeafFree
    /\ at' = IF at[t] # None /\ at[t][1] = w THEN [at EXCEPT ![t] = None] ELSE at
    /\ poll' = IF w = Leaf /\ poll.map /\ t \in Current
               THEN [poll EXCEPT !.scan = @ \ {t}] ELSE poll

\* Fault: the wheels are visited from the lowest up.
RomoveTimerUpward(t) ==
    /\ timer[t] # None
    /\ visit[t] < Wheels
    /\ visit' = [visit EXCEPT ![t] = @ + 1]
    /\ RemoveTimer(Wheels - visit[t], t)
    /\ UNCHANGED <<now, curIndex, wake, timer, fires>>

\* RomoveTimer visits the wheels from the highest down, locking one at a time.
RomoveTimer(t) ==
    /\ timer[t] # None
    /\ visit[t] < Wheels
    /\ visit' = [visit EXCEPT ![t] = @ + 1]
    /\ RemoveTimer(visit[t] + 1, t)
    /\ UNCHANGED <<now, curIndex, wake, timer, fires>>

-----------------------------------------------------------------------------
Tick ==
    /\ now < MaxNow
    /\ \A g \in 1..Poller : wake[g] > now
    /\ \A t \in Timers : visit[t] \in {0, Wheels}
    /\ now' = now + 1
    /\ UNCHANGED <<curIndex, wake, timer, at, poll, visit, fires>>

Next ==
    \/ \E t \in Timers, d \in Delays, n \in 1..MaxTimes, i \in Periods : CreateTimerAfter(t, d, n, i)
    \/ \E w \in 1..Wheels : run(w)
    \/ PollStart \/ PollReadd \/ PollEnd
    \/ \E t \in Timers : PollVisit(t) \/ RomoveTimer(t)
    \/ Tick

Spec == Init /\ [][Next]_vars

-----------------------------------------------------------------------------
(* Properties *)

Armed == {t \in Timers : timer[t] # None}

\* How much later than asked the poller may find a timer armed with delay d in its
\* slot: one slot of a wheel it starts on or comes through, the lowest excepted.
Slack(d) == {0} \cup {Interval[w] : w \in {v \in 1..(Wheels - 1) : d >= Interval[v]}}

\* It is no later than that, and the poller's period.
InTime(tm) == \E s \in Slack(tm.delay) : now <= tm.unixts + s + 1

\* No timer is overdue by more than one slot of a wheel it was put in accounts for,
\* whichever way the wheels' turns, cascades and polls interleave. A timeout
\* shorter than one slot of the second wheel, as callRpcTimeout is, is on time; for
\* longer ones this is what the wheels achieve and not the error MaxTimeDelay that
\* the code claims (WithinMaxTimeDelay).
NeverOverdue ==
    \A t \in Armed : at[t] # None => InTime(timer[t])

\* No function is called more than the error margin before its time or later than
\* the bound of NeverOverdue, which for delays that start on a higher wheel is wider
\* than MaxTimeDelay.
CalledInTime ==
    \A x \in poll.list : x.timer.unixts < now + MaxTimeDelay /\ InTime(x.timer)

\* `MaxTimeDelay = 100 // the default maximum error`, and what Start logs an error
\* for, "not triggered within the prescribed time": every function is called within
\* MaxTimeDelay of its time. The code breaks it for a delay of more than one slot of
\* a higher wheel.
WithinMaxTimeDelay ==
    \A x \in poll.list :
        /\ x.timer.unixts <= now + MaxTimeDelay
        /\ now <= x.timer.unixts + MaxTimeDelay

\* A timer that is in no wheel any more, and was not removed, has been called as
\* often as its creator asked: no cascade, poll or re-add loses or repeats one.
CalledAsAsked ==
    \A t \in Armed :
        /\ fires[t] <= timer[t].asked
        /\ at[t] = None /\ visit[t] = 0 /\ poll.pc = "sleep" => fires[t] = timer[t].asked

\* Once RomoveTimer has returned, a timer that fires once is in no wheel: it
\* cannot slip past the remover while it moves down.
RemovedIsOut ==
    \A t \in Armed : timer[t].asked = 1 /\ visit[t] = Wheels => at[t] = None
=============================================================================
