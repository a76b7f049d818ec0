------------------------------- MODULE Events -------------------------------
(***************************************************************************)
(* Publishers and listeners of events (event/event.go).                    *)
(*                                                                         *)
(* A registration is kept twice: the publisher lists its listeners in      *)
(* mapRegListener, the listener binds the publisher to a callback in       *)
(* mapBindPublisherCb. Every map has the event type as its first key and   *)
(* no operation mixes types, so one type is modelled. A callback is        *)
(* whatever the service does with the event (module Service).              *)
(*                                                                         *)
(* BroadCastEvent and addRegListenerInfo hold the publisher's lock; the    *)
(* lookup in EventHandler and removeRegListenerInfo hold none. Module      *)
(* Service says who may call what so that this is no data race.            *)
(***************************************************************************)
EXTENDS Naturals, Sequences

CONSTANTS Listeners,   \* one per service
          Publishers,  \* one per service and per module
          Free         \* nobody holds a lock

VARIABLES mapRegListener,      \* the listeners of each publisher
          mapBindPublisherCb,  \* the publishers each listener has a callback for
          locker               \* who holds the lock of each publisher

eventVars == <<mapRegListener, mapBindPublisherCb, locker>>

\* Registrations made in OnInit, before anything runs: pairs of listener, publisher.
EventsInit(registered) ==
    /\ mapRegListener = [p \in Publishers |-> {l \in Listeners : <<l, p>> \in registered}]
    /\ mapBindPublisherCb = [l \in Listeners |-> {p \in Publishers : <<l, p>> \in registered}]
    /\ locker = [p \in Publishers |-> Free]

\* First half of RegEventCb, under the publisher's lock.
addRegListenerInfo(l, p) ==
    /\ locker[p] = Free
    /\ mapRegListener' = [mapRegListener EXCEPT ![p] = @ \cup {l}]
    /\ UNCHANGED <<mapBindPublisherCb, locker>>

\* Fault: the inner map is made anew.
addBindEventAfresh(l, p) ==
    /\ mapBindPublisherCb' = [mapBindPublisherCb EXCEPT ![l] = {p}]
    /\ UNCHANGED <<mapRegListener, locker>>

\* Second half of RegEventCb. Nobody waits while holding the listener's lock.
addBindEvent(l, p) ==
    /\ mapBindPublisherCb' = [mapBindPublisherCb EXCEPT ![l] = @ \cup {p}]
    /\ UNCHANGED <<mapRegListener, locker>>

\* UnRegEventCb: removeRegListenerInfo, without a lock, and removeBindEvent.
UnRegEventCb(l, p) ==
    /\ mapRegListener' = [mapRegListener EXCEPT ![p] = @ \ {l}]
    /\ mapBindPublisherCb' = [mapBindPublisherCb EXCEPT ![l] = @ \ {p}]
    /\ UNCHANGED locker

\* Fault: the publisher forgets its listeners, which are not told.
DestroyUntold(D) ==
    /\ \A p \in D : locker[p] = Free
    /\ mapRegListener' = [p \in Publishers |-> IF p \in D THEN {} ELSE mapRegListener[p]]
    /\ UNCHANGED <<mapBindPublisherCb, locker>>

\* Destroy of each publisher of D: UnRegEventCb of everyone it lists.
Destroy(D) ==
    /\ \A p \in D : locker[p] = Free
    /\ mapRegListener' = [p \in Publishers |-> IF p \in D THEN {} ELSE mapRegListener[p]]
    /\ mapBindPublisherCb' = [l \in Listeners |->
          mapBindPublisherCb[l] \ {p \in D : l \in mapRegListener[p]}]
    /\ UNCHANGED locker

\* EventHandler calls the callback bound to the event's publisher, if there is one.
HasCallback(l, p) == p \in mapBindPublisherCb[l]

\* BroadCastEvent takes the lock and keeps it until the event is pushed to the last
\* listener of the list.
LockPublisher(p, who) ==
    /\ locker[p] = Free
    /\ locker' = [locker EXCEPT ![p] = who]
    /\ UNCHANGED <<mapRegListener, mapBindPublisherCb>>

UnlockPublisher(p) ==
    /\ locker' = [locker EXCEPT ![p] = Free]
    /\ UNCHANGED <<mapRegListener, mapBindPublisherCb>>
=============================================================================
