------------------------------ MODULE EventBus ------------------------------
(***************************************************************************)
(* core/event_bus.py: publishing, subscribing and the bounded history.     *)
(* publish() runs in the thread of whoever publishes (a module's loop, the *)
(* gateway). It appends and takes its snapshot of the subscribers under    *)
(* the lock, then calls them one by one without it: subscriptions and      *)
(* other publishers come between.                                          *)
(*                                                                         *)
(* The n-th event published is the number n; log[n] says what it was.      *)
(* The callbacks of one event are taken in any order, which covers the     *)
(* order of the dictionary. A callback that raises is logged and           *)
(* swallowed: calling it is the same step.                                 *)
(*                                                                         *)
(* An operator marked "Mutant" is a variant of the operation after it with *)
(* a bug that is easily made; no specification uses it.                    *)
(***************************************************************************)
EXTENDS Integers, Sequences

CONSTANTS Publisher,      \* threads that publish
          Subscription,   \* subscription identifiers, each used once
          Event,          \* records [module, type, severity]
          Filter,         \* Filter[s]: what s asks for, Any where it is None
          Any,
          MaxHistory,     \* maxlen of the history
          MaxEvents       \* bound: events published in a behaviour

Severity == {"INFO", "WARNING", "CRITICAL"}
SeverityOrder == [INFO |-> 0, WARNING |-> 1, CRITICAL |-> 2]

ASSUME BusAssumption ==
    /\ MaxHistory \in Nat /\ MaxEvents \in Nat
    /\ \A e \in Event : e.severity \in Severity
    /\ \A s \in Subscription : Filter[s].severity \in Severity \union {Any}
    /\ Any \notin Severity

VARIABLES subscribers,    \* the subscriptions in _subscribers
          history,        \* _history
          eventCount,     \* _event_count
          current,        \* current[p]: the number of the event p publishes
          todo,           \* todo[p]: matching subscribers p has yet to call
          log,            \* log[n]: the n-th event and its publisher
          calls,          \* calls[s]: the events s was called with, in order
          since, until    \* s is subscribed from after event since[s] until
                          \* event until[s], once it has been removed

lists == <<subscribers, since, until>>
vars == <<lists, history, eventCount, current, todo, log, calls>>

Init == /\ subscribers = {}
        /\ history = <<>>
        /\ eventCount = 0
        /\ current = [p \in Publisher |-> 0]
        /\ todo = [p \in Publisher |-> {}]
        /\ log = <<>>
        /\ calls = [s \in Subscription |-> <<>>]
        /\ since = [s \in Subscription |-> -1]
        /\ until = [s \in Subscription |-> -1]

-----------------------------------------------------------------------------

\* _matches: every filter that is set, severity as a minimum.
Matches(e, s) ==
    /\ Filter[s].module \in {Any, e.module}
    /\ Filter[s].type \in {Any, e.type}
    /\ Filter[s].severity # Any =>
           SeverityOrder[e.severity] >= SeverityOrder[Filter[s].severity]

\* Mutant: an event too many is kept.
RememberOneMore(h, e) ==
    IF Len(h) <= MaxHistory THEN Append(h, e) ELSE Append(Tail(h), e)

\* deque(maxlen).append
Remember(h, e) == IF Len(h) < MaxHistory THEN Append(h, e) ELSE Tail(Append(h, e))

\* The part of publish() that holds the lock.
Publish(p, e) ==
    /\ todo[p] = {}
    /\ Len(log) < MaxEvents
    /\ log' = Append(log, [event |-> e, by |-> p])
    /\ history' = Remember(history, e)
    /\ eventCount' = eventCount + 1
    /\ current' = [current EXCEPT ![p] = Len(log) + 1]
    /\ todo' = [todo EXCEPT ![p] = {s \in subscribers : Matches(e, s)}]
    /\ UNCHANGED <<lists, calls>>

\* Mutant: an exception in a callback ends the dispatch.
DispatchAborted(p, s) ==
    /\ s \in todo[p]
    /\ calls' = [calls EXCEPT ![s] = Append(@, current[p])]
    /\ todo' \in {[todo EXCEPT ![p] = @ \ {s}], [todo EXCEPT ![p] = {}]}
    /\ UNCHANGED <<lists, history, eventCount, current, log>>

\* Mutant: each event's callbacks run in a thread of their own.
DispatchSpawned(p, s) ==
    /\ \E n \in 1 .. Len(log) :
           /\ log[n].by = p /\ s \in subscribers /\ Matches(log[n].event, s)
           /\ \A i \in 1 .. Len(calls[s]) : calls[s][i] # n
           /\ calls' = [calls EXCEPT ![s] = Append(@, n)]
    /\ todo' = [todo EXCEPT ![p] = @ \ {s}]
    /\ UNCHANGED <<lists, history, eventCount, current, log>>

\* One turn of publish()'s loop over its snapshot.
Dispatch(p, s) ==
    /\ s \in todo[p]
    /\ calls' = [calls EXCEPT ![s] = Append(@, current[p])]
    /\ todo' = [todo EXCEPT ![p] = @ \ {s}]
    /\ UNCHANGED <<lists, history, eventCount, current, log>>

Subscribe(s) == /\ since[s] = -1
                /\ subscribers' = subscribers \union {s}
                /\ since' = [since EXCEPT ![s] = Len(log)]
                /\ UNCHANGED <<until, history, eventCount, current, todo, log, calls>>

\* Snapshots already taken keep the subscription.
Unsubscribe(s) == /\ s \in subscribers
                  /\ subscribers' = subscribers \ {s}
                  /\ until' = [until EXCEPT ![s] = Len(log)]
                  /\ UNCHANGED <<since, history, eventCount, current, todo, log, calls>>

Next == \/ \E p \in Publisher : \/ \E e \in Event : Publish(p, e)
                                \/ \E s \in Subscription : Dispatch(p, s)
        \/ \E s \in Subscription : Subscribe(s) \/ Unsubscribe(s)

Spec == Init /\ [][Next]_vars

\* A thread that publishes gets through its callbacks: they return.
FairSpec == Spec /\ \A p \in Publisher : WF_vars(\E s \in Subscription : Dispatch(p, s))

-----------------------------------------------------------------------------
(* Properties                                                              *)

Number == 1 .. Len(log)
Called(s) == {calls[s][i] : i \in 1 .. Len(calls[s])}
InTransit(s) == {current[p] : p \in {q \in Publisher : s \in todo[q]}}

TypeOK == /\ subscribers \subseteq Subscription
          /\ history \in Seq(Event)
          /\ eventCount \in Nat
          /\ current \in [Publisher -> Nat]
          /\ todo \in [Publisher -> SUBSET Subscription]
          /\ log \in Seq([event : Event, by : Publisher])
          /\ calls \in [Subscription -> Seq(Nat)]
          /\ since \in [Subscription -> Nat \union {-1}]
          /\ until \in [Subscription -> Nat \union {-1}]

\* What subscribe() asks for: the matching events published between it and
\* unsubscribe().
Owed(s) == {n \in Number : /\ since[s] # -1 /\ since[s] < n
                           /\ until[s] # -1 => n <= until[s]
                           /\ Matches(log[n].event, s)}

\* A subscription is called with the events it is owed and no others, and what
\* has not reached it yet is on its way, whatever is subscribed, removed or
\* published meanwhile.
CalledAsOwed == \A s \in Subscription : Called(s) \union InTransit(s) = Owed(s)

\* It is never called twice with an event (PublisherOrder says as much of the
\* calls already made).
AtMostOnce == \A s \in Subscription :
    /\ \A i, j \in 1 .. Len(calls[s]) : calls[s][i] = calls[s][j] => i = j
    /\ Called(s) \intersect InTransit(s) = {}

\* A subscriber sees what one thread publishes in the order it was published;
\* between threads no order is kept, not even the history's.
PublisherOrder == \A s \in Subscription : \A i, j \in 1 .. Len(calls[s]) :
    i < j /\ log[calls[s][i]].by = log[calls[s][j]].by => calls[s][i] < calls[s][j]

\* The history holds the most recent events, in the order of their numbers, up
\* to its limit, and the counter counts all of them.
HistoryIsRecent ==
    LET dropped == Len(log) - Len(history)
    IN  /\ eventCount = Len(log)
        /\ Len(history) = IF Len(log) < MaxHistory THEN Len(log) ELSE MaxHistory
        /\ \A i \in 1 .. Len(history) : history[i] = log[dropped + i].event

\* Every event reaches everyone who is owed it, though callbacks fail and
\* subscribers come and go.
AllDelivered == \A s \in Subscription : \A n \in 1 .. MaxEvents :
    n <= Len(log) /\ n \in Owed(s) ~> n \in Called(s)

\* The strengthening behind the theorems of EventStreamProofs.
CallsInv ==
    /\ TypeOK
    /\ \A s \in Subscription :
           /\ s \in subscribers <=> since[s] # -1 /\ until[s] = -1
           /\ since[s] <= Len(log) /\ until[s] <= Len(log)
           /\ since[s] = -1 => until[s] = -1
           /\ Called(s) \subseteq Number
    /\ \A p \in Publisher : todo[p] # {} => current[p] \in Number /\ log[current[p]].by = p
    /\ \A s \in Subscription, p \in Publisher : s \in todo[p] =>
           \A n \in Called(s) : log[n].by = p => n < current[p]

\* The types, where every subscription and every publisher stands, and the
\* history at its limit.
BusInv == CallsInv /\ HistoryIsRecent
=============================================================================
