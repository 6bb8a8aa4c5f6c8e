------------------------- MODULE EventStreamProofs -------------------------
(***************************************************************************)
(* Theorems about EventBus and about EventStream, which uses it, for any   *)
(* publishers, subscriptions, filters, queries and limits.                 *)
(***************************************************************************)
EXTENDS EventStream, SequenceTheorems, TLAPS

-----------------------------------------------------------------------------
(* The bus                                                                 *)

Entry == [event : Event, by : Publisher]
BusIInv == CallsInv /\ CalledAsOwed /\ AtMostOnce /\ PublisherOrder

\* What a bounded deque holds after an append.
LEMMA Remembers ==
    ASSUME NEW h \in Seq(Event), NEW e \in Event
    PROVE  /\ Remember(h, e) \in Seq(Event)
           /\ Len(Remember(h, e)) = IF Len(h) < MaxHistory THEN Len(h) + 1 ELSE Len(h)
           /\ \A i \in 1 .. Len(Remember(h, e)) :
                  Remember(h, e)[i] =
                      Append(h, e)[IF Len(h) < MaxHistory THEN i ELSE i + 1]
           /\ \A i \in 1 .. Len(h) : Append(h, e)[i] = h[i]
           /\ Append(h, e)[Len(h) + 1] = e
  <1> DEFINE a == Append(h, e)
  <1>1. /\ a \in Seq(Event) /\ a # <<>> /\ Len(a) = Len(h) + 1 /\ Len(h) \in Nat
        /\ \A i \in 1 .. Len(h) : a[i] = h[i]
        /\ a[Len(h) + 1] = e
    BY AppendProperties, LenProperties
  <1> HIDE DEF a
  <1>2. /\ Tail(a) \in Seq(Event) /\ Len(Tail(a)) = Len(a) - 1
        /\ \A i \in 1 .. Len(Tail(a)) : Tail(a)[i] = a[i + 1]
    BY <1>1, HeadTailProperties
  <1>3. Remember(h, e) = IF Len(h) < MaxHistory THEN a ELSE Tail(a)
    BY DEF Remember, a
  <1>4. CASE Len(h) < MaxHistory
    BY <1>1, <1>3, <1>4 DEF a
  <1>5. CASE ~(Len(h) < MaxHistory)
    BY <1>1, <1>2, <1>3, <1>5 DEF a
  <1> QED
    BY <1>4, <1>5

\* An event published gets the next number; those before keep theirs.
LEMMA LogGrows ==
    ASSUME TypeOK, NEW p \in Publisher, NEW e \in Event, Publish(p, e)
    PROVE  /\ log' \in Seq(Entry) /\ Len(log') = Len(log) + 1 /\ Len(log) \in Nat
           /\ \A n \in Number : log'[n] = log[n]
           /\ log'[Len(log) + 1] = [event |-> e, by |-> p]
  <1>1. log \in Seq(Entry) /\ [event |-> e, by |-> p] \in Entry
    BY DEF TypeOK, Entry
  <1> QED
    BY <1>1, AppendProperties, LenProperties DEF Publish, Number

\* A dispatch calls one subscriber with the event in hand, after all earlier.
LEMMA CallAppends ==
    ASSUME TypeOK, NEW p \in Publisher, NEW s \in Subscription, Dispatch(p, s)
    PROVE  /\ calls' \in [Subscription -> Seq(Nat)]
           /\ \A t \in Subscription : t # s => calls'[t] = calls[t]
           /\ Len(calls[s]) \in Nat /\ Len(calls'[s]) = Len(calls[s]) + 1
           /\ \A i \in 1 .. Len(calls[s]) : calls'[s][i] = calls[s][i]
           /\ calls'[s][Len(calls[s]) + 1] = current[p]
  <1>1. calls[s] \in Seq(Nat) /\ current[p] \in Nat
    BY DEF TypeOK
  <1>2. calls'[s] = Append(calls[s], current[p])
    BY DEF Dispatch, TypeOK
  <1> QED
    BY <1>1, <1>2, AppendProperties, LenProperties DEF Dispatch, TypeOK

\* So it adds that event to what the subscriber has been called with.
LEMMA CalledGrows ==
    ASSUME TypeOK, NEW p \in Publisher, NEW s \in Subscription, Dispatch(p, s)
    PROVE  /\ Called(s)' = Called(s) \union {current[p]}
           /\ \A t \in Subscription : t # s => Called(t)' = Called(t)
  <1> DEFINE old == calls[s]
             new == calls'[s]
  <1>1. /\ \A t \in Subscription : t # s => calls'[t] = calls[t]
        /\ Len(old) \in Nat /\ Len(new) = Len(old) + 1
        /\ \A i \in 1 .. Len(old) : new[i] = old[i]
        /\ new[Len(old) + 1] = current[p]
    BY CallAppends
  <1>2. Called(s) = {old[i] : i \in 1 .. Len(old)} /\ Called(s)' = {new[i] : i \in 1 .. Len(new)}
    BY DEF Called
  <1> HIDE DEF old, new
  <1>3. 1 .. Len(new) = 1 .. Len(old) \union {Len(old) + 1}
    BY <1>1
  <1>4. \A n \in Called(s)' : n \in Called(s) \union {current[p]}
    BY <1>1, <1>2, <1>3
  <1>5. \A n \in Called(s) \union {current[p]} : n \in Called(s)'
    BY <1>1, <1>2, <1>3
  <1>6. \A t \in Subscription : t # s => Called(t)' = Called(t)
    BY <1>1 DEF Called
  <1> QED
    BY <1>4, <1>5, <1>6

\* The initial states satisfy all of it.
LEMMA DeliveryInit == Init => BusIInv
  <1> SUFFICES ASSUME Init PROVE BusIInv
    OBVIOUS
  <1>1. TypeOK
    BY DEF Init, TypeOK
  <1>2. /\ log = <<>> /\ Len(log) = 0 /\ \A s \in Subscription : Len(calls[s]) = 0
        /\ \A p \in Publisher : todo[p] = {}
        /\ \A s \in Subscription : since[s] = -1 /\ until[s] = -1 /\ s \notin subscribers
    BY DEF Init
  <1>3. \A s \in Subscription : Called(s) = {} /\ InTransit(s) = {} /\ Owed(s) = {}
    BY <1>2 DEF Called, InTransit, Owed
  <1> QED
    BY <1>1, <1>2, <1>3 DEF BusIInv, CallsInv, CalledAsOwed, AtMostOnce, PublisherOrder

\* Every step types its next state.
LEMMA TypeKept == TypeOK /\ [Next]_vars => TypeOK'
  <1> SUFFICES ASSUME TypeOK, [Next]_vars PROVE TypeOK'
    OBVIOUS
  <1> USE DEF TypeOK, lists
  <1>1. ASSUME NEW p \in Publisher, NEW e \in Event, Publish(p, e) PROVE TypeOK'
    <2>1. history' \in Seq(Event)
      BY <1>1, Remembers DEF Publish
    <2>2. log' \in Seq([event : Event, by : Publisher]) /\ Len(log) \in Nat
      BY <1>1, LogGrows DEF Entry
    <2> QED
      BY <1>1, <2>1, <2>2 DEF Publish
  <1>2. ASSUME NEW p \in Publisher, NEW s \in Subscription, Dispatch(p, s) PROVE TypeOK'
    <2>1. calls' \in [Subscription -> Seq(Nat)]
      BY <1>2, CallAppends
    <2> QED
      BY <1>2, <2>1 DEF Dispatch
  <1>3. ASSUME NEW s \in Subscription, Subscribe(s) \/ Unsubscribe(s) PROVE TypeOK'
    <2>1. Len(log) \in Nat
      BY LenProperties
    <2>2. subscribers' \subseteq Subscription
      BY <1>3 DEF Subscribe, Unsubscribe
    <2>3. /\ since' \in [Subscription -> Nat \union {-1}]
          /\ until' \in [Subscription -> Nat \union {-1}]
      <3>1. CASE Subscribe(s)
        <4>1. since' = [since EXCEPT ![s] = Len(log)] /\ until' = until
          BY <3>1 DEF Subscribe
        <4> QED
          BY <2>1, <4>1
      <3>2. CASE Unsubscribe(s)
        <4>1. until' = [until EXCEPT ![s] = Len(log)] /\ since' = since
          BY <3>2 DEF Unsubscribe
        <4> QED
          BY <2>1, <4>1
      <3> QED
        BY <1>3, <3>1, <3>2
    <2>4. UNCHANGED <<history, eventCount, current, todo, log, calls>>
      BY <1>3 DEF Subscribe, Unsubscribe
    <2> QED
      BY <2>2, <2>3, <2>4
  <1>4. CASE UNCHANGED vars
    BY <1>4 DEF vars
  <1> QED
    BY <1>1, <1>2, <1>3, <1>4 DEF Next

\* publish() under the lock gives the new event to exactly those who are owed
\* it, and disturbs no other delivery.
LEMMA PublishKeeps ==
    ASSUME BusIInv, NEW p \in Publisher, NEW e \in Event, Publish(p, e), TypeOK'
    PROVE  BusIInv'
  <1> DEFINE next == Len(log) + 1
  <1>0. /\ TypeOK /\ CallsInv /\ CalledAsOwed /\ AtMostOnce /\ PublisherOrder
        /\ UNCHANGED <<subscribers, since, until, calls>>
        /\ todo[p] = {} /\ todo' = [todo EXCEPT ![p] = {s \in subscribers : Matches(e, s)}]
        /\ current' = [current EXCEPT ![p] = next]
    BY DEF BusIInv, CallsInv, Publish, lists
  <1>1. /\ Len(log') = next /\ Len(log) \in Nat
        /\ \A n \in Number : log'[n] = log[n]
        /\ log'[next].event = e /\ log'[next].by = p
    <2>1. Publish(p, e)
      OBVIOUS
    <2>2. /\ Len(log') = next /\ Len(log) \in Nat
          /\ \A n \in Number : log'[n] = log[n]
          /\ log'[next] = [event |-> e, by |-> p]
      BY <1>0, <2>1, LogGrows
    <2> QED
      BY <2>2
  <1>2. \A s \in Subscription : Called(s)' = Called(s) /\ Called(s) \subseteq Number
    BY <1>0 DEF Called, CallsInv
  <1>3. Number' = Number \union {next} /\ next \notin Number
    BY <1>1 DEF Number
  <1>4. ASSUME NEW s \in Subscription, s \in subscribers, Matches(e, s)
        PROVE  InTransit(s)' = InTransit(s) \union {next} /\ Owed(s)' = Owed(s) \union {next}
    <2>1. InTransit(s)' = InTransit(s) \union {next}
      BY <1>0, <1>4 DEF InTransit, TypeOK
    <2>2. since[s] \in Nat /\ since[s] < next /\ until[s] = -1
      BY <1>0, <1>1, <1>4 DEF CallsInv, TypeOK
    <2>3. \A n \in Number : Matches(log'[n].event, s) <=> Matches(log[n].event, s)
      BY <1>1
    <2>4. Matches(log'[next].event, s)
      BY <1>1, <1>4
    <2> QED
      BY <1>0, <1>3, <2>1, <2>2, <2>3, <2>4 DEF Owed
  <1>5. ASSUME NEW s \in Subscription, ~(s \in subscribers /\ Matches(e, s))
        PROVE  InTransit(s)' = InTransit(s) /\ Owed(s)' = Owed(s)
    <2>1. InTransit(s)' = InTransit(s)
      BY <1>0, <1>5 DEF InTransit, TypeOK
    <2>2. \A n \in Number : Matches(log'[n].event, s) <=> Matches(log[n].event, s)
      BY <1>1
    <2>3. \/ since[s] = -1
          \/ until[s] # -1 /\ until[s] < next
          \/ ~Matches(log'[next].event, s)
      BY <1>0, <1>1, <1>5 DEF CallsInv, TypeOK
    <2>4. since[s] \in Int /\ until[s] \in Int /\ next \in Int
      BY <1>0, <1>1 DEF TypeOK
    <2> QED
      BY <1>0, <1>3, <2>1, <2>2, <2>3, <2>4 DEF Owed
  <1>6. CalledAsOwed'
    BY <1>0, <1>2, <1>4, <1>5 DEF CalledAsOwed
  <1>7. AtMostOnce'
    BY <1>0, <1>2, <1>3, <1>4, <1>5 DEF AtMostOnce
  <1>8. PublisherOrder'
    <2>1. \A s \in Subscription : \A i \in 1 .. Len(calls[s]) : calls[s][i] \in Number
      BY <1>2 DEF Called
    <2>2. \A s \in Subscription : \A i \in 1 .. Len(calls[s]) :
              log'[calls[s][i]] = log[calls[s][i]]
      BY <1>1, <2>1
    <2> QED
      BY <1>0, <2>2 DEF PublisherOrder
  <1>9. CallsInv'
    <2>1. ASSUME NEW s \in Subscription
          PROVE  /\ s \in subscribers' <=> since'[s] # -1 /\ until'[s] = -1
                 /\ since'[s] <= Len(log') /\ until'[s] <= Len(log')
                 /\ since'[s] = -1 => until'[s] = -1
                 /\ Called(s)' \subseteq Number'
      BY SMTT(30), <1>0, <1>1, <1>2, <1>3 DEF CallsInv, TypeOK
    <2>2. ASSUME NEW q \in Publisher, todo'[q] # {}
          PROVE  current'[q] \in Number' /\ log'[current'[q]].by = q
      BY <1>0, <1>1, <1>3, <2>2 DEF CallsInv, TypeOK
    <2>3. ASSUME NEW s \in Subscription, NEW q \in Publisher, s \in todo'[q],
                 NEW n \in Called(s), log'[n].by = q
          PROVE  n < current'[q]
      <3>1. n \in Number /\ log[n].by = q /\ n < next
        BY <1>1, <1>2, <2>3 DEF Number
      <3> QED
        BY <1>0, <2>3, <3>1 DEF CallsInv, TypeOK
    <2> QED
      BY <1>2, <2>1, <2>2, <2>3, TypeOK' DEF CallsInv
  <1> QED
    BY <1>6, <1>7, <1>8, <1>9 DEF BusIInv

\* A call takes its event out of transit, and no publisher carries the same
\* event, so that nothing is lost and nothing is called again.
LEMMA DispatchKeeps ==
    ASSUME BusIInv, NEW p \in Publisher, NEW s \in Subscription, Dispatch(p, s), TypeOK'
    PROVE  BusIInv'
  <1> DEFINE c == current[p]
  <1>0. /\ TypeOK /\ CallsInv /\ CalledAsOwed /\ AtMostOnce /\ PublisherOrder
        /\ UNCHANGED <<subscribers, since, until, current, log>>
        /\ s \in todo[p] /\ todo' = [todo EXCEPT ![p] = @ \ {s}]
    BY DEF BusIInv, CallsInv, Dispatch, lists
  <1>1. /\ \A t \in Subscription : t # s => calls'[t] = calls[t]
        /\ Len(calls[s]) \in Nat /\ Len(calls'[s]) = Len(calls[s]) + 1
        /\ \A i \in 1 .. Len(calls[s]) : calls'[s][i] = calls[s][i]
        /\ calls'[s][Len(calls[s]) + 1] = c
    <2>1. Dispatch(p, s)
      OBVIOUS
    <2> QED
      BY <1>0, <2>1, CallAppends
  <1>2. Called(s)' = Called(s) \union {c} /\ \A t \in Subscription : t # s => Called(t)' = Called(t)
    <2>1. Dispatch(p, s)
      OBVIOUS
    <2> QED
      BY <1>0, <2>1, CalledGrows
  <1>3. /\ c \in Number /\ log[c].by = p
        /\ \A q \in Publisher : s \in todo[q] /\ current[q] = c => q = p
    BY <1>0 DEF CallsInv
  <1>4. InTransit(s)' = InTransit(s) \ {c}
    <2>1. \A q \in Publisher : s \in todo'[q] <=> s \in todo[q] /\ q # p
      BY <1>0 DEF TypeOK
    <2>2. ASSUME NEW n \in InTransit(s)' PROVE n \in InTransit(s) /\ n # c
      BY <1>0, <1>3, <2>1, <2>2 DEF InTransit
    <2>3. ASSUME NEW n \in InTransit(s), n # c PROVE n \in InTransit(s)'
      BY <1>0, <2>1, <2>3 DEF InTransit
    <2> QED
      BY <2>2, <2>3
  <1>5. c \in InTransit(s) /\ c \notin Called(s)
    BY <1>0 DEF InTransit, AtMostOnce
  <1>6. ASSUME NEW t \in Subscription, t # s PROVE InTransit(t)' = InTransit(t)
    <2>1. \A q \in Publisher : t \in todo'[q] <=> t \in todo[q]
      BY <1>0, <1>6 DEF TypeOK
    <2> QED
      BY <1>0, <2>1 DEF InTransit
  <1>7. \A t \in Subscription : Owed(t)' = Owed(t)
    BY <1>0 DEF Owed, Number
  <1>8. CalledAsOwed'
    BY <1>0, <1>2, <1>4, <1>5, <1>6, <1>7 DEF CalledAsOwed
  <1>9. AtMostOnce'
    <2>1. ASSUME NEW i \in 1 .. Len(calls'[s]), NEW j \in 1 .. Len(calls'[s]),
                 calls'[s][i] = calls'[s][j]
          PROVE  i = j
      <3>1. \A k \in 1 .. Len(calls[s]) : calls'[s][k] # c
        BY <1>1, <1>5 DEF Called
      <3>2. \A k, l \in 1 .. Len(calls[s]) : calls[s][k] = calls[s][l] => k = l
        BY <1>0 DEF AtMostOnce
      <3>3. CASE i \in 1 .. Len(calls[s]) /\ j \in 1 .. Len(calls[s])
        <4>1. calls'[s][i] = calls[s][i] /\ calls'[s][j] = calls[s][j]
          BY <1>1, <3>3
        <4> QED
          BY <2>1, <3>2, <3>3, <4>1
      <3>4. CASE i = Len(calls[s]) + 1 \/ j = Len(calls[s]) + 1
        <4>1. (i = Len(calls[s]) + 1 => calls'[s][i] = c)
              /\ (j = Len(calls[s]) + 1 => calls'[s][j] = c)
          BY <1>1
        <4>2. \A k \in 1 .. Len(calls'[s]) : k \in 1 .. Len(calls[s]) \/ k = Len(calls[s]) + 1
          BY <1>1
        <4> QED
          BY <2>1, <3>1, <3>4, <4>1, <4>2
      <3>5. (i \in 1 .. Len(calls[s]) \/ i = Len(calls[s]) + 1)
            /\ (j \in 1 .. Len(calls[s]) \/ j = Len(calls[s]) + 1)
        BY <1>1
      <3> QED
        BY <3>3, <3>4, <3>5
    <2>2. ASSUME NEW t \in Subscription
          PROVE  /\ \A i, j \in 1 .. Len(calls'[t]) : calls'[t][i] = calls'[t][j] => i = j
                 /\ Called(t)' \intersect InTransit(t)' = {}
      <3>1. CASE t = s
        BY <1>0, <1>2, <1>4, <2>1, <3>1 DEF AtMostOnce
      <3>2. CASE t # s
        BY <1>0, <1>1, <1>2, <1>6, <3>2 DEF AtMostOnce
      <3> QED
        BY <3>1, <3>2
    <2> QED
      BY <2>2 DEF AtMostOnce
  <1>10. PublisherOrder'
    <2>1. ASSUME NEW t \in Subscription, NEW i \in 1 .. Len(calls'[t]),
                 NEW j \in 1 .. Len(calls'[t]), i < j,
                 log[calls'[t][i]].by = log[calls'[t][j]].by
          PROVE  calls'[t][i] < calls'[t][j]
      <3>1. CASE t # s
        BY <1>0, <1>1, <2>1, <3>1 DEF PublisherOrder
      <3>2. CASE t = s /\ j \in 1 .. Len(calls[s])
        <4>1. i \in 1 .. Len(calls[s])
          BY <1>1, <2>1, <3>2
        <4>2. calls'[s][i] = calls[s][i] /\ calls'[s][j] = calls[s][j]
          BY <1>1, <3>2, <4>1
        <4> QED
          BY <1>0, <2>1, <3>2, <4>1, <4>2 DEF PublisherOrder
      <3>3. CASE t = s /\ j = Len(calls[s]) + 1
        <4>1. i \in 1 .. Len(calls[s]) /\ calls'[s][i] = calls[s][i] /\ calls'[s][j] = c
          BY <1>1, <2>1, <3>3
        <4>2. calls[s][i] \in Called(s) /\ log[calls[s][i]].by = p
          BY <1>3, <2>1, <3>3, <4>1 DEF Called
        <4> QED
          BY <1>0, <3>3, <4>1, <4>2 DEF CallsInv
      <3> QED
        BY <1>1, <3>1, <3>2, <3>3
    <2> QED
      BY <1>0, <2>1 DEF PublisherOrder
  <1>11. CallsInv'
    <2>1. ASSUME NEW t \in Subscription
          PROVE  /\ t \in subscribers' <=> since'[t] # -1 /\ until'[t] = -1
                 /\ since'[t] <= Len(log') /\ until'[t] <= Len(log')
                 /\ since'[t] = -1 => until'[t] = -1
                 /\ Called(t)' \subseteq Number'
      BY <1>0, <1>2, <1>3 DEF CallsInv, Number
    <2>2. ASSUME NEW q \in Publisher, todo'[q] # {}
          PROVE  current'[q] \in Number' /\ log'[current'[q]].by = q
      BY <1>0, <2>2 DEF CallsInv, TypeOK, Number
    <2>3. ASSUME NEW t \in Subscription, NEW q \in Publisher, t \in todo'[q],
                 NEW n \in Called(t)', log'[n].by = q
          PROVE  n < current'[q]
      <3>1. t \in todo[q] /\ (t = s => q # p)
        BY <1>0, <2>3 DEF TypeOK
      <3>2. n \in Called(t)
        BY <1>0, <1>2, <1>3, <2>3, <3>1
      <3> QED
        BY <1>0, <2>3, <3>1, <3>2 DEF CallsInv
    <2> QED
      BY <2>1, <2>2, <2>3, TypeOK' DEF CallsInv
  <1> QED
    BY <1>8, <1>9, <1>10, <1>11 DEF BusIInv

\* subscribe() owes nothing of what was published before it, unsubscribe()
\* nothing of what is published after.
LEMMA ListsKeep ==
    ASSUME BusIInv, NEW s \in Subscription, Subscribe(s) \/ Unsubscribe(s), TypeOK'
    PROVE  BusIInv'
  <1>0. /\ TypeOK /\ CallsInv /\ CalledAsOwed /\ AtMostOnce /\ PublisherOrder
        /\ UNCHANGED <<current, todo, log, calls>> /\ Len(log) \in Nat
        /\ Subscribe(s) \/ Unsubscribe(s)
    BY LenProperties DEF BusIInv, CallsInv, Subscribe, Unsubscribe, TypeOK
  <1>1. \A t \in Subscription : Called(t)' = Called(t) /\ InTransit(t)' = InTransit(t)
    BY <1>0 DEF Called, InTransit
  <1>2. ASSUME NEW t \in Subscription
        PROVE  /\ t \in subscribers' <=> since'[t] # -1 /\ until'[t] = -1
               /\ since'[t] <= Len(log') /\ until'[t] <= Len(log')
               /\ since'[t] = -1 => until'[t] = -1
               /\ Owed(t)' = Owed(t)
    <2>0. since[t] \in Int /\ until[t] \in Int /\ Number' = Number
      BY <1>0 DEF TypeOK, Number
    <2>1. CASE t # s
      <3>1. since'[t] = since[t] /\ until'[t] = until[t]
            /\ (t \in subscribers' <=> t \in subscribers)
        BY <1>0, <2>1 DEF Subscribe, Unsubscribe, TypeOK
      <3> QED
        BY <1>0, <2>0, <3>1 DEF CallsInv, Owed
    <2>2. CASE t = s /\ Subscribe(s)
      <3>1. since[s] = -1 /\ until[s] = -1 /\ since'[s] = Len(log) /\ until'[s] = -1
            /\ s \in subscribers'
        BY <1>0, <2>2 DEF Subscribe, CallsInv, TypeOK
      <3>2. Owed(s) = {} /\ Owed(s)' = {}
        BY <1>0, <2>0, <3>1 DEF Owed, Number
      <3> QED
        BY <1>0, <2>2, <3>1, <3>2
    <2>3. CASE t = s /\ Unsubscribe(s)
      <3>1. since[s] # -1 /\ until[s] = -1 /\ since'[s] = since[s] /\ until'[s] = Len(log)
            /\ s \notin subscribers'
        BY <1>0, <2>3 DEF Unsubscribe, CallsInv, TypeOK
      <3>2. Owed(s)' = Owed(s)
        BY <1>0, <2>0, <3>1 DEF Owed, Number
      <3> QED
        BY <1>0, <2>3, <3>1, <3>2 DEF CallsInv
    <2> QED
      BY <1>0, <2>1, <2>2, <2>3
  <1>3. CalledAsOwed' /\ AtMostOnce' /\ PublisherOrder'
    BY <1>0, <1>1, <1>2 DEF CalledAsOwed, AtMostOnce, PublisherOrder
  <1>4. CallsInv'
    BY <1>0, <1>1, <1>2, TypeOK' DEF CallsInv, Number
  <1> QED
    BY <1>3, <1>4 DEF BusIInv

\* The delivery invariant holds in every reachable state.
THEOREM Delivered == Spec => []BusIInv
  <1>1. Init => BusIInv
    BY DeliveryInit
  <1>2. BusIInv /\ [Next]_vars => BusIInv'
    <2> SUFFICES ASSUME BusIInv, [Next]_vars PROVE BusIInv'
      OBVIOUS
    <2>0. /\ TypeOK /\ CallsInv /\ CalledAsOwed /\ AtMostOnce /\ PublisherOrder
      BY DEF BusIInv, CallsInv
    <2>1. TypeOK'
      BY TypeKept DEF BusIInv, CallsInv
    <2>2. ASSUME NEW p \in Publisher, NEW e \in Event, Publish(p, e) PROVE BusIInv'
      BY <2>1, <2>2, PublishKeeps
    <2>3. ASSUME NEW p \in Publisher, NEW s \in Subscription, Dispatch(p, s) PROVE BusIInv'
      BY <2>1, <2>3, DispatchKeeps
    <2>4. ASSUME NEW s \in Subscription, Subscribe(s) \/ Unsubscribe(s) PROVE BusIInv'
      BY <2>1, <2>4, ListsKeep
    <2>5. CASE UNCHANGED vars
      <3>0. UNCHANGED vars
        BY <2>5
      <3>1. \A s \in Subscription : /\ Called(s)' = Called(s) /\ InTransit(s)' = InTransit(s)
                                    /\ Owed(s)' = Owed(s)
        BY <3>0 DEF vars, lists, Called, InTransit, Owed, Number
      <3>2. CalledAsOwed' /\ AtMostOnce' /\ PublisherOrder'
        BY <2>0, <3>0, <3>1 DEF vars, lists, CalledAsOwed, AtMostOnce, PublisherOrder
      <3>3. CallsInv'
        BY <2>0, <2>1, <3>0, <3>1 DEF vars, lists, CallsInv, Number
      <3> QED
        BY <3>2, <3>3 DEF BusIInv
    <2> QED
      BY <2>2, <2>3, <2>4, <2>5 DEF Next
  <1> QED
    BY <1>1, <1>2, PTL DEF Spec

\* A subscription is called with what it is owed, each event once.
THEOREM DeliveryThm == Spec => [](CalledAsOwed /\ AtMostOnce)
  <1>1. BusIInv => CalledAsOwed /\ AtMostOnce
    BY DEF BusIInv
  <1> QED
    BY <1>1, Delivered, PTL

\* What one thread publishes is seen in its order.
THEOREM PublisherOrderThm == Spec => []PublisherOrder
  <1>1. BusIInv => PublisherOrder
    BY DEF BusIInv
  <1> QED
    BY <1>1, Delivered, PTL

\* The history stays the most recent events, at most as many as its limit.
LEMMA HistoryKept == TypeOK /\ HistoryIsRecent /\ [Next]_vars => HistoryIsRecent'
  <1> SUFFICES ASSUME TypeOK, HistoryIsRecent, [Next]_vars PROVE HistoryIsRecent'
    OBVIOUS
  <1>1. ASSUME NEW p \in Publisher, NEW e \in Event, Publish(p, e) PROVE HistoryIsRecent'
    <2> DEFINE gone == Len(log) - Len(history)
    <2>1. /\ history' = Remember(history, e) /\ eventCount' = eventCount + 1
          /\ history \in Seq(Event) /\ Len(history) \in Nat /\ MaxHistory \in Nat
      BY <1>1, BusAssumption, LenProperties DEF Publish, TypeOK
    <2>2. /\ Len(log') = Len(log) + 1 /\ Len(log) \in Nat
          /\ \A n \in Number : log'[n] = log[n]
          /\ log'[Len(log) + 1] = [event |-> e, by |-> p]
      BY <1>1, LogGrows
    <2>3. /\ eventCount = Len(log)
          /\ Len(history) = IF Len(log) < MaxHistory THEN Len(log) ELSE MaxHistory
          /\ \A i \in 1 .. Len(history) : history[i] = log[gone + i].event
      BY DEF HistoryIsRecent
    <2>4. /\ Len(history') = IF Len(history) < MaxHistory THEN Len(history) + 1 ELSE Len(history)
          /\ \A i \in 1 .. Len(history') :
                 history'[i] = Append(history, e)[IF Len(history) < MaxHistory THEN i ELSE i + 1]
          /\ \A i \in 1 .. Len(history) : Append(history, e)[i] = history[i]
          /\ Append(history, e)[Len(history) + 1] = e
      BY <2>1, Remembers
    <2>5. \A i \in 1 .. Len(history) + 1 : Append(history, e)[i] = log'[gone + i].event
      <3>1. \A i \in 1 .. Len(history) : gone + i \in Number
        BY <2>1, <2>2, <2>3 DEF Number
      <3>2. \A i \in 1 .. Len(history) : Append(history, e)[i] = log'[gone + i].event
        BY <2>2, <2>3, <2>4, <3>1
      <3>3. gone + (Len(history) + 1) = Len(log) + 1
        BY <2>1, <2>2
      <3>4. Append(history, e)[Len(history) + 1] = log'[gone + (Len(history) + 1)].event
        BY <2>2, <2>4, <3>3
      <3> QED
        <4> TAKE i \in 1 .. Len(history) + 1
        <4>1. i \in 1 .. Len(history) \/ i = Len(history) + 1
          BY <2>1
        <4> QED
          BY <3>2, <3>4, <4>1
    <2>6. ASSUME NEW i \in 1 .. Len(history')
          PROVE  history'[i] = log'[Len(log') - Len(history') + i].event
      <3>1. CASE Len(history) < MaxHistory
        BY SMTT(30), <2>1, <2>2, <2>4, <2>5, <3>1
      <3>2. CASE ~(Len(history) < MaxHistory)
        <4>1. i + 1 \in 1 .. Len(history) + 1 /\ i \in Int
              /\ history'[i] = Append(history, e)[i + 1]
          BY <2>1, <2>4, <3>2
        <4>2. gone + (i + 1) = Len(log') - Len(history') + i
          BY <2>1, <2>2, <2>4, <3>2, <4>1
        <4> QED
          BY <2>5, <4>1, <4>2
      <3> QED
        BY <3>1, <3>2
    <2>7. /\ eventCount' = Len(log')
          /\ Len(history') = IF Len(log') < MaxHistory THEN Len(log') ELSE MaxHistory
      BY <2>1, <2>2, <2>3, <2>4
    <2> QED
      BY <2>6, <2>7 DEF HistoryIsRecent
  <1>2. CASE UNCHANGED <<history, eventCount, log>>
    BY <1>2 DEF HistoryIsRecent
  <1> QED
    BY <1>1, <1>2 DEF Next, Dispatch, Subscribe, Unsubscribe, vars, lists

\* The bounded history holds the newest events and the counter all of them.
THEOREM HistoryThm == Spec => []HistoryIsRecent
  <1>1. Init => HistoryIsRecent
    <2>1. Init => Len(log) = 0 /\ Len(history) = 0 /\ eventCount = 0
      BY DEF Init
    <2> QED
      BY <2>1, BusAssumption DEF HistoryIsRecent
  <1>2. BusIInv => TypeOK
    BY DEF BusIInv, CallsInv
  <1> QED
    BY <1>1, <1>2, Delivered, HistoryKept, PTL DEF Spec

\* The types, where every subscription and every publisher stands, and the
\* history.
THEOREM BusInvariant == Spec => []BusInv
  <1>1. BusIInv /\ HistoryIsRecent => BusInv
    BY DEF BusIInv, BusInv
  <1> QED
    BY <1>1, Delivered, HistoryThm, PTL

-----------------------------------------------------------------------------
(* Sequences                                                               *)

\* A sequence is its head and its tail.
LEMMA HeadAndTail ==
    ASSUME NEW S, NEW s \in Seq(S), s # <<>>
    PROVE  /\ <<Head(s)>> \in Seq(S) /\ Head(s) = s[1] /\ Tail(s) \in Seq(S)
           /\ <<Head(s)>> \o Tail(s) = s
  <1>1. /\ Head(s) \in S /\ Head(s) = s[1] /\ Tail(s) \in Seq(S) /\ Len(s) \in Nat \ {0}
        /\ Len(Tail(s)) = Len(s) - 1
        /\ \A i \in 1 .. Len(Tail(s)) : Tail(s)[i] = s[i + 1]
    BY HeadTailProperties, EmptySeq
  <1>2. <<Head(s)>> \in Seq(S) /\ Len(<<Head(s)>>) = 1 /\ <<Head(s)>>[1] = Head(s)
    BY <1>1
  <1> DEFINE t == <<Head(s)>> \o Tail(s)
  <1>3. /\ t \in Seq(S) /\ Len(t) = 1 + Len(Tail(s))
        /\ \A i \in 1 .. 1 + Len(Tail(s)) :
               t[i] = IF i <= 1 THEN <<Head(s)>>[i] ELSE Tail(s)[i - 1]
    BY <1>1, <1>2, ConcatProperties
  <1> HIDE DEF t
  <1>4. ASSUME NEW i \in 1 .. Len(t) PROVE t[i] = s[i]
    <2>1. CASE i = 1
      BY <1>1, <1>2, <1>3, <2>1
    <2>2. CASE i > 1
      <3>1. i - 1 \in 1 .. Len(Tail(s)) /\ i = (i - 1) + 1
        BY <1>1, <1>3, <2>2
      <3>2. t[i] = Tail(s)[i - 1]
        BY <1>1, <1>3, <2>2
      <3> QED
        BY <1>1, <3>1, <3>2
    <2> QED
      BY <1>1, <1>3, <2>1, <2>2
  <1>5. Len(t) = Len(s)
    BY <1>1, <1>3
  <1>6. t = s
    BY <1>3, <1>4, <1>5, SeqEqual
  <1> QED
    BY <1>1, <1>2, <1>6 DEF t

\* Taking the head of a concatenation that does not begin with nothing.
LEMMA HeadOfConcat ==
    ASSUME NEW S, NEW s \in Seq(S), NEW t \in Seq(S), s # <<>>
    PROVE  /\ s \o t # <<>> /\ Head(s \o t) = Head(s) /\ Tail(s \o t) = Tail(s) \o t
  <1>1. s \o t \in Seq(S) /\ s \o t # <<>>
    BY ConcatProperties, ConcatEqualIffEmpty
  <1>2. Len(s) \in Nat \ {0} /\ Len(t) \in Nat
    BY EmptySeq, LenProperties
  <1>3. Head(s \o t) = Head(s)
    <2>1. (s \o t)[1] = s[1]
      BY <1>2, ConcatProperties
    <2> QED
      BY <1>1, <2>1, HeadAndTail
  <1>4. Tail(s) \in Seq(S) /\ <<Head(s)>> \in Seq(S) /\ s = <<Head(s)>> \o Tail(s)
    BY HeadAndTail
  <1>5. s \o t = <<Head(s)>> \o (Tail(s) \o t) /\ Tail(s) \o t \in Seq(S)
    BY <1>4, ConcatAssociative, ConcatProperties
  <1>6. s \o t = <<Head(s)>> \o Tail(s \o t) /\ Tail(s \o t) \in Seq(S)
    BY <1>1, <1>3, HeadAndTail
  <1>7. Tail(s \o t) = Tail(s) \o t
    <2>1. \A u, v \in Seq(S) : <<Head(s)>> \o u = <<Head(s)>> \o v => u = v
      BY <1>4, ConcatSimplifications
    <2> QED
      BY <1>5, <1>6, <2>1
  <1> QED
    BY <1>1, <1>3, <1>7

\* The two operators under names of their own: a fact about them is then an
\* equation between terms.
Cat(s, t) == s \o t
Added(s, n) == Append(s, n)

\* Both parts typed, the concatenation is.
LEMMA CatTyped ==
    ASSUME NEW S, NEW s \in Seq(S), NEW t \in Seq(S)
    PROVE  Cat(s, t) \in Seq(S)
  BY ConcatProperties DEF Cat

\* Nothing before a sequence adds nothing.
LEMMA CatNothing ==
    ASSUME NEW S, NEW s \in Seq(S)
    PROVE  Cat(<<>>, s) = s
  BY ConcatEmptySeq DEF Cat

\* How it is grouped makes no difference.
LEMMA CatRegroups ==
    ASSUME NEW S, NEW s \in Seq(S), NEW t \in Seq(S), NEW v \in Seq(S)
    PROVE  Cat(Cat(s, t), v) = Cat(s, Cat(t, v))
  BY ConcatAssociative DEF Cat

\* To append is to concatenate one more.
LEMMA AddedIsCat ==
    ASSUME NEW S, NEW s \in Seq(S), NEW n \in S
    PROVE  Added(s, n) = Cat(s, <<n>>)
  BY AppendIsConcat DEF Added, Cat

\* What is appended comes last, and the others keep their places.
LEMMA AddedFacts ==
    ASSUME NEW S, NEW s \in Seq(S), NEW n \in S
    PROVE  /\ Len(Added(s, n)) = Len(s) + 1 /\ Added(s, n)[Len(s) + 1] = n
           /\ \A i \in 1 .. Len(s) : Added(s, n)[i] = s[i]
  BY AppendProperties DEF Added

\* The four parts of a connection's way, in a row.
Row(w, h, m, r) == Cat(w, Cat(Cat(h, m), r))

\* A send moves what is in hand to the end of the wire: the row is as it was.
LEMMA RowSent ==
    ASSUME NEW S, NEW w \in Seq(S), NEW h \in Seq(S), NEW m \in Seq(S), NEW r \in Seq(S)
    PROVE  Row(Cat(w, h), <<>>, m, r) = Row(w, h, m, r)
  <1>1. Cat(m, r) \in Seq(S)
    BY CatTyped
  <1>2. Cat(<<>>, m) = m
    BY CatNothing
  <1>3. Cat(Cat(h, m), r) = Cat(h, Cat(m, r))
    BY CatRegroups
  <1>4. Cat(Cat(w, h), Cat(m, r)) = Cat(w, Cat(h, Cat(m, r)))
    BY <1>1, CatRegroups
  <1> QED
    BY <1>2, <1>3, <1>4 DEF Row

\* The handler takes what is first in the queue into its empty hand.
LEMMA RowTaken ==
    ASSUME NEW S, NEW w \in Seq(S), NEW m \in Seq(S), NEW r \in Seq(S), m # <<>>
    PROVE  Row(w, <<Head(m)>>, Tail(m), r) = Row(w, <<>>, m, r)
  <1>1. Cat(<<Head(m)>>, Tail(m)) = m
    BY HeadAndTail DEF Cat
  <1>2. Cat(<<>>, m) = m
    BY CatNothing
  <1> QED
    BY <1>1, <1>2 DEF Row

\* The event loop puts what is first with it at the end of the queue.
LEMMA RowPut ==
    ASSUME NEW S, NEW w \in Seq(S), NEW h \in Seq(S), NEW m \in Seq(S), NEW r \in Seq(S),
           r # <<>>
    PROVE  Row(w, h, Added(m, Head(r)), Tail(r)) = Row(w, h, m, r)
  <1> DEFINE n == <<Head(r)>>
             u == Tail(r)
  <1>1. n \in Seq(S) /\ u \in Seq(S) /\ Cat(n, u) = r
    BY HeadAndTail DEF Cat
  <1>2. Added(m, Head(r)) = Cat(m, n)
    <2>1. Head(r) \in S
      BY HeadTailProperties
    <2> QED
      BY <2>1, AddedIsCat
  <1> HIDE DEF n, u
  <1>3. Cat(m, n) \in Seq(S)
    BY <1>1, CatTyped
  <1>4. Cat(Cat(m, n), u) = Cat(m, r)
    BY <1>1, CatRegroups
  <1>5. Cat(Cat(h, Cat(m, n)), u) = Cat(h, Cat(Cat(m, n), u))
    BY <1>1, <1>3, CatRegroups
  <1>6. Cat(Cat(h, m), r) = Cat(h, Cat(m, r))
    BY CatRegroups
  <1>7. Row(w, h, Added(m, Head(r)), u) = Row(w, h, m, r)
    BY <1>2, <1>4, <1>5, <1>6 DEF Row
  <1> QED
    BY <1>7 DEF u

\* What is left with the event loop comes last.
LEMMA RowAdded ==
    ASSUME NEW S, NEW w \in Seq(S), NEW h \in Seq(S), NEW m \in Seq(S), NEW r \in Seq(S),
           NEW n \in S
    PROVE  Row(w, h, m, Added(r, n)) = Added(Row(w, h, m, r), n)
  <1> DEFINE e == <<n>>
             x == Cat(h, m)
             y == Cat(x, r)
             z == Cat(w, y)
  <1>1. e \in Seq(S)
    OBVIOUS
  <1>2. Added(r, n) = Cat(r, e)
    BY AddedIsCat
  <1>3. x \in Seq(S)
    BY CatTyped
  <1> HIDE DEF x
  <1>4. y \in Seq(S)
    BY <1>3, CatTyped
  <1> HIDE DEF y
  <1>5. z \in Seq(S)
    BY <1>4, CatTyped
  <1> HIDE DEF z
  <1>6. Added(z, n) = Cat(z, e)
    BY <1>5, AddedIsCat
  <1> HIDE DEF e
  <1>7. Cat(x, Cat(r, e)) = Cat(Cat(x, r), e)
    BY <1>1, <1>3, CatRegroups
  <1>8. Cat(w, Cat(y, e)) = Cat(Cat(w, y), e)
    BY <1>1, <1>4, CatRegroups
  <1> QED
    BY <1>2, <1>6, <1>7, <1>8 DEF Row, x, y, z

\* A row of typed parts is typed.
LEMMA RowTyped ==
    ASSUME NEW S, NEW w \in Seq(S), NEW h \in Seq(S), NEW m \in Seq(S), NEW r \in Seq(S)
    PROVE  Row(w, h, m, r) \in Seq(S)
  <1> DEFINE x == Cat(h, m)
             y == Cat(x, r)
  <1>1. x \in Seq(S)
    BY CatTyped
  <1> HIDE DEF x
  <1>2. y \in Seq(S)
    BY <1>1, CatTyped
  <1> HIDE DEF y
  <1>3. Cat(w, y) \in Seq(S)
    BY <1>2, CatTyped
  <1> QED
    BY <1>3 DEF Row, x, y

\* What is first in it is received first.
LEMMA RowReceived ==
    ASSUME NEW S, NEW w \in Seq(S), NEW h \in Seq(S), NEW m \in Seq(S), NEW r \in Seq(S),
           w # <<>>
    PROVE  /\ Row(w, h, m, r) # <<>> /\ Head(Row(w, h, m, r)) = Head(w)
           /\ Tail(Row(w, h, m, r)) = Row(Tail(w), h, m, r)
  <1> DEFINE x == Cat(h, m)
             y == Cat(x, r)
  <1>1. x \in Seq(S)
    BY CatTyped
  <1> HIDE DEF x
  <1>2. y \in Seq(S)
    BY <1>1, CatTyped
  <1> HIDE DEF y
  <1>3. Cat(w, y) # <<>> /\ Head(Cat(w, y)) = Head(w)
    BY <1>2, HeadOfConcat DEF Cat
  <1>4. Tail(Cat(w, y)) = Cat(Tail(w), y)
    BY <1>2, HeadOfConcat DEF Cat
  <1> QED
    BY <1>3, <1>4 DEF Row, x, y

\* t is s without its item i.
LeavesOut(s, t, i) ==
    /\ i \in 1 .. Len(s) /\ Len(t) = Len(s) - 1
    /\ \A j \in 1 .. Len(t) : t[j] = s[IF j < i THEN j ELSE j + 1]
    /\ t = Cat(SubSeq(s, 1, i - 1), SubSeq(s, i + 1, Len(s)))

\* One item in the middle of a sequence, and the sequence without it.
LEMMA Without ==
    ASSUME NEW S, NEW w \in Seq(S), NEW e \in S, NEW x \in Seq(S)
    PROVE  LeavesOut(Cat(w, Cat(<<e>>, x)), Cat(w, x), Len(w) + 1)
  <1> DEFINE y == <<e>> \o x
             s == w \o y
             t == w \o x
             i == Len(w) + 1
  <1>1. /\ Len(w) \in Nat /\ Len(x) \in Nat
        /\ <<e>> \in Seq(S) /\ Len(<<e>>) = 1
    BY LenProperties
  <1>2. /\ y \in Seq(S) /\ Len(y) = Len(x) + 1
        /\ \A j \in 2 .. Len(x) + 1 : y[j] = x[j - 1]
    <2>1. /\ y \in Seq(S) /\ Len(y) = 1 + Len(x)
          /\ \A j \in 1 .. 1 + Len(x) : y[j] = IF j <= 1 THEN <<e>>[j] ELSE x[j - 1]
      BY <1>1, ConcatProperties
    <2> HIDE DEF y
    <2> QED
      BY <1>1, <2>1
  <1>3. /\ t \in Seq(S) /\ Len(t) = Len(w) + Len(x)
        /\ \A j \in 1 .. Len(w) + Len(x) :
               t[j] = IF j <= Len(w) THEN w[j] ELSE x[j - Len(w)]
    BY ConcatProperties
  <1> HIDE DEF y
  <1>4. /\ s \in Seq(S) /\ Len(s) = Len(w) + Len(y)
        /\ \A j \in 1 .. Len(w) + Len(y) :
               s[j] = IF j <= Len(w) THEN w[j] ELSE y[j - Len(w)]
    BY <1>2, ConcatProperties
  <1> HIDE DEF s, t
  <1>5. i \in Nat /\ i \in 1 .. Len(s) /\ Len(t) = Len(s) - 1 /\ Len(s) \in Nat
    BY <1>1, <1>2, <1>3, <1>4
  <1>6. ASSUME NEW j \in 1 .. Len(t) PROVE t[j] = IF j < i THEN s[j] ELSE s[j + 1]
    <2>1. CASE j < i
      <3>1. j <= Len(w) /\ j \in 1 .. Len(w) + Len(x) /\ j \in 1 .. Len(w) + Len(y)
        BY <1>1, <1>2, <1>3, <2>1
      <3> QED
        BY <1>3, <1>4, <2>1, <3>1
    <2>2. CASE ~(j < i)
      <3>1. /\ ~(j <= Len(w)) /\ ~(j + 1 <= Len(w)) /\ j \in 1 .. Len(w) + Len(x)
            /\ j + 1 \in 1 .. Len(w) + Len(y)
            /\ (j + 1) - Len(w) \in 2 .. Len(x) + 1 /\ ((j + 1) - Len(w)) - 1 = j - Len(w)
        BY <1>1, <1>2, <1>3, <2>2
      <3>2. t[j] = x[j - Len(w)]
        BY <1>3, <3>1
      <3>3. s[j + 1] = y[(j + 1) - Len(w)]
        BY <1>4, <3>1
      <3>4. y[(j + 1) - Len(w)] = x[((j + 1) - Len(w)) - 1]
        BY <1>2, <3>1
      <3> QED
        BY <2>2, <3>1, <3>2, <3>3, <3>4
    <2> QED
      BY <2>1, <2>2
  <1> DEFINE a == SubSeq(s, 1, i - 1)
             b == SubSeq(s, i + 1, Len(s))
  <1>7. /\ a \in Seq(S) /\ Len(a) = Len(w)
        /\ \A j \in 1 .. Len(w) : a[j] = s[j]
    <2>1. i - 1 = Len(w) /\ \A j \in 1 .. Len(w) : j \in 1 .. Len(s)
      BY <1>1, <1>5
    <2>2. \A j \in 1 .. Len(w) : s[j] \in S
      BY <1>4, <2>1, ElementOfSeq
    <2>3. /\ SubSeq(s, 1, Len(w)) \in Seq(S)
          /\ Len(SubSeq(s, 1, Len(w))) = IF 1 <= Len(w) THEN Len(w) - 1 + 1 ELSE 0
          /\ \A j \in 1 .. Len(w) - 1 + 1 : SubSeq(s, 1, Len(w))[j] = s[1 + j - 1]
      BY <1>1, <2>2, SubSeqProperties
    <2>4. Len(w) - 1 + 1 = Len(w) /\ \A j \in 1 .. Len(w) : 1 + j - 1 = j
      BY <1>1
    <2> QED
      BY <1>1, <2>1, <2>3, <2>4
  <1>8. /\ b \in Seq(S) /\ Len(b) = Len(x)
        /\ \A j \in 1 .. Len(x) : b[j] = s[i + j]
    <2>1. i + 1 \in Int /\ Len(s) \in Int /\ \A j \in i + 1 .. Len(s) : j \in 1 .. Len(s)
      BY <1>5
    <2>2. \A j \in i + 1 .. Len(s) : s[j] \in S
      BY <1>4, <2>1, ElementOfSeq
    <2> DEFINE k == i + 1
    <2> HIDE DEF k
    <2>3. k \in Int /\ \A j \in k .. Len(s) : s[j] \in S
      BY <2>1, <2>2 DEF k
    <2>4. /\ SubSeq(s, k, Len(s)) \in Seq(S)
          /\ Len(SubSeq(s, k, Len(s))) = IF k <= Len(s) THEN Len(s) - k + 1 ELSE 0
          /\ \A j \in 1 .. Len(s) - k + 1 : SubSeq(s, k, Len(s))[j] = s[k + j - 1]
      BY <2>1, <2>3, SubSeqProperties
    <2>5. /\ Len(s) - k + 1 = Len(x) /\ (IF k <= Len(s) THEN Len(s) - k + 1 ELSE 0) = Len(x)
          /\ \A j \in 1 .. Len(x) : k + j - 1 = i + j
      BY <1>1, <1>2, <1>4 DEF k
    <2> QED
      BY <2>4, <2>5 DEF k
  <1> HIDE DEF a, b
  <1>9. t = a \o b
    <2>1. /\ a \o b \in Seq(S) /\ Len(a \o b) = Len(a) + Len(b)
          /\ \A j \in 1 .. Len(a) + Len(b) :
                 (a \o b)[j] = IF j <= Len(a) THEN a[j] ELSE b[j - Len(a)]
      BY <1>7, <1>8, ConcatProperties
    <2>2. ASSUME NEW j \in 1 .. Len(t) PROVE t[j] = (a \o b)[j]
      <3>0. j \in 1 .. Len(a) + Len(b)
        BY <1>3, <1>7, <1>8
      <3>1. CASE j <= Len(w)
        <4>1. j \in 1 .. Len(w) /\ j < i
          BY <1>1, <1>5, <3>1
        <4> QED
          BY <1>6, <1>7, <2>1, <3>0, <3>1, <4>1
      <3>2. CASE ~(j <= Len(w))
        <4>1. j - Len(w) \in 1 .. Len(x) /\ i + (j - Len(w)) = j + 1 /\ ~(j < i)
          BY <1>1, <1>3, <1>5, <3>2
        <4>2. (a \o b)[j] = b[j - Len(w)] /\ b[j - Len(w)] = s[i + (j - Len(w))]
          BY <1>7, <1>8, <2>1, <3>0, <3>2, <4>1
        <4> QED
          BY <1>6, <4>1, <4>2
      <3> QED
        BY <3>1, <3>2
    <2> QED
      BY <1>3, <1>7, <1>8, <2>1, <2>2, SeqEqual
  <1>10. Cat(w, Cat(<<e>>, x)) = s /\ Cat(w, x) = t
    BY DEF Cat, s, t, y
  <1>11. t = Cat(SubSeq(s, 1, i - 1), SubSeq(s, i + 1, Len(s)))
    BY <1>9 DEF a, b, Cat
  <1>12. \A j \in 1 .. Len(t) : t[j] = s[IF j < i THEN j ELSE j + 1]
    BY <1>6
  <1>13. LeavesOut(s, t, i)
    BY <1>5, <1>11, <1>12 DEF LeavesOut
  <1> QED
    BY <1>10, <1>13

\* What is lost in a send: one item of the row; the rest keeps its order.
LEMMA RowWithout ==
    ASSUME NEW S, NEW w \in Seq(S), NEW e \in S, NEW m \in Seq(S), NEW r \in Seq(S)
    PROVE  LeavesOut(Row(w, <<e>>, m, r), Row(w, <<>>, m, r), Len(w) + 1)
  <1> DEFINE h == <<e>>
             x == Cat(m, r)
  <1>1. x \in Seq(S) /\ h \in Seq(S)
    BY CatTyped
  <1>2. LeavesOut(Cat(w, Cat(h, x)), Cat(w, x), Len(w) + 1)
    BY <1>1, Without
  <1> HIDE DEF h
  <1>3. Cat(Cat(h, m), r) = Cat(h, Cat(m, r))
    BY <1>1, CatRegroups
  <1>4. Cat(<<>>, m) = m
    BY CatNothing
  <1> HIDE DEF x
  <1>5. Row(w, h, m, r) = Cat(w, Cat(h, x)) /\ Row(w, <<>>, m, r) = Cat(w, x)
    BY <1>3, <1>4 DEF Row, x
  <1>6. LeavesOut(Row(w, h, m, r), Row(w, <<>>, m, r), Len(w) + 1)
    BY <1>2, <1>5
  <1> QED
    BY <1>6 DEF h

-----------------------------------------------------------------------------
(* The stream is a use of the bus                                          *)

\* Whatever the stream does is a step of the bus or does not concern it.
THEOREM StreamUsesBus == StreamSpec => Spec
  <1>1. StreamInit => Init
    BY DEF StreamInit
  <1>2. [StreamNext]_streamVars => [Next]_vars
    <2> SUFFICES ASSUME [StreamNext]_streamVars PROVE [Next]_vars
      OBVIOUS
    <2>1. ASSUME NEW p \in Publisher, NEW e \in Event, Publish(p, e) PROVE Next
      BY <2>1 DEF Next
    <2>2. ASSUME NEW p \in Publisher, NEW c \in Subscription, Callback(p, c) PROVE Next
      BY <2>2 DEF Next, Callback
    <2>3. ASSUME NEW c \in Subscription, Enter(c) PROVE Next
      BY <2>3 DEF Next, Enter
    <2>4. ASSUME NEW c \in Subscription, Leave(c) PROVE Next
      BY <2>4 DEF Next, Leave
    <2>5. ASSUME UNCHANGED bus PROVE UNCHANGED vars
      BY <2>5 DEF bus, vars
    <2>6. ASSUME NEW c \in Subscription,
                 \/ PutNoWait(c) \/ Get(c) \/ Send(c) \/ Cut(c) \/ Notice(c)
                 \/ Connect(c) \/ ShowConnected(c) \/ Receive(c) \/ GiveUp(c) \/ CatchAll(c)
          PROVE  UNCHANGED bus
      BY <2>6 DEF PutNoWait, Get, Send, Cut, Notice, Connect, ShowConnected, Receive, GiveUp, CatchAll
    <2>8. ASSUME ConnectFails PROVE UNCHANGED bus
      BY <2>8 DEF ConnectFails
    <2>7. CASE UNCHANGED streamVars
      <3>1. UNCHANGED bus
        BY <2>7 DEF streamVars
      <3> QED
        BY <2>5, <3>1
    <2> QED
      BY <2>1, <2>2, <2>3, <2>4, <2>5, <2>6, <2>7, <2>8 DEF StreamNext, ServerStep
  <1> QED
    BY <1>1, <1>2, PTL DEF StreamSpec, Spec

-----------------------------------------------------------------------------
(* What a step does to what is on the way                                  *)

\* The parts of a connection's way.
LEMMA WayTyped ==
    ASSUME StreamTypeOK, NEW c \in Subscription
    PROVE  /\ wire[c] \in Seq(Nat) /\ hand[c] \in Seq(Nat)
           /\ mailbox[c] \in Seq(Nat) /\ ready[c] \in Seq(Nat)
           /\ OnTheWay(c) = Row(wire[c], hand[c], mailbox[c], ready[c])
           /\ OnTheWay(c)' = Row(wire'[c], hand'[c], mailbox'[c], ready'[c])
           /\ OnTheWay(c) \in Seq(Nat)
  <1>1. /\ wire[c] \in Seq(Nat) /\ hand[c] \in Seq(Nat)
        /\ mailbox[c] \in Seq(Nat) /\ ready[c] \in Seq(Nat)
    BY DEF StreamTypeOK
  <1>2. OnTheWay(c) = Row(wire[c], hand[c], mailbox[c], ready[c])
        /\ OnTheWay(c)' = Row(wire'[c], hand'[c], mailbox'[c], ready'[c])
    BY DEF Row, Cat, Queued, OnTheWay
  <1>3. Row(wire[c], hand[c], mailbox[c], ready[c]) \in Seq(Nat)
    BY <1>1, RowTyped
  <1> QED
    BY <1>1, <1>2, <1>3

\* Nothing is in hand of a handler that waits, one event of one that sends.
LEMMA InHand ==
    ASSUME StreamTypeOK, Connections, NEW c \in Subscription
    PROVE  /\ handler[c] = "wait" => hand[c] = <<>>
           /\ handler[c] = "send" => \E n \in Nat : hand[c] = <<n>>
  <1>1. hand[c] \in Seq(Nat)
    BY WayTyped
  <1>2. ASSUME handler[c] = "wait" PROVE hand[c] = <<>>
    <2>1. Len(hand[c]) = 0
      BY <1>2 DEF Connections, Stands
    <2> QED
      BY <1>1, <2>1, EmptySeq
  <1>3. ASSUME handler[c] = "send" PROVE \E n \in Nat : hand[c] = <<n>>
    <2>1. Len(hand[c]) = 1
      BY <1>3 DEF Connections, Stands
    <2>2. hand[c][1] \in Nat /\ <<hand[c][1]>> \in Seq(Nat) /\ Len(<<hand[c][1]>>) = 1
          /\ <<hand[c][1]>>[1] = hand[c][1]
      BY <1>1, <2>1, ElementOfSeq
    <2>3. hand[c] = <<hand[c][1]>>
      <3>1. \A i \in 1 .. Len(hand[c]) : hand[c][i] = <<hand[c][1]>>[i]
        BY <2>1, <2>2
      <3> QED
        BY <1>1, <2>1, <2>2, <3>1, SeqEqual
    <2> QED
      BY <2>2, <2>3
  <1> QED
    BY <1>2, <1>3

\* From the loop to the queue, to the hand, to the wire: nothing is lost, and
\* nothing overtakes.
LEMMA WayStays ==
    ASSUME StreamTypeOK, Connections, NEW c \in Subscription,
           Get(c) \/ PutNoWait(c) \/ (Send(c) /\ line[c] # "cut")
    PROVE  \A d \in Subscription : OnTheWay(d)' = OnTheWay(d)
  <1>1. /\ wire[c] \in Seq(Nat) /\ hand[c] \in Seq(Nat)
        /\ mailbox[c] \in Seq(Nat) /\ ready[c] \in Seq(Nat)
    BY WayTyped
  <1>2. \A d \in Subscription : d # c => OnTheWay(d)' = OnTheWay(d)
    BY DEF StreamTypeOK, Get, PutNoWait, Send, OnTheWay, Queued
  <1>3. OnTheWay(c) = Row(wire[c], hand[c], mailbox[c], ready[c])
        /\ OnTheWay(c)' = Row(wire'[c], hand'[c], mailbox'[c], ready'[c])
    BY WayTyped
  <1>4. CASE Get(c)
    <2>1. /\ hand[c] = <<>> /\ mailbox[c] # <<>>
          /\ hand'[c] = <<Head(mailbox[c])>> /\ mailbox'[c] = Tail(mailbox[c])
          /\ wire'[c] = wire[c] /\ ready'[c] = ready[c]
      BY <1>4, InHand DEF Get, StreamTypeOK
    <2>2. Row(wire[c], <<Head(mailbox[c])>>, Tail(mailbox[c]), ready[c])
              = Row(wire[c], <<>>, mailbox[c], ready[c])
      BY <1>1, <2>1, RowTaken
    <2> QED
      BY <1>3, <1>2, <2>1, <2>2
  <1>5. CASE PutNoWait(c)
    <2>1. /\ ready[c] # <<>>
          /\ mailbox'[c] = Added(mailbox[c], Head(ready[c])) /\ ready'[c] = Tail(ready[c])
          /\ wire'[c] = wire[c] /\ hand'[c] = hand[c]
      BY <1>5 DEF PutNoWait, StreamTypeOK, Added
    <2>2. Row(wire[c], hand[c], Added(mailbox[c], Head(ready[c])), Tail(ready[c]))
              = Row(wire[c], hand[c], mailbox[c], ready[c])
      BY <1>1, <2>1, RowPut
    <2> QED
      BY <1>3, <1>2, <2>1, <2>2
  <1>6. CASE Send(c) /\ line[c] = "noticed"
    BY <1>2, <1>6 DEF Send, OnTheWay, Queued
  <1>7. CASE Send(c) /\ line[c] = "up"
    <2>1. /\ hand'[c] = <<>> /\ wire'[c] = Cat(wire[c], hand[c])
          /\ mailbox'[c] = mailbox[c] /\ ready'[c] = ready[c]
      BY <1>7 DEF Send, StreamTypeOK, Cat
    <2>2. Row(Cat(wire[c], hand[c]), <<>>, mailbox[c], ready[c])
              = Row(wire[c], hand[c], mailbox[c], ready[c])
      BY <1>1, <2>1, RowSent
    <2> QED
      BY <1>3, <1>2, <2>1, <2>2
  <1>8. line[c] \in {"up", "cut", "noticed"}
    BY DEF StreamTypeOK
  <1> QED
    BY <1>4, <1>5, <1>6, <1>7, <1>8

\* What is sent into a line that is cut is lost; the rest keeps its order.
LEMMA WayLoses ==
    ASSUME StreamTypeOK, Connections, NEW c \in Subscription, Send(c), line[c] = "cut"
    PROVE  /\ \A d \in Subscription : d # c => OnTheWay(d)' = OnTheWay(d)
           /\ OnTheWay(c)' \in Seq(Nat)
           /\ \E i \in Nat : LeavesOut(OnTheWay(c), OnTheWay(c)', i)
  <1>1. \A d \in Subscription : d # c => OnTheWay(d)' = OnTheWay(d)
    BY DEF StreamTypeOK, Send, OnTheWay, Queued
  <1>2. /\ wire[c] \in Seq(Nat) /\ mailbox[c] \in Seq(Nat) /\ ready[c] \in Seq(Nat)
        /\ handler[c] = "send"
    BY WayTyped DEF Send
  <1>3. PICK e \in Nat : hand[c] = <<e>>
    BY <1>2, InHand
  <1>4. /\ hand'[c] = <<>> /\ wire'[c] = wire[c]
        /\ mailbox'[c] = mailbox[c] /\ ready'[c] = ready[c]
    BY DEF Send, StreamTypeOK
  <1> DEFINE w == wire[c]
             m == mailbox[c]
             r == ready[c]
  <1>5. OnTheWay(c) = Row(w, <<e>>, m, r) /\ OnTheWay(c)' = Row(w, <<>>, m, r)
    BY <1>3, <1>4, WayTyped
  <1>6. w \in Seq(Nat) /\ m \in Seq(Nat) /\ r \in Seq(Nat)
    BY <1>2
  <1> HIDE DEF w, m, r
  <1>7. LeavesOut(Row(w, <<e>>, m, r), Row(w, <<>>, m, r), Len(w) + 1)
    BY <1>6, RowWithout
  <1>8. Row(w, <<>>, m, r) \in Seq(Nat)
    <2>1. <<>> \in Seq(Nat)
      BY EmptySeq
    <2> QED
      BY <1>6, <2>1, RowTyped
  <1>9. Len(w) + 1 \in Nat
    BY <1>6, LenProperties
  <1> QED
    BY <1>1, <1>5, <1>7, <1>8, <1>9

\* An event that passes comes last; one that does not is not on the way.
LEMMA WayGrows ==
    ASSUME StreamTypeOK, TypeOK, NEW p \in Publisher, NEW c \in Subscription, Callback(p, c)
    PROVE  /\ \A d \in Subscription : d # c => OnTheWay(d)' = OnTheWay(d)
           /\ OnTheWay(c)' \in {Added(OnTheWay(c), current[p]), OnTheWay(c)}
  <1>1. /\ wire[c] \in Seq(Nat) /\ hand[c] \in Seq(Nat)
        /\ mailbox[c] \in Seq(Nat) /\ ready[c] \in Seq(Nat) /\ current[p] \in Nat
    BY WayTyped DEF TypeOK
  <1>2. hand' = hand /\ mailbox' = mailbox /\ wire' = wire
        /\ \A d \in Subscription : d # c => ready'[d] = ready[d]
    BY DEF Callback, HandOver, StreamTypeOK
  <1>3. ready'[c] = Added(ready[c], current[p]) \/ ready'[c] = ready[c]
    BY DEF Callback, HandOver, StreamTypeOK, Added
  <1>4. \A d \in Subscription : d # c => OnTheWay(d)' = OnTheWay(d)
    BY <1>2 DEF OnTheWay, Queued
  <1>5. OnTheWay(c) = Row(wire[c], hand[c], mailbox[c], ready[c])
        /\ OnTheWay(c)' = Row(wire'[c], hand'[c], mailbox'[c], ready'[c])
    BY WayTyped
  <1>6. Row(wire[c], hand[c], mailbox[c], Added(ready[c], current[p]))
            = Added(Row(wire[c], hand[c], mailbox[c], ready[c]), current[p])
    <2> DEFINE w == wire[c]
               h == hand[c]
               m == mailbox[c]
               r == ready[c]
               n == current[p]
    <2>1. w \in Seq(Nat) /\ h \in Seq(Nat) /\ m \in Seq(Nat) /\ r \in Seq(Nat) /\ n \in Nat
      BY <1>1
    <2> HIDE DEF w, h, m, r, n
    <2>2. Row(w, h, m, Added(r, n)) = Added(Row(w, h, m, r), n)
      BY <2>1, RowAdded
    <2> QED
      BY <2>2 DEF w, h, m, r, n
  <1>7. CASE ready'[c] = Added(ready[c], current[p])
    <2>1. OnTheWay(c)' = Added(OnTheWay(c), current[p])
      BY <1>2, <1>5, <1>6, <1>7
    <2> QED
      BY <1>4, <2>1
  <1>8. CASE ready'[c] = ready[c]
    <2>1. OnTheWay(c)' = OnTheWay(c)
      BY <1>2, <1>5, <1>8
    <2> QED
      BY <1>4, <2>1
  <1> QED
    BY <1>7, <1>8, <1>3

\* A client receives what is first on the way.
LEMMA WayShrinks ==
    ASSUME StreamTypeOK, NEW c \in Subscription, Receive(c)
    PROVE  /\ \A d \in Subscription : d # c => OnTheWay(d)' = OnTheWay(d)
           /\ OnTheWay(c) # <<>> /\ OnTheWay(c)' = Tail(OnTheWay(c))
           /\ Head(wire[c]) = Head(OnTheWay(c))
  <1>1. /\ wire[c] \in Seq(Nat) /\ hand[c] \in Seq(Nat)
        /\ mailbox[c] \in Seq(Nat) /\ ready[c] \in Seq(Nat) /\ wire[c] # <<>>
    BY WayTyped DEF Receive
  <1>2. UNCHANGED <<hand, mailbox, ready>> /\ wire'[c] = Tail(wire[c])
        /\ \A d \in Subscription : d # c => wire'[d] = wire[d]
    BY DEF Receive, StreamTypeOK, server
  <1>3. \A d \in Subscription : d # c => OnTheWay(d)' = OnTheWay(d)
    BY <1>2 DEF OnTheWay, Queued
  <1>4. OnTheWay(c) = Row(wire[c], hand[c], mailbox[c], ready[c])
        /\ OnTheWay(c)' = Row(wire'[c], hand'[c], mailbox'[c], ready'[c])
    BY WayTyped
  <1>5. /\ Row(wire[c], hand[c], mailbox[c], ready[c]) # <<>>
        /\ Head(Row(wire[c], hand[c], mailbox[c], ready[c])) = Head(wire[c])
        /\ Tail(Row(wire[c], hand[c], mailbox[c], ready[c]))
               = Row(Tail(wire[c]), hand[c], mailbox[c], ready[c])
    <2> DEFINE w == wire[c]
               h == hand[c]
               m == mailbox[c]
               r == ready[c]
    <2>1. w \in Seq(Nat) /\ h \in Seq(Nat) /\ m \in Seq(Nat) /\ r \in Seq(Nat) /\ w # <<>>
      BY <1>1
    <2> HIDE DEF w, h, m, r
    <2>2. /\ Row(w, h, m, r) # <<>> /\ Head(Row(w, h, m, r)) = Head(w)
          /\ Tail(Row(w, h, m, r)) = Row(Tail(w), h, m, r)
      BY <2>1, RowReceived
    <2> QED
      BY <2>2 DEF w, h, m, r
  <1> QED
    BY <1>2, <1>3, <1>4, <1>5

-----------------------------------------------------------------------------
(* The types, and where every connection stands                            *)

\* What is in the rows is changed at one connection at a time.
LEMMA RowsTyped ==
    ASSUME StreamTypeOK, TypeOK, StreamNext
    PROVE  /\ ready' \in [Subscription -> Seq(Nat)] /\ mailbox' \in [Subscription -> Seq(Nat)]
           /\ hand' \in [Subscription -> Seq(Nat)] /\ wire' \in [Subscription -> Seq(Nat)]
           /\ received' \in [Subscription -> Seq(Nat)]
  <1> DEFINE Rows == [Subscription -> Seq(Nat)]
  <1>0. ready \in Rows /\ mailbox \in Rows /\ hand \in Rows /\ wire \in Rows /\ received \in Rows
    BY DEF StreamTypeOK
  <1>1. ASSUME NEW f \in Rows, NEW c \in Subscription, NEW s \in Seq(Nat)
        PROVE  [f EXCEPT ![c] = s] \in Rows
    OBVIOUS
  <1>2. ASSUME NEW p \in Publisher, NEW c \in Subscription, Callback(p, c)
        PROVE  ready' \in Rows /\ UNCHANGED <<mailbox, hand, wire, received>>
    <2>1. ready[c] \in Seq(Nat) /\ current[p] \in Nat
      BY <1>0 DEF TypeOK
    <2>2. Append(ready[c], current[p]) \in Seq(Nat)
      BY <2>1, AppendProperties
    <2>3. ready' \in {[ready EXCEPT ![c] = Append(ready[c], current[p])], ready}
      BY <1>2 DEF Callback, HandOver
    <2>4. UNCHANGED <<mailbox, hand, wire, received>>
      BY <1>2 DEF Callback, dashboard
    <2> QED
      BY ZenonT(40), <1>0, <1>1, <2>2, <2>3, <2>4
  <1>3. ASSUME NEW c \in Subscription, PutNoWait(c)
        PROVE  ready' \in Rows /\ mailbox' \in Rows /\ UNCHANGED <<hand, wire, received>>
    <2>1. ready[c] \in Seq(Nat) /\ mailbox[c] \in Seq(Nat) /\ ready[c] # <<>>
      BY <1>0, <1>3 DEF PutNoWait
    <2>2. Head(ready[c]) \in Nat /\ Tail(ready[c]) \in Seq(Nat)
      BY <2>1, HeadTailProperties
    <2>3. Append(mailbox[c], Head(ready[c])) \in Seq(Nat)
      BY <2>1, <2>2, AppendProperties
    <2>4. /\ mailbox' = [mailbox EXCEPT ![c] = Append(mailbox[c], Head(ready[c]))]
          /\ ready' = [ready EXCEPT ![c] = Tail(ready[c])]
      BY <1>3 DEF PutNoWait
    <2>5. UNCHANGED <<hand, wire, received>>
      BY <1>3 DEF PutNoWait, dashboard
    <2> QED
      BY <1>0, <1>1, <2>2, <2>3, <2>4, <2>5
  <1>4. ASSUME NEW c \in Subscription, Get(c)
        PROVE  mailbox' \in Rows /\ hand' \in Rows /\ UNCHANGED <<ready, wire, received>>
    <2>1. mailbox[c] \in Seq(Nat) /\ mailbox[c] # <<>>
      BY <1>0, <1>4 DEF Get
    <2>2. Head(mailbox[c]) \in Nat /\ Tail(mailbox[c]) \in Seq(Nat)
      BY <2>1, HeadTailProperties
    <2>3. <<Head(mailbox[c])>> \in Seq(Nat)
      BY <2>2
    <2>4. /\ hand' = [hand EXCEPT ![c] = <<Head(mailbox[c])>>]
          /\ mailbox' = [mailbox EXCEPT ![c] = Tail(mailbox[c])]
      BY <1>4 DEF Get
    <2>5. UNCHANGED <<ready, wire, received>>
      BY <1>4 DEF Get, dashboard
    <2> QED
      BY <1>0, <1>1, <2>2, <2>3, <2>4, <2>5
  <1>5. ASSUME NEW c \in Subscription, Send(c)
        PROVE  hand' \in Rows /\ wire' \in Rows /\ UNCHANGED <<ready, mailbox, received>>
    <2>1. wire[c] \in Seq(Nat) /\ hand[c] \in Seq(Nat)
      BY <1>0
    <2>2. wire[c] \o hand[c] \in Seq(Nat) /\ <<>> \in Seq(Nat)
      BY <2>1, ConcatProperties, EmptySeq
    <2>3. /\ hand' \in {[hand EXCEPT ![c] = <<>>], hand}
          /\ wire' \in {[wire EXCEPT ![c] = wire[c] \o hand[c]], wire}
      BY <1>5 DEF Send
    <2>4. UNCHANGED <<ready, mailbox, received>>
      BY <1>5 DEF Send, dashboard
    <2>5. hand' \in Rows
      BY <1>0, <1>1, <2>2, <2>3
    <2> DEFINE both == wire[c] \o hand[c]
    <2>6. both \in Seq(Nat) /\ wire' \in {[wire EXCEPT ![c] = both], wire}
      BY <2>2, <2>3
    <2> HIDE DEF both
    <2>7. wire' \in Rows
      BY <1>0, <1>1, <2>6
    <2> QED
      BY <2>4, <2>5, <2>7
  <1>6. ASSUME NEW c \in Subscription, Receive(c)
        PROVE  wire' \in Rows /\ received' \in Rows /\ UNCHANGED <<ready, mailbox, hand>>
    <2>1. wire[c] \in Seq(Nat) /\ received[c] \in Seq(Nat) /\ wire[c] # <<>>
      BY <1>0, <1>6 DEF Receive
    <2>2. Head(wire[c]) \in Nat /\ Tail(wire[c]) \in Seq(Nat)
      BY <2>1, HeadTailProperties
    <2>3. Append(received[c], Head(wire[c])) \in Seq(Nat)
      BY <2>1, <2>2, AppendProperties
    <2>4. /\ received' = [received EXCEPT ![c] = Append(received[c], Head(wire[c]))]
          /\ wire' = [wire EXCEPT ![c] = Tail(wire[c])]
      BY <1>6 DEF Receive
    <2>5. UNCHANGED <<ready, mailbox, hand>>
      BY <1>6 DEF Receive, server
    <2> QED
      BY <1>0, <1>1, <2>2, <2>3, <2>4, <2>5
  <1>7. ASSUME \/ \E p \in Publisher, e \in Event : /\ Publish(p, e)
                                                    /\ UNCHANGED <<server, wire, line, dashboard>>
               \/ \E c \in Subscription : \/ Enter(c) \/ Leave(c) \/ Cut(c) \/ Notice(c)
                                          \/ Connect(c) \/ ShowConnected(c) \/ GiveUp(c)
                                          \/ CatchAll(c)
               \/ ConnectFails
        PROVE  UNCHANGED <<ready, mailbox, hand, wire, received>>
    BY <1>7 DEF Enter, Leave, Cut, Notice, Connect, ShowConnected, GiveUp, CatchAll, ConnectFails,
                server, dashboard
  <1> HIDE DEF Rows
  <1>8. ready' \in Rows /\ mailbox' \in Rows /\ hand' \in Rows /\ wire' \in Rows
        /\ received' \in Rows
    BY <1>0, <1>2, <1>3, <1>4, <1>5, <1>6, <1>7 DEF StreamNext, ServerStep
  <1> QED
    BY <1>8 DEF Rows

\* What the dashboard shows after it has received: that event first, then what
\* it showed, as far as there is room.
LEMMA ReceivedShown ==
    ASSUME StreamTypeOK, NEW c \in Subscription, Receive(c)
    PROVE  /\ eventQueue' \in Seq(Nat) /\ Len(eventQueue') <= MaxShown
           /\ Len(eventQueue') <= Len(eventQueue) + 1
           /\ \A i \in 1 .. Len(eventQueue') :
                  eventQueue'[i] = IF i = 1 THEN Head(wire[c]) ELSE eventQueue[i - 1]
  <1>1. /\ wire[c] \in Seq(Nat) /\ wire[c] # <<>> /\ eventQueue \in Seq(Nat)
        /\ MaxShown \in Nat
    BY WayTyped, StreamAssumption DEF Receive, StreamTypeOK
  <1> DEFINE first == <<Head(wire[c])>>
             longer == first \o eventQueue
             shorter == SubSeq(longer, 1, MaxShown)
  <1>2. Head(wire[c]) \in Nat /\ Len(eventQueue) \in Nat
    BY <1>1, HeadTailProperties, LenProperties
  <1>3. first \in Seq(Nat) /\ Len(first) = 1 /\ first[1] = Head(wire[c])
    BY <1>2
  <1> HIDE DEF first
  <1>4. /\ longer \in Seq(Nat) /\ Len(longer) = 1 + Len(eventQueue)
        /\ \A i \in 1 .. 1 + Len(eventQueue) :
               longer[i] = IF i <= 1 THEN first[i] ELSE eventQueue[i - 1]
    <2>1. /\ longer \in Seq(Nat) /\ Len(longer) = Len(first) + Len(eventQueue)
          /\ \A i \in 1 .. Len(first) + Len(eventQueue) :
                 longer[i] = IF i <= Len(first) THEN first[i] ELSE eventQueue[i - Len(first)]
      BY <1>1, <1>3, ConcatProperties
    <2> HIDE DEF longer
    <2> QED
      BY <1>3, <2>1
  <1>5. eventQueue' = IF Len(longer) > MaxShown THEN shorter ELSE longer
    BY DEF Receive, first
  <1> HIDE DEF longer
  <1>6. \A i \in 1 .. Len(longer) :
            longer[i] = IF i = 1 THEN Head(wire[c]) ELSE eventQueue[i - 1]
    <2> TAKE i \in 1 .. Len(longer)
    <2>1. i \in 1 .. 1 + Len(eventQueue) /\ (i <= 1 <=> i = 1)
      BY <1>2, <1>4
    <2> QED
      BY <1>3, <1>4, <2>1
  <1>7. CASE Len(longer) > MaxShown
    <2>1. \A i \in 1 .. MaxShown : i \in 1 .. Len(longer)
      BY <1>1, <1>2, <1>4, <1>7
    <2>2. \A i \in 1 .. MaxShown : longer[i] \in Nat
      BY <1>4, <2>1, ElementOfSeq
    <2>3. /\ shorter \in Seq(Nat)
          /\ Len(shorter) = IF 1 <= MaxShown THEN MaxShown - 1 + 1 ELSE 0
          /\ \A i \in 1 .. MaxShown - 1 + 1 : shorter[i] = longer[1 + i - 1]
      BY SMTT(30), <1>1, <2>2, SubSeqProperties
    <2>4. /\ MaxShown - 1 + 1 = MaxShown /\ \A i \in 1 .. MaxShown : 1 + i - 1 = i
          /\ (IF 1 <= MaxShown THEN MaxShown - 1 + 1 ELSE 0) = MaxShown
      BY <1>1
    <2> HIDE DEF shorter
    <2>5. eventQueue' = shorter /\ Len(shorter) = MaxShown
          /\ \A i \in 1 .. MaxShown : shorter[i] = longer[i]
      BY <1>5, <1>7, <2>3, <2>4
    <2>6. MaxShown <= Len(eventQueue) + 1
      BY <1>1, <1>2, <1>4, <1>7
    <2>7. \A i \in 1 .. MaxShown :
              shorter[i] = IF i = 1 THEN Head(wire[c]) ELSE eventQueue[i - 1]
      BY <1>6, <2>1, <2>5
    <2>8. eventQueue' \in Seq(Nat)
      BY <2>3, <2>5
    <2>9. Len(eventQueue') = MaxShown /\ Len(eventQueue') <= MaxShown
      BY <1>1, <2>5
    <2>10. \A i \in 1 .. Len(eventQueue') :
               eventQueue'[i] = IF i = 1 THEN Head(wire[c]) ELSE eventQueue[i - 1]
      BY <2>5, <2>7
    <2> QED
      BY <2>6, <2>8, <2>9, <2>10
  <1>8. CASE ~(Len(longer) > MaxShown)
    <2>1. eventQueue' = longer
      BY <1>5, <1>8
    <2>2. Len(longer) <= MaxShown /\ Len(longer) <= Len(eventQueue) + 1
      BY <1>1, <1>2, <1>4, <1>8
    <2> QED
      BY <1>4, <1>6, <2>1, <2>2
  <1> QED
    BY <1>7, <1>8

\* Every step types its next state.
LEMMA StreamTypeKept == StreamTypeOK /\ TypeOK /\ [StreamNext]_streamVars => StreamTypeOK'
  <1> SUFFICES ASSUME StreamTypeOK, TypeOK, [StreamNext]_streamVars PROVE StreamTypeOK'
    OBVIOUS
  <1> DEFINE Steps == {"none", "open", "wait", "send", "end", "closed"}
  <1>0. /\ handler \in [Subscription -> Steps]
        /\ line \in [Subscription -> {"up", "cut", "noticed"}]
        /\ using \subseteq Subscription /\ connected \in BOOLEAN /\ eventQueue \in Seq(Nat)
        /\ MaxShown \in Nat
    BY StreamAssumption DEF StreamTypeOK
  <1>1. CASE StreamNext
    <2>1. /\ ready' \in [Subscription -> Seq(Nat)] /\ mailbox' \in [Subscription -> Seq(Nat)]
          /\ hand' \in [Subscription -> Seq(Nat)] /\ wire' \in [Subscription -> Seq(Nat)]
          /\ received' \in [Subscription -> Seq(Nat)]
      BY <1>1, RowsTyped
    <2>2. handler' \in [Subscription -> Steps]
      <3>1. handler' = handler \/ \E c \in Subscription, step \in Steps : Goto(c, step)
        BY <1>1 DEF StreamNext, ServerStep, Callback, PutNoWait, Enter, Get, Send, Leave,
                    Cut, Notice, Connect, ShowConnected, ConnectFails, Receive, GiveUp, CatchAll,
                    server
      <3> QED
        BY <1>0, <3>1 DEF Goto
    <2>3. line' \in [Subscription -> {"up", "cut", "noticed"}]
      <3>1. line' = line \/ \E c \in Subscription, state \in {"cut", "noticed"} :
                                \/ line' = [line EXCEPT ![c] = state]
                                \/ line' = [line EXCEPT ![c] = IF @ = "up" THEN state ELSE @]
        BY <1>1 DEF StreamNext, ServerStep, Callback, PutNoWait, Enter, Get, Send, Leave,
                    Cut, Notice, Connect, ShowConnected, ConnectFails, Receive, GiveUp, CatchAll
      <3> QED
        BY <1>0, <3>1
    <2>4. using' \subseteq Subscription /\ connected' \in BOOLEAN
      <3>1. /\ using' \in {using, {}} \/ \E c \in Subscription : using' = {c}
            /\ connected' \in {connected, TRUE, FALSE}
        BY <1>1 DEF StreamNext, ServerStep, Callback, PutNoWait, Enter, Get, Send, Leave,
                    Cut, Notice, Connect, ShowConnected, ConnectFails, Receive, GiveUp, CatchAll,
                    dashboard
      <3> QED
        BY <1>0, <3>1
    <2>5. eventQueue' \in Seq(Nat)
      <3>1. CASE \E c \in Subscription : Receive(c)
        BY <3>1, ReceivedShown
      <3>2. CASE ~ \E c \in Subscription : Receive(c)
        <4>1. eventQueue' = eventQueue
          BY <1>1, <3>2 DEF StreamNext, ServerStep, Callback, PutNoWait, Enter, Get, Send, Leave,
                      Cut, Notice, Connect, ShowConnected, ConnectFails, GiveUp, CatchAll, dashboard
        <4> QED
          BY <1>0, <4>1
      <3> QED
        BY <3>1, <3>2
    <2> QED
      BY <2>1, <2>2, <2>3, <2>4, <2>5 DEF StreamTypeOK
  <1>2. CASE UNCHANGED streamVars
    BY <1>2 DEF StreamTypeOK, streamVars, server, dashboard
  <1> QED
    BY <1>1, <1>2

\* Where the connections stand after a step of the endpoint.
LEMMA EndpointStands ==
    ASSUME StreamTypeOK, TypeOK, Connections, NEW c \in Subscription,
           PutNoWait(c) \/ Enter(c) \/ Get(c) \/ Send(c) \/ Leave(c)
    PROVE  \A d \in Subscription : Stands(d)'
  <1>0. /\ handler \in [Subscription -> {"none", "open", "wait", "send", "end", "closed"}]
        /\ hand \in [Subscription -> Seq(Nat)]
        /\ since \in [Subscription -> Nat \union {-1}] /\ Len(log) \in Nat
        /\ line[c] \in {"up", "cut", "noticed"}
    BY LenProperties DEF StreamTypeOK, TypeOK
  <1>1. \A d \in Subscription : Stands(d)
    BY DEF Connections
  <1>2. using' = using /\ line' = line
    BY DEF PutNoWait, Enter, Get, Send, Leave, dashboard
  <1>3. ASSUME NEW d \in Subscription, d # c PROVE Stands(d)'
    <2>1. /\ handler'[d] = handler[d] /\ hand'[d] = hand[d] /\ since'[d] = since[d]
          /\ d \in subscribers' <=> d \in subscribers
      <3>1. CASE PutNoWait(c)
        BY <3>1 DEF PutNoWait, bus, lists
      <3>2. CASE Enter(c)
        BY <1>0, <1>3, <3>2 DEF Enter, Subscribe, Goto
      <3>3. CASE Get(c) \/ Send(c)
        BY <1>0, <1>3, <3>3 DEF Get, Send, Goto, bus, lists
      <3>4. CASE Leave(c)
        BY <1>0, <1>3, <3>4 DEF Leave, Unsubscribe, Goto
      <3> QED
        BY <3>1, <3>2, <3>3, <3>4
    <2> QED
      BY <1>1, <1>2, <2>1 DEF Stands
  <1>4. Stands(c)'
    <2>1. CASE PutNoWait(c)
      BY <1>1, <1>2, <2>1 DEF PutNoWait, Stands, bus, lists
    <2>2. CASE Enter(c)
      <3>1. /\ handler[c] = "open" /\ handler'[c] = "wait" /\ hand' = hand
            /\ since'[c] # -1 /\ c \in subscribers'
        BY <1>0, <2>2 DEF Enter, Subscribe, Goto
      <3> QED
        BY <1>1, <1>2, <3>1 DEF Stands
    <2>3. CASE Get(c)
      <3>1. /\ handler[c] = "wait" /\ handler'[c] = "send"
            /\ hand'[c] = <<Head(mailbox[c])>> /\ since' = since /\ subscribers' = subscribers
        BY <1>0, <2>3 DEF Get, Goto, bus, lists
      <3>2. Len(hand'[c]) = 1
        BY <3>1
      <3>3. /\ since'[c] # -1 /\ c \in subscribers' /\ (c \in using' => handler'[c] # "none")
            /\ (line'[c] = "up" => c \in using')
        BY <1>1, <1>2, <3>1 DEF Stands
      <3> QED
        BY <3>1, <3>2, <3>3 DEF Stands
    <2>4. CASE Send(c)
      <3>1. /\ handler[c] = "send" /\ since' = since /\ subscribers' = subscribers
            /\ \/ line[c] = "noticed" /\ handler'[c] = "end" /\ hand' = hand
               \/ line[c] # "noticed" /\ handler'[c] = "wait" /\ hand'[c] = <<>>
        BY <1>0, <2>4 DEF Send, Goto, bus, lists
      <3>2. Len(hand'[c]) = IF handler'[c] \in {"send", "end", "closed"} THEN 1 ELSE 0
        <4>1. Len(hand[c]) = 1 /\ (hand'[c] = <<>> => Len(hand'[c]) = 0)
          BY <1>1, <3>1, EmptySeq DEF Stands
        <4> QED
          BY <3>1, <4>1
      <3>3. /\ since'[c] # -1 /\ c \in subscribers' /\ (line'[c] = "up" => c \in using')
        BY <1>1, <1>2, <3>1 DEF Stands
      <3> QED
        BY <1>2, <3>1, <3>2, <3>3 DEF Stands
    <2>5. CASE Leave(c)
      <3>1. /\ handler[c] = "end" /\ handler'[c] = "closed" /\ hand' = hand
            /\ since' = since /\ c \notin subscribers'
        BY <1>0, <2>5 DEF Leave, Unsubscribe, Goto
      <3> QED
        BY <1>1, <1>2, <3>1 DEF Stands
    <2> QED
      BY <2>1, <2>2, <2>3, <2>4, <2>5
  <1> QED
    BY <1>3, <1>4

\* Where they stand after a step of the line or of the dashboard.
LEMMA DashboardStands ==
    ASSUME StreamTypeOK, TypeOK, Connections, NEW c \in Subscription,
           \/ Cut(c) \/ Notice(c) \/ Connect(c) \/ ShowConnected(c) \/ Receive(c)
           \/ GiveUp(c) \/ CatchAll(c)
    PROVE  /\ \A d \in Subscription : Stands(d)'
           /\ \A d, e \in using' : d = e
  <1>0. /\ handler \in [Subscription -> {"none", "open", "wait", "send", "end", "closed"}]
        /\ line \in [Subscription -> {"up", "cut", "noticed"}] /\ using \subseteq Subscription
    BY DEF StreamTypeOK
  <1>1. /\ \A d \in Subscription : Stands(d)
        /\ \A d, e \in using : d = e
    BY DEF Connections
  <1>2. since' = since /\ subscribers' = subscribers /\ hand' = hand
    BY DEF Cut, Notice, Connect, ShowConnected, Receive, GiveUp, CatchAll, bus, lists, server
  <1>3. CASE Cut(c) \/ Notice(c)
    <2>1. /\ handler' = handler /\ using' = using
          /\ line[c] # "noticed" /\ line'[c] # "up"
          /\ \A d \in Subscription : d # c => line'[d] = line[d]
      BY <1>0, <1>3 DEF Cut, Notice, server, dashboard
    <2>2. line[c] # "noticed" => handler[c] \notin {"end", "closed"}
      BY <1>1 DEF Stands
    <2>3. ASSUME NEW d \in Subscription PROVE Stands(d)'
      <3>1. CASE d = c
        BY <1>1, <1>2, <2>1, <2>2, <3>1 DEF Stands
      <3>2. CASE d # c
        BY <1>1, <1>2, <2>1, <3>2 DEF Stands
      <3> QED
        BY <3>1, <3>2
    <2> QED
      BY <1>1, <2>1, <2>3
  <1>4. CASE Connect(c)
    <2>1. /\ using = {} /\ using' = {c} /\ line' = line
          /\ handler[c] = "none" /\ handler'[c] = "open"
          /\ \A d \in Subscription : d # c => handler'[d] = handler[d]
      BY <1>0, <1>4 DEF Connect, Goto
    <2>2. ASSUME NEW d \in Subscription PROVE Stands(d)'
      <3>1. CASE d = c
        BY <1>1, <1>2, <2>1, <3>1 DEF Stands
      <3>2. CASE d # c
        <4>1. d \notin using /\ d \notin using'
          BY <2>1, <3>2
        <4> QED
          BY <1>1, <1>2, <2>1, <3>2, <4>1 DEF Stands
      <3> QED
        BY <3>1, <3>2
    <2> QED
      BY <2>1, <2>2
  <1>5. CASE ShowConnected(c) \/ Receive(c)
    <2>1. handler' = handler /\ using' = using /\ line' = line
      BY <1>5 DEF ShowConnected, Receive, server
    <2> QED
      BY <1>1, <1>2, <2>1 DEF Stands
  <1>6. CASE GiveUp(c)
    <2>1. /\ handler' = handler /\ line' = line /\ using' = {}
          /\ c \in using /\ line[c] # "up"
      BY <1>6 DEF GiveUp, server
    <2>2. ASSUME NEW d \in Subscription PROVE Stands(d)'
      <3>1. line[d] = "up" => handler[d] = "none"
        BY <1>1, <2>1 DEF Stands
      <3> QED
        BY <1>1, <1>2, <2>1, <3>1 DEF Stands
    <2> QED
      BY <2>1, <2>2
  <1>7. CASE CatchAll(c)
    <2>1. /\ handler' = handler /\ using' = {} /\ c \in using /\ line'[c] # "up"
          /\ line'[c] = line[c] \/ line[c] = "up"
          /\ \A d \in Subscription : d # c => line'[d] = line[d]
      BY <1>0, <1>7 DEF CatchAll, server
    <2>2. ASSUME NEW d \in Subscription PROVE Stands(d)'
      <3>1. CASE d = c
        BY <1>1, <1>2, <2>1, <3>1 DEF Stands
      <3>2. CASE d # c
        <4>1. d \notin using
          BY <1>1, <2>1, <3>2
        <4> QED
          BY <1>1, <1>2, <2>1, <3>2, <4>1 DEF Stands
      <3> QED
        BY <3>1, <3>2
    <2> QED
      BY <2>1, <2>2
  <1> QED
    BY <1>3, <1>4, <1>5, <1>6, <1>7

\* A connection is subscribed while its handler serves it, through every step.
LEMMA ConnectionsKept ==
    StreamTypeOK /\ TypeOK /\ Connections /\ [StreamNext]_streamVars => Connections'
  <1> SUFFICES ASSUME StreamTypeOK, TypeOK, Connections, [StreamNext]_streamVars
               PROVE  Connections'
    OBVIOUS
  <1>0. /\ \A d \in Subscription : Stands(d)
        /\ \A d, e \in using : d = e
        /\ Len(eventQueue) <= MaxShown
    BY DEF Connections
  <1>1. ASSUME UNCHANGED <<since, subscribers, handler, hand, line, using, eventQueue>>
        PROVE  Connections'
    <2>1. \A d \in Subscription : Stands(d)'
      BY <1>0, <1>1 DEF Stands
    <2> QED
      BY <1>0, <1>1, <2>1 DEF Connections
  <1>2. ASSUME NEW p \in Publisher, NEW e \in Event, Publish(p, e),
               UNCHANGED <<server, wire, line, dashboard>>
        PROVE  Connections'
    BY <1>1, <1>2 DEF Publish, lists, server, dashboard
  <1>3. ASSUME NEW p \in Publisher, NEW c \in Subscription, Callback(p, c) PROVE Connections'
    BY <1>1, <1>3 DEF Callback, Dispatch, lists, dashboard
  <1>4. ASSUME NEW c \in Subscription,
               PutNoWait(c) \/ Enter(c) \/ Get(c) \/ Send(c) \/ Leave(c)
        PROVE  Connections'
    <2>1. \A d \in Subscription : Stands(d)'
      BY <1>4, EndpointStands
    <2>2. UNCHANGED <<using, eventQueue>>
      BY <1>4 DEF PutNoWait, Enter, Get, Send, Leave, dashboard
    <2> QED
      BY <1>0, <2>1, <2>2 DEF Connections
  <1>5. ASSUME NEW c \in Subscription,
               \/ Cut(c) \/ Notice(c) \/ Connect(c) \/ ShowConnected(c) \/ Receive(c)
               \/ GiveUp(c) \/ CatchAll(c)
        PROVE  Connections'
    <2>1. /\ \A d \in Subscription : Stands(d)'
          /\ \A d, e \in using' : d = e
      BY <1>5, DashboardStands
    <2>2. Len(eventQueue') <= MaxShown
      <3>1. CASE Receive(c)
        BY <3>1, ReceivedShown
      <3>2. CASE ~Receive(c)
        <4>1. eventQueue' = eventQueue
          BY <1>5, <3>2 DEF Cut, Notice, Connect, ShowConnected, GiveUp, CatchAll, dashboard
        <4> QED
          BY <1>0, <4>1
      <3> QED
        BY <3>1, <3>2
    <2> QED
      BY <2>1, <2>2 DEF Connections
  <1>6. CASE UNCHANGED streamVars
    BY <1>1, <1>6 DEF streamVars, bus, lists, server, dashboard
  <1>7. CASE ConnectFails
    BY <1>1, <1>7 DEF ConnectFails, bus, lists, server
  <1> QED
    BY <1>2, <1>3, <1>4, <1>5, <1>6, <1>7 DEF StreamNext, ServerStep

-----------------------------------------------------------------------------
(* What is on the way, in its order                                        *)

Ordered(s, l) == \A i, j \in 1 .. Len(s) : i < j /\ l[s[i]].by = l[s[j]].by => s[i] < s[j]

\* s is t, or t without one of its items.
Thinner(s, t) == s = t \/ \E i \in Nat : LeavesOut(t, s, i)

\* What is left keeps its order.
LEMMA Thins ==
    ASSUME NEW s \in Seq(Nat), NEW t \in Seq(Nat), NEW l, Thinner(s, t)
    PROVE  /\ \A n \in Among(s) : n \in Among(t)
           /\ Ordered(t, l) => Ordered(s, l)
  <1>1. CASE s = t
    BY <1>1
  <1>2. ASSUME NEW i \in Nat, LeavesOut(t, s, i)
        PROVE  /\ \A n \in Among(s) : n \in Among(t)
               /\ Ordered(t, l) => Ordered(s, l)
    <2> DEFINE f(j) == IF j < i THEN j ELSE j + 1
    <2>1. /\ Len(s) \in Nat /\ Len(t) \in Nat /\ Len(s) = Len(t) - 1 /\ i \in 1 .. Len(t)
          /\ \A j \in 1 .. Len(s) : s[j] = t[f(j)]
      BY <1>2, LenProperties DEF LeavesOut
    <2>2. ASSUME NEW j \in 1 .. Len(s) PROVE f(j) \in 1 .. Len(t)
      BY <2>1
    <2>3. ASSUME NEW j \in 1 .. Len(s), NEW k \in 1 .. Len(s), j < k PROVE f(j) < f(k)
      BY SMTT(30), <2>1, <2>3
    <2> HIDE DEF f
    <2>4. ASSUME NEW n \in Among(s) PROVE n \in Among(t)
      <3>1. PICK j \in 1 .. Len(s) : n = s[j]
        BY DEF Among
      <3> QED
        BY <2>1, <2>2, <3>1 DEF Among
    <2>5. ASSUME Ordered(t, l) PROVE Ordered(s, l)
      <3> SUFFICES ASSUME NEW j \in 1 .. Len(s), NEW k \in 1 .. Len(s),
                          j < k, l[s[j]].by = l[s[k]].by
                   PROVE  s[j] < s[k]
        BY DEF Ordered
      <3>1. /\ f(j) \in 1 .. Len(t) /\ f(k) \in 1 .. Len(t) /\ f(j) < f(k)
            /\ s[j] = t[f(j)] /\ s[k] = t[f(k)]
        BY <2>1, <2>2, <2>3
      <3> QED
        BY <2>5, <3>1 DEF Ordered
    <2> QED
      BY <2>4, <2>5
  <1> QED
    BY <1>1, <1>2 DEF Thinner

\* A step that calls no one and receives nothing, and at most loses something
\* or begins to use a connection with nothing on the way.
LEMMA QuietKeeps ==
    ASSUME StreamTypeOK, StreamTypeOK', WayInOrder,
           UNCHANGED <<log, calls, current, todo, eventQueue>>,
           \A c \in Subscription : OnTheWay(c)' \in Seq(Nat) /\ Thinner(OnTheWay(c)', OnTheWay(c)),
           \A c \in using' : c \in using \/ (Among(OnTheWay(c)) = {} /\ InTransit(c) = {})
    PROVE  WayInOrder'
  <1>1. using' \subseteq Subscription /\ using \subseteq Subscription
    BY DEF StreamTypeOK
  <1>2. \A c \in Subscription : Called(c)' = Called(c) /\ InTransit(c)' = InTransit(c)
    BY DEF Called, InTransit
  <1>3. /\ Len(log) <= MaxEvents /\ Among(eventQueue) \subseteq Number
        /\ \A c \in Subscription : /\ Among(OnTheWay(c)) \subseteq Called(c)
                                   /\ Ordered(OnTheWay(c), log)
        /\ \A c \in using, m \in Among(eventQueue) :
               \A n \in Among(OnTheWay(c)) \union InTransit(c) :
                   log[m].by = log[n].by => m < n
    BY DEF WayInOrder, Ordered
  <1>4. ASSUME NEW c \in Subscription
        PROVE  /\ \A n \in Among(OnTheWay(c)') : n \in Among(OnTheWay(c))
               /\ Ordered(OnTheWay(c)', log)
    <2>1. OnTheWay(c) \in Seq(Nat) /\ OnTheWay(c)' \in Seq(Nat) /\ Ordered(OnTheWay(c), log)
          /\ Thinner(OnTheWay(c)', OnTheWay(c))
      BY <1>3, WayTyped
    <2> QED
      BY <2>1, Thins
  <1>5. ASSUME NEW c \in using', NEW m \in Among(eventQueue'),
               NEW n \in Among(OnTheWay(c)') \union InTransit(c)', log[m].by = log[n].by
        PROVE  m < n
    <2>1. c \in Subscription /\ n \in Among(OnTheWay(c)) \union InTransit(c)
          /\ m \in Among(eventQueue)
      BY <1>1, <1>2, <1>4
    <2>2. c \in using
      BY <2>1
    <2> QED
      BY <1>3, <1>5, <2>1, <2>2
  <1>6. \A c \in Subscription : /\ Among(OnTheWay(c)') \subseteq Called(c)'
                                /\ Ordered(OnTheWay(c)', log')
    BY <1>2, <1>3, <1>4
  <1>7. Among(eventQueue') \subseteq Number' /\ Len(log') <= MaxEvents
    BY <1>3 DEF Number
  <1> QED
    BY <1>5, <1>6, <1>7 DEF WayInOrder, Ordered, Among

\* What is called, what is called now and what is shown has been published.
LEMMA Published ==
    ASSUME BusIInv, WayInOrder, NEW c \in Subscription
    PROVE  /\ Called(c) \subseteq Number /\ InTransit(c) \subseteq Number
           /\ \A m \in Called(c), n \in InTransit(c) : log[m].by = log[n].by => m < n
  <1>1. CallsInv
    BY DEF BusIInv
  <1>2. ASSUME NEW n \in InTransit(c)
        PROVE  n \in Number /\ \A m \in Called(c) : log[m].by = log[n].by => m < n
    <2>1. PICK p \in Publisher : c \in todo[p] /\ n = current[p]
      BY DEF InTransit
    <2> QED
      BY <1>1, <2>1 DEF CallsInv
  <1> QED
    BY <1>1, <1>2 DEF CallsInv

\* An event that is published comes after all that is shown.
LEMMA PublishedKeeps ==
    ASSUME StreamTypeOK, BusIInv, WayInOrder, NEW p \in Publisher, NEW e \in Event, Publish(p, e),
           UNCHANGED <<server, wire, line, dashboard>>
    PROVE  WayInOrder'
  <1>0. /\ UNCHANGED <<calls, handler, ready, mailbox, hand, wire, using, eventQueue>>
        /\ todo' = [todo EXCEPT ![p] = {s \in subscribers : Matches(e, s)}]
        /\ current' = [current EXCEPT ![p] = Len(log) + 1] /\ Len(log) < MaxEvents
    BY DEF Publish, server, dashboard
  <1>1. TypeOK /\ using \subseteq Subscription /\ MaxEvents \in Nat
    BY BusAssumption DEF BusIInv, CallsInv, StreamTypeOK
  <1>2. /\ Len(log) \in Nat /\ Len(log') = Len(log) + 1
        /\ \A n \in Number : log'[n] = log[n] /\ n \in Number'
    <2>1. /\ Len(log) \in Nat /\ Len(log') = Len(log) + 1
          /\ \A n \in Number : log'[n] = log[n]
      BY <1>1, LogGrows
    <2> QED
      BY <2>1 DEF Number
  <1>3. /\ Among(eventQueue) \subseteq Number
        /\ \A c \in Subscription : /\ Among(OnTheWay(c)) \subseteq Called(c)
                                   /\ Ordered(OnTheWay(c), log)
        /\ \A c \in using, m \in Among(eventQueue) :
               \A n \in Among(OnTheWay(c)) \union InTransit(c) :
                   log[m].by = log[n].by => m < n
    BY DEF WayInOrder, Ordered
  <1>4. \A c \in Subscription : OnTheWay(c)' = OnTheWay(c) /\ Called(c)' = Called(c)
    BY <1>0 DEF OnTheWay, Queued, Called
  <1>5. ASSUME NEW c \in Subscription PROVE Ordered(OnTheWay(c), log')
    <2>1. \A i \in 1 .. Len(OnTheWay(c)) : OnTheWay(c)[i] \in Number
      BY <1>3, Published DEF Among
    <2> QED
      BY <1>2, <1>3, <2>1 DEF Ordered
  <1>6. ASSUME NEW c \in using, NEW m \in Among(eventQueue),
               NEW n \in Among(OnTheWay(c)) \union InTransit(c)', log'[m].by = log'[n].by
        PROVE  m < n
    <2>1. m \in Number /\ c \in Subscription
      BY <1>1, <1>3
    <2>2. CASE n \in Among(OnTheWay(c)) \union InTransit(c)
      <3>1. n \in Number
        BY <1>3, <2>1, <2>2, Published
      <3>2. log[m].by = log[n].by
        BY <1>2, <1>6, <2>1, <3>1
      <3> QED
        BY <1>3, <2>2, <3>2
    <2>3. CASE n \in InTransit(c)' /\ n \notin InTransit(c)
      <3>1. PICK q \in Publisher : c \in todo'[q] /\ n = current'[q]
        BY <2>3 DEF InTransit
      <3>2. q = p
        BY <1>0, <1>1, <2>3, <3>1 DEF TypeOK, InTransit
      <3>3. n = Len(log) + 1
        BY <1>0, <1>1, <3>1, <3>2 DEF TypeOK
      <3> QED
        BY <1>2, <2>1, <3>3 DEF Number
    <2> QED
      BY <2>2, <2>3
  <1>7. \A c \in Subscription : /\ Among(OnTheWay(c)') \subseteq Called(c)'
                                /\ Ordered(OnTheWay(c)', log')
    BY <1>3, <1>4, <1>5
  <1>8. Among(eventQueue') \subseteq Number' /\ Len(log') <= MaxEvents
    BY <1>0, <1>1, <1>2, <1>3
  <1>9. \A c \in using', m \in Among(eventQueue') :
            \A n \in Among(OnTheWay(c)') \union InTransit(c)' : log'[m].by = log'[n].by => m < n
    BY <1>0, <1>1, <1>4, <1>6
  <1> QED
    BY <1>7, <1>8, <1>9 DEF WayInOrder, Ordered, Among

\* A call moves an event from the publisher's hand to the end of the way.
LEMMA CallKeeps ==
    ASSUME StreamTypeOK, BusIInv, WayInOrder,
           NEW p \in Publisher, NEW c \in Subscription, Callback(p, c)
    PROVE  WayInOrder'
  <1> DEFINE k == current[p]
  <1>0. /\ Dispatch(p, c) /\ c \in todo[p] /\ todo' = [todo EXCEPT ![p] = @ \ {c}]
        /\ current' = current /\ log' = log /\ using' = using /\ eventQueue' = eventQueue
    BY DEF Callback, Dispatch, dashboard
  <1>1. TypeOK /\ CallsInv /\ using \subseteq Subscription
    BY DEF BusIInv, CallsInv, StreamTypeOK
  <1>2. /\ \A d \in Subscription : d # c => Called(d)' = Called(d)
        /\ Called(c)' = Called(c) \union {k}
    BY <1>0, <1>1, CalledGrows
  <1>3. /\ Len(log) <= MaxEvents /\ Among(eventQueue) \subseteq Number
        /\ \A d \in Subscription : /\ Among(OnTheWay(d)) \subseteq Called(d)
                                   /\ Ordered(OnTheWay(d), log)
        /\ \A d \in using, m \in Among(eventQueue) :
               \A n \in Among(OnTheWay(d)) \union InTransit(d) :
                   log[m].by = log[n].by => m < n
    BY DEF WayInOrder, Ordered
  <1>4. \A d \in Subscription : \A n \in InTransit(d)' : n \in InTransit(d)
    <2>1. \A d \in Subscription, q \in Publisher : d \in todo'[q] => d \in todo[q]
      BY <1>0, <1>1 DEF TypeOK
    <2> QED
      BY <1>0, <2>1 DEF InTransit
  <1>5. k \in InTransit(c) /\ k \in Nat
    BY <1>0, <1>1 DEF InTransit, TypeOK
  <1>6. /\ \A d \in Subscription : d # c => OnTheWay(d)' = OnTheWay(d)
        /\ OnTheWay(c)' \in {Added(OnTheWay(c), k), OnTheWay(c)}
    BY <1>1, WayGrows
  <1> DEFINE s == OnTheWay(c)
             t == OnTheWay(c)'
  <1>7. s \in Seq(Nat) /\ Len(s) \in Nat
    BY WayTyped, LenProperties
  <1>8. \A i \in 1 .. Len(s) : s[i] \in Called(c)
    BY <1>3 DEF Among
  <1> HIDE DEF s, k
  <1>9. /\ Len(Added(s, k)) = Len(s) + 1 /\ Added(s, k)[Len(s) + 1] = k
        /\ \A i \in 1 .. Len(s) : Added(s, k)[i] = s[i]
    BY <1>5, <1>7, AddedFacts
  <1>10. /\ \A n \in Among(Added(s, k)) : n \in Among(s) \union {k}
         /\ Ordered(Added(s, k), log)
    <2>1. ASSUME NEW n \in Among(Added(s, k)) PROVE n \in Among(s) \union {k}
      <3>1. PICK i \in 1 .. Len(Added(s, k)) : n = Added(s, k)[i]
        BY DEF Among
      <3>2. i \in 1 .. Len(s) \/ i = Len(s) + 1
        BY <1>7, <1>9
      <3> QED
        BY <1>9, <3>1, <3>2 DEF Among
    <2>2. ASSUME NEW i \in 1 .. Len(Added(s, k)), NEW j \in 1 .. Len(Added(s, k)), i < j,
                 log[Added(s, k)[i]].by = log[Added(s, k)[j]].by
          PROVE  Added(s, k)[i] < Added(s, k)[j]
      <3>1. i \in 1 .. Len(s) /\ (j \in 1 .. Len(s) \/ j = Len(s) + 1)
        BY <1>7, <1>9, <2>2
      <3>2. CASE j \in 1 .. Len(s)
        <4>1. Added(s, k)[i] = s[i] /\ Added(s, k)[j] = s[j] /\ Ordered(s, log)
          BY <1>3, <1>9, <3>1, <3>2 DEF s
        <4> QED
          BY <2>2, <3>1, <3>2, <4>1 DEF Ordered
      <3>3. CASE j = Len(s) + 1
        <4>1. Added(s, k)[i] = s[i] /\ Added(s, k)[j] = k /\ s[i] \in Called(c)
          BY <1>8, <1>9, <3>1, <3>3
        <4> QED
          BY <1>5, <2>2, <4>1, Published
      <3> QED
        BY <3>1, <3>2, <3>3
    <2> QED
      BY <2>1, <2>2 DEF Ordered
  <1>11. /\ \A n \in Among(t) : n \in Among(s) \union {k}
         /\ Ordered(t, log)
    <2>1. t = Added(s, k) \/ t = s
      BY <1>6 DEF s, k
    <2>2. Ordered(s, log)
      BY <1>3 DEF s
    <2> QED
      BY <1>10, <2>1, <2>2
  <1> HIDE DEF t
  <1>12. ASSUME NEW d \in Subscription
         PROVE  /\ \A n \in Among(OnTheWay(d)') : n \in Called(d)'
                /\ Ordered(OnTheWay(d)', log)
                /\ \A n \in Among(OnTheWay(d)') \union InTransit(d)' :
                       n \in Among(OnTheWay(d)) \union InTransit(d)
    <2>1. CASE d # c
      BY <1>2, <1>3, <1>4, <1>6, <2>1
    <2>2. CASE d = c
      BY <1>2, <1>3, <1>4, <1>5, <1>11, <2>2 DEF s, t
    <2> QED
      BY <2>1, <2>2
  <1>13. \A d \in Subscription : /\ Among(OnTheWay(d)') \subseteq Called(d)'
                                 /\ Ordered(OnTheWay(d)', log')
    BY <1>0, <1>12
  <1>14. Among(eventQueue') \subseteq Number' /\ Len(log') <= MaxEvents
    BY <1>0, <1>3 DEF Number
  <1>15. \A d \in using', m \in Among(eventQueue') :
             \A n \in Among(OnTheWay(d)') \union InTransit(d)' : log'[m].by = log'[n].by => m < n
    BY <1>0, <1>1, <1>3, <1>12
  <1> QED
    BY <1>13, <1>14, <1>15 DEF WayInOrder, Ordered, Among

\* What a client receives is before all that is still on the way to it.
LEMMA ReceiveKeeps ==
    ASSUME StreamTypeOK, BusIInv, Connections, WayInOrder, NEW c \in Subscription, Receive(c)
    PROVE  WayInOrder'
  <1> DEFINE s == OnTheWay(c)
             h == Head(wire[c])
  <1>0. /\ log' = log /\ calls' = calls /\ current' = current /\ todo' = todo
        /\ using' = using /\ c \in using
    BY DEF Receive, bus
  <1>1. using \subseteq Subscription /\ \A d \in using : d = c
    BY <1>0 DEF StreamTypeOK, Connections
  <1>2. /\ \A d \in Subscription : d # c => OnTheWay(d)' = OnTheWay(d)
        /\ s # <<>> /\ OnTheWay(c)' = Tail(s) /\ h = Head(s)
    BY WayShrinks
  <1>3. /\ Len(log) <= MaxEvents /\ Among(eventQueue) \subseteq Number
        /\ \A d \in Subscription : /\ Among(OnTheWay(d)) \subseteq Called(d)
                                   /\ Ordered(OnTheWay(d), log)
        /\ \A d \in using, m \in Among(eventQueue) :
               \A n \in Among(OnTheWay(d)) \union InTransit(d) :
                   log[m].by = log[n].by => m < n
    BY DEF WayInOrder, Ordered
  <1>4. \A d \in Subscription : Called(d)' = Called(d) /\ InTransit(d)' = InTransit(d)
    BY <1>0 DEF Called, InTransit
  <1>5. s \in Seq(Nat) /\ Ordered(s, log) /\ Among(s) \subseteq Called(c)
    BY <1>3, WayTyped
  <1> HIDE DEF s
  <1>6. /\ h = s[1] /\ Tail(s) \in Seq(Nat) /\ Len(s) \in Nat \ {0}
        /\ Len(Tail(s)) = Len(s) - 1 /\ \A i \in 1 .. Len(Tail(s)) : Tail(s)[i] = s[i + 1]
    BY <1>2, <1>5, HeadAndTail, HeadTailProperties, EmptySeq
  <1> HIDE DEF h
  <1>7. /\ h \in Among(s) /\ h \in Called(c)
        /\ \A n \in Among(Tail(s)) : n \in Among(s) /\ (log[h].by = log[n].by => h < n)
    <2>1. h \in Among(s)
      BY <1>6 DEF Among
    <2>2. ASSUME NEW n \in Among(Tail(s))
          PROVE  n \in Among(s) /\ (log[h].by = log[n].by => h < n)
      <3>1. PICK i \in 1 .. Len(Tail(s)) : n = Tail(s)[i]
        BY DEF Among
      <3>2. i + 1 \in 1 .. Len(s) /\ 1 \in 1 .. Len(s) /\ 1 < i + 1 /\ n = s[i + 1]
        BY <1>6, <3>1
      <3> QED
        BY <1>5, <1>6, <3>2 DEF Among, Ordered
    <2> QED
      BY <1>5, <2>1, <2>2
  <1>8. Ordered(Tail(s), log)
    <2> SUFFICES ASSUME NEW i \in 1 .. Len(Tail(s)), NEW j \in 1 .. Len(Tail(s)), i < j,
                        log[Tail(s)[i]].by = log[Tail(s)[j]].by
                 PROVE  Tail(s)[i] < Tail(s)[j]
      BY DEF Ordered
    <2>1. /\ i + 1 \in 1 .. Len(s) /\ j + 1 \in 1 .. Len(s) /\ i + 1 < j + 1
          /\ Tail(s)[i] = s[i + 1] /\ Tail(s)[j] = s[j + 1]
      BY <1>6
    <2> QED
      BY <1>5, <2>1 DEF Ordered
  <1>9. \A m \in Among(eventQueue') : m \in Among(eventQueue) \/ m = h
    <2>1. /\ Len(eventQueue') \in Nat /\ Len(eventQueue) \in Nat
          /\ Len(eventQueue') <= Len(eventQueue) + 1
          /\ \A i \in 1 .. Len(eventQueue') :
                 eventQueue'[i] = IF i = 1 THEN h ELSE eventQueue[i - 1]
      BY ReceivedShown, LenProperties DEF h, StreamTypeOK
    <2> TAKE m \in Among(eventQueue')
    <2>2. PICK i \in 1 .. Len(eventQueue') : m = eventQueue'[i]
      BY DEF Among
    <2>3. i # 1 => i - 1 \in 1 .. Len(eventQueue)
      BY <2>1
    <2> QED
      BY <2>1, <2>2, <2>3 DEF Among
  <1>10. h \in Number /\ \A n \in InTransit(c) : log[h].by = log[n].by => h < n
    BY <1>7, Published
  <1>11. ASSUME NEW d \in Subscription
         PROVE  Among(OnTheWay(d)') \subseteq Called(d)' /\ Ordered(OnTheWay(d)', log')
    <2>1. CASE d # c
      BY <1>0, <1>2, <1>3, <1>4, <2>1
    <2>2. CASE d = c
      BY <1>0, <1>2, <1>4, <1>5, <1>7, <1>8, <2>2
    <2> QED
      BY <2>1, <2>2
  <1>12. Among(eventQueue') \subseteq Number' /\ Len(log') <= MaxEvents
    BY <1>0, <1>3, <1>9, <1>10 DEF Number
  <1>13. ASSUME NEW m \in Among(eventQueue'), NEW n \in Among(Tail(s)) \union InTransit(c),
                log[m].by = log[n].by
         PROVE  m < n
    <2>1. CASE m = h
      BY <1>7, <1>10, <1>13, <2>1
    <2>2. CASE m \in Among(eventQueue)
      <3>1. n \in Among(s) \union InTransit(c)
        BY <1>7
      <3> QED
        BY <1>0, <1>3, <1>13, <2>2, <3>1 DEF s
    <2> QED
      BY <1>9, <2>1, <2>2
  <1>14. \A d \in using', m \in Among(eventQueue') :
             \A n \in Among(OnTheWay(d)') \union InTransit(d)' : log'[m].by = log'[n].by => m < n
    BY <1>0, <1>1, <1>2, <1>4, <1>13
  <1> QED
    BY <1>11, <1>12, <1>14 DEF WayInOrder, Ordered, Among

\* A connection that has not subscribed yet has been called with nothing.
LEMMA NothingYet ==
    ASSUME BusIInv, NEW c \in Subscription, since[c] = -1
    PROVE  Called(c) = {} /\ InTransit(c) = {}
  <1>1. Called(c) \union InTransit(c) = Owed(c)
    BY DEF BusIInv, CalledAsOwed
  <1>2. Owed(c) = {}
    BY DEF Owed
  <1> QED
    BY <1>1, <1>2

\* No step puts anything out of its order.
LEMMA WayKept ==
    /\ StreamTypeOK /\ StreamTypeOK' /\ BusIInv /\ Connections /\ WayInOrder
    /\ [StreamNext]_streamVars
    => WayInOrder'
  <1> SUFFICES ASSUME StreamTypeOK, StreamTypeOK', BusIInv, Connections, WayInOrder,
                      [StreamNext]_streamVars
               PROVE  WayInOrder'
    OBVIOUS
  <1>1. \A c \in Subscription : OnTheWay(c) \in Seq(Nat)
    BY WayTyped
  <1>2. ASSUME UNCHANGED <<log, calls, current, todo, eventQueue>>,
               \A c \in Subscription : OnTheWay(c)' = OnTheWay(c),
               \A c \in using' : c \in using \/ (Among(OnTheWay(c)) = {} /\ InTransit(c) = {})
        PROVE  WayInOrder'
    <2>1. \A c \in Subscription : OnTheWay(c)' \in Seq(Nat) /\ Thinner(OnTheWay(c)', OnTheWay(c))
      BY <1>1, <1>2 DEF Thinner
    <2> QED
      BY <1>2, <2>1, QuietKeeps
  <1>3. ASSUME UNCHANGED <<ready, mailbox, hand, wire>>
        PROVE  \A c \in Subscription : OnTheWay(c)' = OnTheWay(c)
    BY <1>3 DEF OnTheWay, Queued
  <1>4. ASSUME NEW p \in Publisher, NEW e \in Event, Publish(p, e),
               UNCHANGED <<server, wire, line, dashboard>>
        PROVE  WayInOrder'
    BY <1>4, PublishedKeeps
  <1>5. ASSUME NEW p \in Publisher, NEW c \in Subscription, Callback(p, c) PROVE WayInOrder'
    BY <1>5, CallKeeps
  <1>6. ASSUME NEW c \in Subscription, Receive(c) PROVE WayInOrder'
    BY <1>6, ReceiveKeeps
  <1>7. ASSUME NEW c \in Subscription, PutNoWait(c) \/ Get(c) \/ Send(c) PROVE WayInOrder'
    <2>1. UNCHANGED <<log, calls, current, todo, eventQueue, using>>
      BY <1>7 DEF PutNoWait, Get, Send, bus, dashboard
    <2>2. CASE ~(Send(c) /\ line[c] = "cut")
      <3>1. \A d \in Subscription : OnTheWay(d)' = OnTheWay(d)
        BY <1>7, <2>2, WayStays
      <3> QED
        BY <1>2, <2>1, <3>1
    <2>3. CASE Send(c) /\ line[c] = "cut"
      <3>1. /\ \A d \in Subscription : d # c => OnTheWay(d)' = OnTheWay(d)
            /\ OnTheWay(c)' \in Seq(Nat)
            /\ \E i \in Nat : LeavesOut(OnTheWay(c), OnTheWay(c)', i)
        BY <2>3, WayLoses
      <3>2. OnTheWay(c)' \in Seq(Nat) /\ Thinner(OnTheWay(c)', OnTheWay(c))
        BY <3>1 DEF Thinner
      <3>3. ASSUME NEW d \in Subscription
            PROVE  OnTheWay(d)' \in Seq(Nat) /\ Thinner(OnTheWay(d)', OnTheWay(d))
        <4>1. CASE d = c
          BY <3>2, <4>1
        <4>2. CASE d # c
          BY <1>1, <3>1, <4>2 DEF Thinner
        <4> QED
          BY <4>1, <4>2
      <3>4. \A d \in using' : d \in using \/ (Among(OnTheWay(d)) = {} /\ InTransit(d) = {})
        BY <2>1
      <3>5. UNCHANGED <<log, calls, current, todo, eventQueue>>
        BY <2>1
      <3> QED
        BY <3>3, <3>4, <3>5, QuietKeeps
    <2> QED
      BY <2>2, <2>3
  <1>8. ASSUME \/ \E c \in Subscription : \/ Enter(c) \/ Leave(c) \/ Cut(c) \/ Notice(c)
                                          \/ ShowConnected(c) \/ GiveUp(c) \/ CatchAll(c)
               \/ ConnectFails
        PROVE  WayInOrder'
    <2>1. /\ UNCHANGED <<log, calls, current, todo, eventQueue>> /\ using' \subseteq using
          /\ UNCHANGED <<ready, mailbox, hand, wire>>
      BY <1>8 DEF Enter, Leave, Subscribe, Unsubscribe, Cut, Notice, ShowConnected, ConnectFails,
                  GiveUp, CatchAll, bus, server, dashboard
    <2> QED
      BY <1>2, <1>3, <2>1
  <1>9. ASSUME NEW c \in Subscription, Connect(c) PROVE WayInOrder'
    <2>1. /\ UNCHANGED <<log, calls, current, todo, eventQueue>> /\ using' = {c}
          /\ UNCHANGED <<ready, mailbox, hand, wire>> /\ handler[c] = "none"
      BY <1>9 DEF Connect, bus
    <2>2. since[c] = -1
      BY <2>1 DEF Connections, Stands
    <2>3. Among(OnTheWay(c)) = {} /\ InTransit(c) = {}
      BY <2>2, NothingYet DEF WayInOrder
    <2> QED
      BY <1>2, <1>3, <2>1, <2>3
  <1>10. CASE UNCHANGED streamVars
    <2>1. UNCHANGED <<log, calls, current, todo, eventQueue, using, ready, mailbox, hand, wire>>
      BY <1>10 DEF streamVars, bus, server, dashboard
    <2> QED
      BY <1>2, <1>3, <2>1
  <1> QED
    BY <1>4, <1>5, <1>6, <1>7, <1>8, <1>9, <1>10 DEF StreamNext, ServerStep

\* In the beginning nothing is on the way.
LEMMA StreamStarts ==
    StreamInit => /\ StreamInv /\ ShownInOrder
                  /\ \A c \in Subscription : OnTheWay(c) = <<>>
  <1> SUFFICES ASSUME StreamInit
               PROVE  /\ StreamInv /\ ShownInOrder
                      /\ \A c \in Subscription : OnTheWay(c) = <<>>
    OBVIOUS
  <1>0. <<>> \in Seq(Nat) /\ Len(<<>>) = 0
    BY EmptySeq
  <1>1. ASSUME NEW c \in Subscription PROVE OnTheWay(c) = <<>>
    <2>1. Cat(<<>>, <<>>) = <<>>
      BY <1>0, CatNothing
    <2>2. OnTheWay(c) = Cat(<<>>, Cat(Cat(<<>>, <<>>), <<>>))
      BY DEF StreamInit, OnTheWay, Queued, Cat
    <2> QED
      BY <2>1, <2>2
  <1>2. StreamTypeOK
    <2>1. /\ ready \in [Subscription -> Seq(Nat)] /\ mailbox \in [Subscription -> Seq(Nat)]
          /\ hand \in [Subscription -> Seq(Nat)] /\ wire \in [Subscription -> Seq(Nat)]
          /\ received \in [Subscription -> Seq(Nat)] /\ eventQueue \in Seq(Nat)
      BY <1>0 DEF StreamInit
    <2>2. /\ handler \in [Subscription -> {"none", "open", "wait", "send", "end", "closed"}]
          /\ line \in [Subscription -> {"up", "cut", "noticed"}]
          /\ using \subseteq Subscription /\ connected \in BOOLEAN
      BY DEF StreamInit
    <2> QED
      BY <2>1, <2>2 DEF StreamTypeOK
  <1>3. Connections
    <2>1. ASSUME NEW c \in Subscription PROVE Stands(c)
      BY <1>0 DEF StreamInit, Init, Stands
    <2>2. Len(eventQueue) <= MaxShown
      BY <1>0, StreamAssumption DEF StreamInit
    <2>3. \A c, d \in using : c = d
      BY DEF StreamInit
    <2> QED
      BY <2>1, <2>2, <2>3 DEF Connections
  <1>4. WayInOrder
    <2>1. \A c \in Subscription : Len(OnTheWay(c)) = 0
      BY <1>0, <1>1
    <2>2. Len(log) = 0 /\ Len(eventQueue) = 0 /\ using = {} /\ MaxEvents \in Nat
      BY <1>0, BusAssumption DEF StreamInit, Init
    <2> QED
      BY <2>1, <2>2 DEF WayInOrder, Among
  <1>5. ShownInOrder
    BY <1>0 DEF StreamInit, ShownInOrder
  <1> QED
    BY <1>1, <1>2, <1>3, <1>4, <1>5 DEF StreamInv

\* The bus's invariant holds of the bus that the stream uses.
LEMMA BusInStream == StreamSpec => []BusIInv
  BY StreamUsesBus, Delivered, PTL

\* The types, where the connections stand, and the order of what is on the way.
THEOREM StreamInvariant == StreamSpec => []StreamInv
  <1>1. StreamInit => StreamInv
    BY StreamStarts
  <1>2. BusIInv /\ StreamInv /\ [StreamNext]_streamVars => StreamInv'
    <2>1. BusIInv => TypeOK
      BY DEF BusIInv, CallsInv
    <2> QED
      BY <2>1, StreamTypeKept, ConnectionsKept, WayKept DEF StreamInv
  <1> QED
    BY <1>1, <1>2, BusInStream, PTL DEF StreamSpec

\* What is shown stays in its order, newest first.
LEMMA ShownKept ==
    StreamInv /\ BusIInv /\ ShownInOrder /\ [StreamNext]_streamVars => ShownInOrder'
  <1> SUFFICES ASSUME StreamInv, BusIInv, ShownInOrder, [StreamNext]_streamVars
               PROVE  ShownInOrder'
    OBVIOUS
  <1>0. /\ StreamTypeOK /\ WayInOrder /\ TypeOK /\ Among(eventQueue) \subseteq Number
        /\ Len(eventQueue) \in Nat
    BY LenProperties DEF StreamInv, StreamTypeOK, BusIInv, CallsInv, WayInOrder
  <1>1. ASSUME NEW p \in Publisher, NEW e \in Event, Publish(p, e),
               UNCHANGED <<server, wire, line, dashboard>>
        PROVE  ShownInOrder'
    <2>1. eventQueue' = eventQueue
      BY <1>1 DEF dashboard
    <2>2. \A n \in Number : log'[n] = log[n]
      BY <1>0, <1>1, LogGrows
    <2>3. \A i \in 1 .. Len(eventQueue) : eventQueue[i] \in Number
      BY <1>0 DEF Among
    <2> QED
      BY <2>1, <2>2, <2>3 DEF ShownInOrder
  <1>2. ASSUME NEW c \in Subscription, Receive(c) PROVE ShownInOrder'
    <2> DEFINE h == Head(wire[c])
    <2>1. /\ Len(eventQueue') \in Nat /\ Len(eventQueue') <= Len(eventQueue) + 1
          /\ \A i \in 1 .. Len(eventQueue') :
                 eventQueue'[i] = IF i = 1 THEN h ELSE eventQueue[i - 1]
      BY <1>0, <1>2, ReceivedShown, LenProperties
    <2>2. log' = log /\ c \in using
      BY <1>2 DEF Receive, bus
    <2>3. \A m \in Among(eventQueue) : log[m].by = log[h].by => m < h
      <3>1. OnTheWay(c) # <<>> /\ h = Head(OnTheWay(c)) /\ OnTheWay(c) \in Seq(Nat)
        BY <1>0, <1>2, WayShrinks, WayTyped
      <3>2. h = OnTheWay(c)[1] /\ 1 \in 1 .. Len(OnTheWay(c))
        BY <3>1, HeadAndTail, EmptySeq
      <3>3. h \in Among(OnTheWay(c))
        BY <3>2 DEF Among
      <3> QED
        BY <1>0, <2>2, <3>3 DEF WayInOrder
    <2> HIDE DEF h
    <2> SUFFICES ASSUME NEW i \in 1 .. Len(eventQueue'), NEW j \in 1 .. Len(eventQueue'), i < j,
                        log[eventQueue'[i]].by = log[eventQueue'[j]].by
                 PROVE  eventQueue'[i] > eventQueue'[j]
      BY <2>2 DEF ShownInOrder
    <2>4. j # 1 /\ j - 1 \in 1 .. Len(eventQueue) /\ eventQueue'[j] = eventQueue[j - 1]
      BY <1>0, <2>1
    <2>5. CASE i = 1
      <3>1. eventQueue'[i] = h /\ eventQueue[j - 1] \in Among(eventQueue)
        BY <2>1, <2>4, <2>5 DEF Among
      <3>2. eventQueue[j - 1] < h
        BY <2>3, <2>4, <3>1
      <3>3. h \in Nat /\ eventQueue[j - 1] \in Nat
        <4>1. wire[c] \in Seq(Nat) /\ wire[c] # <<>> /\ eventQueue \in Seq(Nat)
          BY <1>0, <1>2, WayTyped DEF Receive, StreamTypeOK
        <4> QED
          BY <2>4, <4>1, HeadTailProperties, ElementOfSeq DEF h
      <3> QED
        BY <2>4, <3>1, <3>2, <3>3
    <2>6. CASE i # 1
      <3>1. /\ i - 1 \in 1 .. Len(eventQueue) /\ i - 1 < j - 1
            /\ eventQueue'[i] = eventQueue[i - 1]
        BY <1>0, <2>1, <2>6
      <3> QED
        BY <2>4, <3>1 DEF ShownInOrder
    <2> QED
      BY <2>5, <2>6
  <1>3. ASSUME UNCHANGED <<log, eventQueue>> PROVE ShownInOrder'
    BY <1>3 DEF ShownInOrder
  <1>4. CASE \E p \in Publisher, c \in Subscription : Callback(p, c)
    BY <1>3, <1>4 DEF Callback, Dispatch, dashboard
  <1>5. CASE \E c \in Subscription :
                 \/ PutNoWait(c) \/ Enter(c) \/ Get(c) \/ Send(c) \/ Leave(c)
                 \/ Cut(c) \/ Notice(c) \/ Connect(c) \/ ShowConnected(c) \/ GiveUp(c) \/ CatchAll(c)
    BY <1>3, <1>5 DEF PutNoWait, Enter, Get, Send, Leave, Cut, Notice, Connect, ShowConnected,
                      GiveUp, CatchAll, Subscribe, Unsubscribe, bus, dashboard
  <1>6. CASE UNCHANGED streamVars
    BY <1>3, <1>6 DEF streamVars, bus, dashboard
  <1>7. CASE ConnectFails
    BY <1>3, <1>7 DEF ConnectFails, bus
  <1> QED
    BY <1>1, <1>2, <1>4, <1>5, <1>6, <1>7 DEF StreamNext, ServerStep

\* What the dashboard shows of one publisher is in the order it was published,
\* newest first, over any number of connections.
THEOREM ShownInOrderThm == StreamSpec => []ShownInOrder
  <1>1. StreamInit => ShownInOrder
    BY StreamStarts
  <1> QED
    BY <1>1, ShownKept, StreamInvariant, BusInStream, PTL DEF StreamSpec

-----------------------------------------------------------------------------
(* The endpoint keeps the promise of Delivery                              *)

Pending == [c \in Subscription |-> OnTheWay(c)]
Up == [c \in Subscription |-> line[c] = "up"]

\* A callback that passes offers its event to the connection.
LEMMA CallOffers ==
    ASSUME StreamInv, BusIInv, NEW p \in Publisher, NEW c \in Subscription, Callback(p, c)
    PROVE  [Promise!Next]_(Promise!delivery)
  <1>1. StreamTypeOK /\ TypeOK /\ CallsInv /\ Len(log) <= MaxEvents
    BY DEF StreamInv, WayInOrder, BusIInv, CallsInv
  <1>2. line' = line /\ received' = received
    BY DEF Callback, dashboard
  <1>3. current[p] \in 1 .. MaxEvents
    <2>1. current[p] \in 1 .. Len(log)
      BY DEF Callback, Dispatch, BusIInv, CallsInv, Number
    <2>2. Len(log) \in Nat /\ MaxEvents \in Nat
      BY <1>1, BusAssumption, LenProperties DEF TypeOK
    <2> QED
      BY <1>1, <2>1, <2>2
  <1>4. /\ \A d \in Subscription : d # c => OnTheWay(d)' = OnTheWay(d)
        /\ OnTheWay(c)' \in {Added(OnTheWay(c), current[p]), OnTheWay(c)}
    BY <1>1, WayGrows
  <1>5. CASE OnTheWay(c)' = OnTheWay(c)
    <2>1. Pending' = Pending
      BY <1>4, <1>5 DEF Pending
    <2> QED
      BY <1>2, <2>1 DEF Pending, Promise!delivery
  <1>6. CASE OnTheWay(c)' = Added(OnTheWay(c), current[p])
    <2>1. Pending' = [Pending EXCEPT ![c] = Added(Pending[c], current[p])]
      BY <1>4, <1>6 DEF Pending
    <2>2. Promise!Offer(c, current[p])
      BY <1>2, <2>1 DEF Promise!Offer, Pending, Added
    <2> QED
      BY <1>3, <2>2 DEF Promise!Next
  <1> QED
    BY <1>4, <1>5, <1>6

\* A client that receives is delivered to.
LEMMA ReceiveDelivers ==
    ASSUME StreamInv, NEW c \in Subscription, Receive(c)
    PROVE  Promise!Deliver(c)
  <1>1. /\ \A d \in Subscription : d # c => OnTheWay(d)' = OnTheWay(d)
        /\ OnTheWay(c) # <<>> /\ OnTheWay(c)' = Tail(OnTheWay(c))
        /\ Head(wire[c]) = Head(OnTheWay(c))
    BY WayShrinks DEF StreamInv
  <1>2. /\ line' = line
        /\ received' = [received EXCEPT ![c] = Append(received[c], Head(wire[c]))]
    BY DEF Receive
  <1>3. Pending[c] = OnTheWay(c)
        /\ Pending' = [Pending EXCEPT ![c] = Tail(Pending[c])]
    BY <1>1 DEF Pending
  <1>4. received' = [received EXCEPT ![c] = Append(received[c], Head(Pending[c]))]
    BY <1>1, <1>2, <1>3
  <1>5. Pending[c] # <<>>
    BY <1>1, <1>3
  <1> QED
    BY <1>2, <1>3, <1>4, <1>5 DEF Promise!Deliver, Pending

\* A send into a line that is cut loses what it sends.
LEMMA SendLoses ==
    ASSUME StreamInv, NEW c \in Subscription, Send(c), line[c] = "cut"
    PROVE  Promise!Lose(c)
  <1>1. StreamTypeOK /\ Connections
    BY DEF StreamInv
  <1>2. /\ \A d \in Subscription : d # c => OnTheWay(d)' = OnTheWay(d)
        /\ \E i \in Nat : LeavesOut(OnTheWay(c), OnTheWay(c)', i)
    BY <1>1, WayLoses
  <1>3. PICK i \in 1 .. Len(OnTheWay(c)) :
            OnTheWay(c)' = Cat(SubSeq(OnTheWay(c), 1, i - 1),
                               SubSeq(OnTheWay(c), i + 1, Len(OnTheWay(c))))
    BY <1>2 DEF LeavesOut
  <1>4. Pending[c] = OnTheWay(c)
    BY DEF Pending
  <1>5. Pending' = [Pending EXCEPT ![c] =
                         Cat(SubSeq(Pending[c], 1, i - 1),
                             SubSeq(Pending[c], i + 1, Len(Pending[c])))]
    BY <1>2, <1>3 DEF Pending
  <1>6. line' = line /\ received' = received
    BY DEF Send, dashboard
  <1>7. i \in 1 .. Len(Pending[c])
    BY <1>4
  <1> QED
    BY <1>5, <1>6, <1>7 DEF Promise!Lose, Pending, Cat

\* A line that is cut breaks, whoever cuts it.
LEMMA CutBreaks ==
    ASSUME StreamInv, NEW c \in Subscription, Cut(c) \/ (CatchAll(c) /\ line[c] = "up")
    PROVE  Promise!Break(c)
  <1>1. line' = [line EXCEPT ![c] = "cut"] /\ received' = received
        /\ UNCHANGED <<ready, mailbox, hand, wire>>
    BY DEF Cut, CatchAll, server, dashboard
  <1>2. Up' = [Up EXCEPT ![c] = FALSE]
    <2>1. line \in [Subscription -> {"up", "cut", "noticed"}]
      BY DEF StreamInv, StreamTypeOK
    <2>2. \A d \in Subscription : (line'[d] = "up") = IF d = c THEN FALSE ELSE line[d] = "up"
      BY <1>1, <2>1
    <2> QED
      BY <2>2 DEF Up
  <1>3. Pending' = Pending
    BY <1>1 DEF Pending, OnTheWay, Queued
  <1> QED
    BY <1>1, <1>2, <1>3 DEF Promise!Break, Up, Pending

\* Every other step is none of the promise's.
LEMMA OthersStutter ==
    ASSUME StreamInv,
           \/ UNCHANGED streamVars
           \/ \E p \in Publisher, e \in Event : /\ Publish(p, e)
                                                /\ UNCHANGED <<server, wire, line, dashboard>>
           \/ \E c \in Subscription :
                  \/ Enter(c) \/ Leave(c) \/ Connect(c) \/ ShowConnected(c) \/ GiveUp(c)
                  \/ Notice(c) \/ (CatchAll(c) /\ line[c] # "up")
                  \/ PutNoWait(c) \/ Get(c) \/ (Send(c) /\ line[c] # "cut")
           \/ ConnectFails
    PROVE  UNCHANGED Promise!delivery
  <1>0. StreamTypeOK /\ Connections
    BY DEF StreamInv
  <1>1. \A d \in Subscription : OnTheWay(d)' = OnTheWay(d)
    <2>1. CASE \E c \in Subscription :
                   PutNoWait(c) \/ Get(c) \/ (Send(c) /\ line[c] # "cut")
      BY <1>0, <2>1, WayStays
    <2>2. CASE UNCHANGED <<ready, mailbox, hand, wire>>
      BY <2>2 DEF OnTheWay, Queued
    <2> QED
      BY <2>1, <2>2 DEF streamVars, server, Enter, Leave, Connect, ShowConnected, ConnectFails,
                        GiveUp, CatchAll, Notice
  <1>2. received' = received
    BY DEF streamVars, dashboard, Enter, Leave, Connect, ShowConnected, ConnectFails, GiveUp,
           CatchAll, Notice, PutNoWait, Get, Send
  <1>3. \A d \in Subscription : line'[d] = "up" <=> line[d] = "up"
    <2>1. CASE line' = line
      BY <2>1
    <2>2. CASE \E c \in Subscription : Notice(c) \/ (CatchAll(c) /\ line[c] # "up")
      <3>1. line \in [Subscription -> {"up", "cut", "noticed"}]
        BY <1>0 DEF StreamTypeOK
      <3> QED
        BY <2>2, <3>1 DEF Notice, CatchAll
    <2> QED
      BY <2>1, <2>2 DEF streamVars, Enter, Leave, Connect, ShowConnected, ConnectFails, GiveUp,
                        PutNoWait, Get, Send
  <1>4. Pending' = Pending
    BY <1>1 DEF Pending
  <1>5. Up' = Up
    BY <1>3 DEF Up
  <1> QED
    BY <1>2, <1>4, <1>5 DEF Promise!delivery, Pending, Up

\* The safety part of what a connection promises its client: what the bus calls
\* it with and it wants arrives in that order, each event once, and nothing is
\* lost but on a line that broke.
THEOREM StreamDelivers == StreamSpec => Promise!Orderly
  <1>1. StreamInit => Promise!Init
    <2> SUFFICES ASSUME StreamInit PROVE Promise!Init
      OBVIOUS
    <2>1. \A c \in Subscription : OnTheWay(c) = <<>>
      BY StreamStarts
    <2>2. Pending = [c \in Subscription |-> <<>>]
      BY <2>1 DEF Pending
    <2>3. Up = [c \in Subscription |-> TRUE] /\ received = [c \in Subscription |-> <<>>]
      BY DEF StreamInit, Up
    <2> QED
      BY <2>2, <2>3 DEF Promise!Init, Pending, Up
  <1>2. StreamInv /\ BusIInv /\ [StreamNext]_streamVars => [Promise!Next]_(Promise!delivery)
    <2> SUFFICES ASSUME StreamInv, BusIInv, [StreamNext]_streamVars
                 PROVE  [Promise!Next]_(Promise!delivery)
      OBVIOUS
    <2>1. ASSUME NEW p \in Publisher, NEW c \in Subscription, Callback(p, c)
          PROVE  [Promise!Next]_(Promise!delivery)
      BY <2>1, CallOffers
    <2>2. ASSUME NEW c \in Subscription, Receive(c) PROVE Promise!Next
      BY <2>2, ReceiveDelivers DEF Promise!Next
    <2>3. ASSUME NEW c \in Subscription, Send(c), line[c] = "cut" PROVE Promise!Next
      BY <2>3, SendLoses DEF Promise!Next
    <2>4. ASSUME NEW c \in Subscription, Cut(c) \/ (CatchAll(c) /\ line[c] = "up")
          PROVE  Promise!Next
      BY <2>4, CutBreaks DEF Promise!Next
    <2>5. ASSUME \/ UNCHANGED streamVars
                 \/ \E p \in Publisher, e \in Event :
                        Publish(p, e) /\ UNCHANGED <<server, wire, line, dashboard>>
                 \/ \E c \in Subscription :
                        \/ Enter(c) \/ Leave(c) \/ Connect(c) \/ ShowConnected(c) \/ GiveUp(c)
                        \/ Notice(c) \/ (CatchAll(c) /\ line[c] # "up")
                        \/ PutNoWait(c) \/ Get(c) \/ (Send(c) /\ line[c] # "cut")
                 \/ ConnectFails
          PROVE  UNCHANGED Promise!delivery
      BY <2>5, OthersStutter
    <2> QED
      BY <2>1, <2>2, <2>3, <2>4, <2>5 DEF StreamNext, ServerStep
  <1> QED
    BY <1>1, <1>2, StreamInvariant, BusInStream, PTL DEF StreamSpec, Promise!Orderly
=============================================================================
