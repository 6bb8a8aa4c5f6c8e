----------------------------- MODULE EventStream -----------------------------
(***************************************************************************)
(* The way of an event from the bus (EventBus) to the dashboard: the       *)
(* endpoint api/routes/ws.py and the consumer dashboard/components/        *)
(* ws_client.py, which connects again when its connection ends.            *)
(*                                                                         *)
(* A subscription is a connection; they are numbered as they come. Its     *)
(* callback runs in a thread that publishes and leaves the event with the  *)
(* event loop (call_soon_threadsafe); the loop puts it into the            *)
(* connection's queue, where the handler finds it. The loop runs what is   *)
(* ready in the order it was left; it is kept by connection here, as the   *)
(* order between two connections makes no difference to either. The        *)
(* handler never receives: that a client has gone it learns from a send    *)
(* that fails.                                                             *)
(*                                                                         *)
(* An operator marked "Mutant" is a variant of the operation after it with *)
(* a bug that is easily made; no specification uses it.                    *)
(***************************************************************************)
EXTENDS EventBus

CONSTANTS Query,            \* the sets of modules and of types asked for, {} for all
          MaxShown          \* max_events of the dashboard

ASSUME StreamAssumption == Subscription \subseteq Nat /\ MaxShown \in Nat

VARIABLES handler,          \* handler[c]: where websocket_events stands
          ready,            \* ready[c]: what the event loop has yet to put into its queue
          mailbox,          \* mailbox[c]: its queue
          hand,             \* hand[c]: the event it sends, if any
          wire,             \* wire[c]: sent and not yet received
          line,             \* line[c]: "up", "cut", or "noticed" by the server
          using,            \* the connections the dashboard has open: one or none
          eventQueue,       \* what it shows, newest first
          connected,        \* ws_connected
          received          \* received[c]: everything it received over c

bus == <<lists, history, eventCount, current, todo, log, calls>>
server == <<handler, ready, mailbox, hand>>
dashboard == <<using, eventQueue, connected, received>>
streamVars == <<bus, server, wire, line, dashboard>>

StreamInit == /\ Init
              /\ handler = [c \in Subscription |-> "none"]
              /\ ready = [c \in Subscription |-> <<>>]
              /\ mailbox = [c \in Subscription |-> <<>>]
              /\ hand = [c \in Subscription |-> <<>>]
              /\ wire = [c \in Subscription |-> <<>>]
              /\ line = [c \in Subscription |-> "up"]
              /\ using = {} /\ eventQueue = <<>> /\ connected = FALSE
              /\ received = [c \in Subscription |-> <<>>]

Goto(c, step) == handler' = [handler EXCEPT ![c] = step]

-----------------------------------------------------------------------------
(* The endpoint                                                            *)

\* "event_bus.subscribe(...)"
Enter(c) == /\ handler[c] = "open"
            /\ Subscribe(c)
            /\ Goto(c, "wait")
            /\ UNCHANGED <<ready, mailbox, hand, wire, line, dashboard>>

\* What the bus does not filter: sets of modules and of types.
Passes(c, e) == /\ Query[c].modules = {} \/ e.module \in Query[c].modules
                /\ Query[c].types = {} \/ e.type \in Query[c].types

\* Mutant: an event that comes while the loop has work goes to the front of it.
HandOverFront(c, n) == ready' = [ready EXCEPT ![c] = <<n>> \o @]

\* "loop.call_soon_threadsafe(queue.put_nowait, event)"
HandOver(c, n) == ready' = [ready EXCEPT ![c] = Append(@, n)]

\* publish() calls sync_event_callback of c.
Callback(p, c) ==
    /\ Dispatch(p, c)
    /\ IF Passes(c, log[current[p]].event) THEN HandOver(c, current[p]) ELSE UNCHANGED ready
    /\ UNCHANGED <<handler, mailbox, hand, wire, line, dashboard>>

\* Mutant: the queue is bounded and an event too many is dropped.
PutIfRoom(c) == /\ ready[c] # <<>>
                /\ mailbox' = IF mailbox[c] # <<>> THEN mailbox
                              ELSE [mailbox EXCEPT ![c] = <<Head(ready[c])>>]
                /\ ready' = [ready EXCEPT ![c] = Tail(@)]
                /\ UNCHANGED <<bus, handler, hand, wire, line, dashboard>>

\* The event loop runs the next callback of a connection.
PutNoWait(c) == /\ ready[c] # <<>>
                /\ mailbox' = [mailbox EXCEPT ![c] = Append(@, Head(ready[c]))]
                /\ ready' = [ready EXCEPT ![c] = Tail(@)]
                /\ UNCHANGED <<bus, handler, hand, wire, line, dashboard>>

\* "event = await queue.get()"
Get(c) == /\ handler[c] = "wait" /\ mailbox[c] # <<>>
          /\ hand' = [hand EXCEPT ![c] = <<Head(mailbox[c])>>]
          /\ mailbox' = [mailbox EXCEPT ![c] = Tail(@)]
          /\ Goto(c, "send")
          /\ UNCHANGED <<bus, ready, wire, line, dashboard>>

\* Mutant: the handler goes on after a send that failed.
SendOn(c) ==
    /\ handler[c] = "send"
    /\ Goto(c, "wait")
    /\ hand' = [hand EXCEPT ![c] = <<>>]
    /\ wire' = IF line[c] = "up" THEN [wire EXCEPT ![c] = @ \o hand[c]] ELSE wire
    /\ UNCHANGED <<bus, ready, mailbox, line, dashboard>>

\* "await websocket.send_json(payload)": it raises once the server knows that
\* the client has gone; before that what is sent is lost.
Send(c) ==
    /\ handler[c] = "send"
    /\ IF line[c] = "noticed" THEN Goto(c, "end") /\ UNCHANGED <<hand, wire>>
       ELSE /\ Goto(c, "wait")
            /\ hand' = [hand EXCEPT ![c] = <<>>]
            /\ wire' = IF line[c] = "up" THEN [wire EXCEPT ![c] = @ \o hand[c]] ELSE wire
    /\ UNCHANGED <<bus, ready, mailbox, line, dashboard>>

\* Mutant: the subscription stays.
LeaveSubscribed(c) == /\ handler[c] = "end"
                      /\ Goto(c, "closed")
                      /\ UNCHANGED <<bus, ready, mailbox, hand, wire, line, dashboard>>

\* "ALWAYS unsubscribe ..."
Leave(c) == /\ handler[c] = "end"
            /\ Unsubscribe(c)
            /\ Goto(c, "closed")
            /\ UNCHANGED <<ready, mailbox, hand, wire, line, dashboard>>

-----------------------------------------------------------------------------
(* The line and the dashboard                                              *)

\* The network, or the other side's process, fails.
Cut(c) == /\ line[c] = "up" /\ c \in using
          /\ line' = [line EXCEPT ![c] = "cut"]
          /\ UNCHANGED <<bus, server, wire, dashboard>>

Notice(c) == /\ line[c] = "cut"
             /\ line' = [line EXCEPT ![c] = "noticed"]
             /\ UNCHANGED <<bus, server, wire, dashboard>>

\* "async with websockets.connect(url)", and accept() on the other side.
Connect(c) == /\ using = {} /\ handler[c] = "none"
              /\ \A d \in Subscription : d < c => handler[d] # "none"
              /\ using' = {c}
              /\ Goto(c, "open")
              /\ UNCHANGED <<bus, ready, mailbox, hand, wire, line, eventQueue, connected, received>>

\* "ws_connected = True", before the first recv().
ShowConnected(c) == /\ c \in using /\ ~connected
                    /\ connected' = TRUE
                    /\ UNCHANGED <<bus, server, wire, line, using, eventQueue, received>>

\* OSError or TimeoutError: no connection comes about.
ConnectFails == /\ using = {} /\ connected
                /\ connected' = FALSE
                /\ UNCHANGED <<bus, server, wire, line, using, eventQueue, received>>

\* "event_queue.insert(0, event_data)" and the truncation.
Receive(c) ==
    /\ c \in using /\ connected /\ wire[c] # <<>>
    /\ eventQueue' = LET longer == <<Head(wire[c])>> \o eventQueue
                     IN  IF Len(longer) > MaxShown THEN SubSeq(longer, 1, MaxShown) ELSE longer
    /\ received' = [received EXCEPT ![c] = Append(@, Head(wire[c]))]
    /\ wire' = [wire EXCEPT ![c] = Tail(@)]
    /\ UNCHANGED <<bus, server, line, using, connected>>

\* ConnectionClosed: "ws_connected = False"; what has not been received is lost.
GiveUp(c) == /\ c \in using /\ line[c] # "up"
             /\ using' = {} /\ connected' = FALSE
             /\ UNCHANGED <<bus, server, wire, line, eventQueue, received>>

\* "except Exception": leaving "async with" closes the connection, and
\* ws_connected stays as it was.
CatchAll(c) == /\ c \in using
               /\ using' = {}
               /\ line' = [line EXCEPT ![c] = IF @ = "up" THEN "cut" ELSE @]
               /\ UNCHANGED <<bus, server, wire, eventQueue, connected, received>>

-----------------------------------------------------------------------------

ServerStep(c) == Enter(c) \/ Get(c) \/ Send(c) \/ Leave(c)
StreamNext ==
    \/ \E p \in Publisher : \/ \E e \in Event : /\ Publish(p, e)
                                                /\ UNCHANGED <<server, wire, line, dashboard>>
                            \/ \E c \in Subscription : Callback(p, c)
    \/ \E c \in Subscription : \/ PutNoWait(c) \/ ServerStep(c) \/ Cut(c) \/ Notice(c)
                               \/ Connect(c) \/ ShowConnected(c) \/ Receive(c)
                               \/ GiveUp(c) \/ CatchAll(c)
    \/ ConnectFails

StreamSpec == StreamInit /\ [][StreamNext]_streamVars

\* A thread that publishes, the event loop, the dashboard's thread and the
\* server's transport each go on as long as they have something to do.
FairStream ==
    /\ StreamSpec
    /\ \A p \in Publisher : WF_streamVars(\E c \in Subscription : Callback(p, c))
    /\ WF_streamVars(\E c \in Subscription : PutNoWait(c) \/ ServerStep(c))
    /\ WF_streamVars(\E c \in Subscription : ShowConnected(c) \/ Receive(c))
    /\ WF_streamVars(\E c \in Subscription : Notice(c))

-----------------------------------------------------------------------------
(* Properties                                                              *)

Queued(c) == hand[c] \o mailbox[c] \o ready[c]
OnTheWay(c) == wire[c] \o Queued(c)

\* The endpoint keeps the promise of Delivery for the events it wants.
Promise == INSTANCE Delivery WITH
    Connection <- Subscription, Item <- 1 .. MaxEvents,
    up <- [c \in Subscription |-> line[c] = "up"],
    pending <- [c \in Subscription |-> OnTheWay(c)],
    delivered <- received
ImplementsDelivery == Promise!Spec

StreamTypeOK ==
    /\ handler \in [Subscription -> {"none", "open", "wait", "send", "end", "closed"}]
    /\ {ready, mailbox, hand, wire, received} \subseteq [Subscription -> Seq(Nat)]
    /\ line \in [Subscription -> {"up", "cut", "noticed"}]
    /\ using \subseteq Subscription /\ connected \in BOOLEAN
    /\ eventQueue \in Seq(Nat)

\* Where a connection stands: it is subscribed from Enter to Leave, the
\* dashboard's while its line is up, and has nothing in hand unless it sends it.
Stands(c) ==
    /\ since[c] = -1 <=> handler[c] \in {"none", "open"}
    /\ c \in subscribers <=> handler[c] \in {"wait", "send", "end"}
    /\ Len(hand[c]) = IF handler[c] \in {"send", "end", "closed"} THEN 1 ELSE 0
    /\ c \in using => handler[c] # "none"
    /\ line[c] = "up" /\ handler[c] # "none" => c \in using
    /\ handler[c] \in {"end", "closed"} => line[c] = "noticed"

Connections ==
    /\ \A c, d \in using : c = d
    /\ \A c \in Subscription : Stands(c)
    /\ Len(eventQueue) <= MaxShown

Among(s) == {s[i] : i \in 1 .. Len(s)}

\* On the way to a client is what it was called with, and of one publisher in
\* the order it was published; what is shown was published before all that may
\* still come to the dashboard.
WayInOrder ==
    /\ Len(log) <= MaxEvents /\ Among(eventQueue) \subseteq Number
    /\ \A c \in Subscription :
           /\ Among(OnTheWay(c)) \subseteq Called(c)
           /\ \A i, j \in 1 .. Len(OnTheWay(c)) :
                  i < j /\ log[OnTheWay(c)[i]].by = log[OnTheWay(c)[j]].by =>
                      OnTheWay(c)[i] < OnTheWay(c)[j]
    /\ \A c \in using, m \in Among(eventQueue) :
           \A n \in Among(OnTheWay(c)) \union InTransit(c) :
               log[m].by = log[n].by => m < n

StreamInv == StreamTypeOK /\ Connections /\ WayInOrder

\* What the dashboard shows of one publisher is in the order it was published,
\* newest first, and nothing is there twice, over any number of connections.
ShownInOrder == \A i, j \in 1 .. Len(eventQueue) :
    i < j /\ log[eventQueue[i]].by = log[eventQueue[j]].by => eventQueue[i] > eventQueue[j]

\* A client that has gone costs one more event: the handler that tries to send
\* it ends and unsubscribes.
GoneEnds == \A c \in Subscription :
    (line[c] = "noticed" /\ c \in subscribers /\ Queued(c) # <<>>) ~> c \notin subscribers
=============================================================================
