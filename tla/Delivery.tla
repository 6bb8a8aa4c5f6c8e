------------------------------ MODULE Delivery ------------------------------
(***************************************************************************)
(* What a WebSocket connection of /ws/events promises its client: what it  *)
(* is offered arrives in the order it was offered, each once, and all of   *)
(* it as long as the line is up. A line that broke may lose anything.      *)
(***************************************************************************)
EXTENDS Naturals, Sequences

CONSTANTS Connection, Item

VARIABLES up, pending, delivered
delivery == <<up, pending, delivered>>

Init == /\ up = [c \in Connection |-> TRUE]
        /\ pending = [c \in Connection |-> <<>>]
        /\ delivered = [c \in Connection |-> <<>>]

Offer(c, n) == /\ pending' = [pending EXCEPT ![c] = Append(@, n)]
               /\ UNCHANGED <<up, delivered>>

Deliver(c) == /\ pending[c] # <<>>
              /\ delivered' = [delivered EXCEPT ![c] = Append(@, Head(pending[c]))]
              /\ pending' = [pending EXCEPT ![c] = Tail(@)]
              /\ UNCHANGED up

Break(c) == up' = [up EXCEPT ![c] = FALSE] /\ UNCHANGED <<pending, delivered>>

Lose(c) == /\ ~up[c]
           /\ \E i \in 1 .. Len(pending[c]) :
                  pending' = [pending EXCEPT ![c] =
                                 SubSeq(@, 1, i - 1) \o SubSeq(@, i + 1, Len(@))]
           /\ UNCHANGED <<up, delivered>>

Next == \E c \in Connection : \/ \E n \in Item : Offer(c, n)
                              \/ Deliver(c) \/ Break(c) \/ Lose(c)

\* In order, each once, and all of it that the line does not lose.
Orderly == Init /\ [][Next]_delivery

Spec == Orderly /\ \A c \in Connection : WF_delivery(up[c] /\ Deliver(c))
=============================================================================
