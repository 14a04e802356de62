---------------------------- MODULE DuplexChannel ----------------------------
(***************************************************************************)
(* What two parties expect of a protected connection: each direction is a  *)
(* FIFO queue of messages, and every message sent arrives, in order and    *)
(* once.                                                                   *)
(***************************************************************************)
EXTENDS Naturals, Sequences

Party == {"A", "B"}
Other(p) == IF p = "A" THEN "B" ELSE "A"

VARIABLES queue,      \* queue[p]: messages of p under way
          delivered   \* delivered[p]: messages p has received

Init == /\ queue = [p \in Party |-> <<>>]
        /\ delivered = [p \in Party |-> <<>>]

\* A sender numbers its messages from 0.
Total(p) == Len(queue[p]) + Len(delivered[Other(p)])

Send(p) == /\ queue' = [queue EXCEPT ![p] = Append(@, Total(p))]
           /\ UNCHANGED delivered

Deliver(p) == /\ queue[Other(p)] # <<>>
              /\ delivered' = [delivered EXCEPT ![p] = Append(@, Head(queue[Other(p)]))]
              /\ queue' = [queue EXCEPT ![Other(p)] = Tail(@)]

Next == \E p \in Party : Send(p) \/ Deliver(p)

Spec == Init /\ [][Next]_<<queue, delivered>>

===============================================================================
