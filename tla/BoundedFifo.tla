---------------------------- MODULE BoundedFifo ----------------------------
(***************************************************************************)
(* What the producers and consumers of 5-semestr/lab5/task1.c promise      *)
(* together: the letters travel through a first-in first-out queue that    *)
(* never holds more than Capacity of them; none is lost, repeated or       *)
(* invented on the way.                                                    *)
(***************************************************************************)
EXTENDS Naturals, Sequences

CONSTANTS Values,    \* the letters that can be produced
          Capacity   \* the most letters that wait at any time

VARIABLES queue,     \* produced and not yet consumed
          out        \* consumed, in order

Init == queue = <<>> /\ out = <<>>

Put(v) == /\ Len(queue) < Capacity
          /\ queue' = Append(queue, v)
          /\ UNCHANGED out

Get == /\ queue # <<>>
       /\ out' = Append(out, Head(queue))
       /\ queue' = Tail(queue)

Next == Get \/ \E v \in Values : Put(v)

Spec == Init /\ [][Next]_<<queue, out>>
=============================================================================
