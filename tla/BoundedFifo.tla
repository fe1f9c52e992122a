------------------------------ MODULE BoundedFifo ------------------------------
(***************************************************************************)
(* What SpscQueue promises: a FIFO with room for Room elements.  sent and  *)
(* received are the histories of the two ends; the elements waiting are    *)
(* those of sent beyond the length of received.                            *)
(***************************************************************************)
EXTENDS Integers, Sequences

CONSTANTS Elements, Room

VARIABLES sent, received

vars == <<sent, received>>

Waiting == Len(sent) - Len(received)

Init ==
  /\ sent     = <<>>
  /\ received = <<>>

Enqueue(e) ==
  /\ Waiting < Room
  /\ sent' = Append(sent, e)
  /\ UNCHANGED received

Dequeue ==
  /\ Waiting > 0
  /\ received' = Append(received, sent[Len(received) + 1])
  /\ UNCHANGED sent

Next == (\E e \in Elements : Enqueue(e)) \/ Dequeue

Spec == Init /\ [][Next]_vars

=============================================================================
