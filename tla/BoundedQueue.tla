----------------------------- MODULE BoundedQueue -----------------------------
(***************************************************************************)
(* What the driver's FIFOs promise to the code around them: a queue of at  *)
(* most Size messages from which the oldest leave first, in the order in   *)
(* which they came, and which is emptied only as a whole.  One step may    *)
(* take several messages (a USB telegram) or add several (one interrupt).  *)
(***************************************************************************)
EXTENDS Integers, Sequences, SequencesExt

CONSTANT Size
VARIABLE q

Init == q = <<>>

Enqueue == IsPrefix(q, q') /\ Len(q') <= Size
Dequeue == IsSuffix(q', q)
Flush == q' = <<>>

Next == Enqueue \/ Dequeue \/ Flush

Spec == Init /\ [][Next]_q
===============================================================================
