-------------------------- MODULE ReliableTransfer --------------------------
(***************************************************************************)
(* What the transport protocols promise the two applications at the ends   *)
(* of a channel: messages arrive whole, once and in the order of           *)
(* submission; the sender counts a message as complete only when it has    *)
(* arrived; the channel may break, and does so only with messages pending. *)
(***************************************************************************)
EXTENDS Integers, Sequences

CONSTANTS Sizes, MaxMsgs

VARIABLES accepted, delivered, done, con

vars == <<accepted, delivered, done, con>>

Content(m) == [k \in 1 .. m.size |-> m.from + k - 1]

NextFree == IF accepted = <<>> THEN 0
            ELSE LET m == accepted[Len(accepted)] IN m.from + m.size

Init == accepted = <<>> /\ delivered = <<>> /\ done = 0 /\ con = TRUE

Submit(size) ==
  /\ con /\ Len(accepted) < MaxMsgs
  /\ accepted' = Append(accepted, [from |-> NextFree, size |-> size])
  /\ UNCHANGED <<delivered, done, con>>

Deliver ==
  /\ Len(delivered) < Len(accepted)
  /\ delivered' = Append(delivered, Content(accepted[Len(delivered) + 1]))
  /\ UNCHANGED <<accepted, done, con>>

Confirm ==
  /\ done < Len(delivered)
  /\ done' = done + 1
  /\ UNCHANGED <<accepted, delivered, con>>

Break ==
  /\ con /\ done < Len(accepted)
  /\ con' = FALSE
  /\ UNCHANGED <<accepted, delivered, done>>

Next == (\E size \in Sizes : Submit(size)) \/ Deliver \/ Confirm \/ Break

Spec == Init /\ [][Next]_vars

\* A channel that is up does not sit on a pending message.
Progress == con /\ done < Len(accepted) /\ (Deliver \/ Confirm \/ Break)

FairSpec == Spec /\ WF_vars(Progress)
=============================================================================
