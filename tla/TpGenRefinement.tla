-------------------------- MODULE TpGenRefinement --------------------------
(***************************************************************************)
(* The engine of tp_gen.c implements ReliableTransfer: the state of the    *)
(* abstract channel is the part of the engine's state of the same name.    *)
(***************************************************************************)
EXTENDS TpGen

Transfer == INSTANCE ReliableTransfer

\* The engine, whatever the bus does, is a reliable transfer that does not
\* sit on a pending message: it delivers it or breaks the channel.
ImplementsTransfer == Transfer!FairSpec

\* The safety half: whole messages, once, in order, and none counted as
\* complete before the peer's socket has it.
ImplementsTransferSafely == Transfer!Spec
=============================================================================
