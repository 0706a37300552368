-------------------------------- MODULE MCBcmRx --------------------------------
(***************************************************************************)
(* BcmRx with frames whose relevant content changes, and two multiplexed   *)
(* ones that come and go only.                                             *)
(***************************************************************************)
EXTENDS BcmRx

MCValues == [i \in 0 .. 2 |-> IF i = 0 THEN {"u", "v"} ELSE {"u"}]
===============================================================================
