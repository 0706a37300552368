-------------------------------- MODULE MCNet --------------------------------
(***************************************************************************)
(* MCNet, mcnet.c: connection setup and the connection test.  There is no  *)
(* DC frame: a node learns from its connection test alone that the partner *)
(* has left.                                                               *)
(***************************************************************************)
EXTENDS TpConnection

mcnet_con_data(n) == ConDataCS(n) \/ ConDataCA(n) \/ ConDataCT(n)

mcnet_rx_handler(n) == mcnet_con_data(n) \/ CtestDataCA(n)

mcnet_con_timer(n) == Repeat(n) \/ GiveUp(n)

mcnet_ctest_timer(n) == CtestTimerSend(n) \/ CtestTimerGiveUp(n, <<>>)

mcnet_start_engine(n) ==
  StateMachines(n, IF n \in Testing THEN "CT_WAIT_CON" ELSE "CT_DISABLED")

mcnet_release(n) ==
  \/ CloseLast(n, <<>>)
  \/ n = "server" /\ (CloseListening \/ CloseUnused \/ CloseComm(<<>>))

\* The client's process, from connect() to its return.
mcnet_connect(n) == n = "client" /\ (Register(n) \/ Waits(n))

\* The server's process: bind() and listen(), and accept().
mcnet_listen(n) == n = "server" /\ Register(n)
mcnet_accept(n) == n = "server" /\ (Accept \/ Waits(n))
===============================================================================
