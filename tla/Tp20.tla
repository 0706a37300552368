--------------------------------- MODULE Tp20 ---------------------------------
(***************************************************************************)
(* TP2.0, tp20.c: connection setup, the connection test, and DC frames.    *)
(***************************************************************************)
EXTENDS TpConnection

\* DC frame of tp20_disconnect().
Farewell(n) ==
  IF n \in Disconnecting /\ constate[n] = "CON_CON" THEN <<"DC">> ELSE <<>>

tp20_con_data(n) ==
  ConDataCS(n) \/ ConDataCA(n) \/ ConDataCT(n) \/ ConDataDC(n, Farewell(n))

tp20_rx_handler(n) == tp20_con_data(n) \/ CtestDataCA(n)

tp20_con_timer(n) == Repeat(n) \/ GiveUp(n)

tp20_ctest_timer(n) == CtestTimerSend(n) \/ CtestTimerGiveUp(n, Farewell(n))

tp20_start_engine(n) ==
  StateMachines(n, IF n \in Testing THEN "CT_WAIT_CON" ELSE "CT_DISABLED")

tp20_release(n) ==
  \/ CloseLast(n, Farewell(n))
  \/ n = "server" /\ (CloseListening \/ CloseUnused \/ CloseComm(Farewell(n)))

\* The client's process, from connect() to its return.
tp20_connect(n) == n = "client" /\ (Register(n) \/ Waits(n))

\* The server's process: bind() and listen(), and accept().
tp20_listen(n) == n = "server" /\ Register(n)
tp20_accept(n) == n = "server" /\ (Accept \/ Waits(n))
===============================================================================
