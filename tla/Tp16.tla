--------------------------------- MODULE Tp16 ---------------------------------
(***************************************************************************)
(* TP1.6, tp16.c: no connection test, but a node with AUTO_DISCONNECT that *)
(* has sent a message leaves the connection when nothing follows for a     *)
(* while.  One timer serves this and the repetition of CS.                 *)
(***************************************************************************)
EXTENDS TpConnection

\* DC frame of tp16_disconnect().
Farewell(n) ==
  IF n \in Disconnecting /\ constate[n] = "CON_CON" THEN <<"DC">> ELSE <<>>

tp16_con_data(n) == ConDataCS(n) \/ ConDataCA(n) \/ ConDataDC(n, Farewell(n))

\* A CA that was not awaited does nothing.
LateCA(n) ==
  /\ Handles(n, "CA") /\ constate[n] # "CON_STARTUP"
  /\ net' = Received(n)
  /\ UNCHANGED <<proto, app, asleep, online, conVars, testVars, halfway, opens, answered, raced>>

tp16_rx_handler(n) == tp16_con_data(n) \/ LateCA(n)

\* tp16_con_timer() in CON_CON: the connection was not used.
AutoDisconnect(n) ==
  /\ ConTimerRuns(n) /\ constate[n] = "CON_CON" /\ n \in AutoDisconnecting
  /\ conTimer' = [conTimer EXCEPT ![n] = FALSE]
  /\ conRetry' = [conRetry EXCEPT ![n] = 0]
  /\ WakeAndLeave(n) /\ Xmit(n, Farewell(n), net)
  /\ UNCHANGED <<proto, app, online, testVars, opens, answered, raced>>

\* tp16_con_timer() in any other state: nothing, the timer has been consumed.
Consumed(n) ==
  /\ ConTimerRuns(n) /\ constate[n] \notin {"CON_STARTUP", "CON_CON"}
  /\ conTimer' = [conTimer EXCEPT ![n] = FALSE]
  /\ leftover' = [leftover EXCEPT ![n] = FALSE]
  /\ UNCHANGED <<proto, app, asleep, online, constate, conRetry, testVars, halfway, net,
                 opens, answered, raced>>

tp16_con_timer(n) == Repeat(n) \/ GiveUp(n) \/ AutoDisconnect(n) \/ Consumed(n)

\* tp_tx_data(): the last ACK of a message starts the timer, the next segment
\* that is sent or received, in tp_tx_sendtpdata() or tp_rx_data(), stops it.
MessageDone(n) ==
  /\ n \in AutoDisconnecting /\ constate[n] = "CON_CON" /\ ~halfway[n] /\ ~conTimer[n]
  /\ app[n] \in {"connected", "serving", "serving_last"}
  /\ conTimer' = [conTimer EXCEPT ![n] = TRUE]
  /\ UNCHANGED <<proto, app, asleep, online, constate, conRetry, leftover, testVars, halfway,
                 net, opens, answered, raced>>

Traffic(n) ==
  /\ n \in AutoDisconnecting /\ constate[n] = "CON_CON" /\ ConTimerRuns(n)
  /\ conTimer' = [conTimer EXCEPT ![n] = FALSE]
  /\ UNCHANGED <<proto, app, asleep, online, constate, conRetry, leftover, testVars, halfway,
                 net, opens, answered, raced>>

tp16_start_engine(n) == StateMachines(n, "CT_DISABLED")

tp16_release(n) ==
  \/ CloseLast(n, Farewell(n))
  \/ n = "server" /\ (CloseListening \/ CloseUnused \/ CloseComm(Farewell(n)))

\* The client's process, from connect() to its return.
tp16_connect(n) == n = "client" /\ (Register(n) \/ Waits(n))

\* The server's process: bind() and listen(), and accept().
tp16_listen(n) == n = "server" /\ Register(n)
tp16_accept(n) == n = "server" /\ (Accept \/ Waits(n))
===============================================================================
