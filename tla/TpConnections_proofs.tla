------------------------ MODULE TpConnections_proofs ------------------------
(***************************************************************************)
(* What TpConnections promises, for any numbers of retries, any choice of  *)
(* the nodes that test, disconnect or crash, and any number of frames in   *)
(* flight; and what TpParameters promises, for all socket options and not  *)
(* only for the samples that are checked.  TpSendQueue, the other half of  *)
(* tp20.c, has the last section.                                           *)
(***************************************************************************)
EXTENDS TpConnections, TpSendQueue, WellFoundedInduction, TLAPS

----------------------------------------------------------------------------
(* The inductive invariant.                                                *)

\* Only a process in connect() or accept() sleeps; one that sleeps while
\* X_disconnect() is halfway was not woken by it, and counts as raced.
SleepInv ==
  \A n \in Nodes :
    /\ asleep[n] => Blocked(n)
    /\ asleep[n] /\ halfway[n] => raced[n]

\* A node that has no socket is not reached by any frame.
ClosedInv == \A n \in Nodes : app[n] = "closed" => ~online[n] /\ constate[n] # "CON_CON"

\* A test that is awaited or due has its timer, and X_start_engine() has armed
\* the test of every node that uses it.
TestInv ==
  /\ \A n \in Nodes : cteststate[n] \in {"CT_WAIT_AK", "CT_WAIT_TCT"} => ctTimer[n]
  /\ \A n \in Testing :
       proto # "tp16" /\ app[n] \notin {"closed", "starting"} => cteststate[n] # "CT_DISABLED"

IInv == TimersFit /\ NoLostWakeup /\ SleepInv /\ ClosedInv /\ TestInv
----------------------------------------------------------------------------
(* The protocols.                                                          *)

\* The three protocols use the same functions of TpConnection.
LEMMA Tp20Shares ==
  ASSUME NEW n, NEW fs, NEW test
  PROVE  /\ tp20!ConDataCS(n) <=> ConDataCS(n)
         /\ tp20!ConDataCA(n) <=> ConDataCA(n)
         /\ tp20!ConDataCT(n) <=> ConDataCT(n)
         /\ tp20!CtestDataCA(n) <=> CtestDataCA(n)
         /\ tp20!ConDataDC(n, fs) <=> ConDataDC(n, fs)
         /\ tp20!Repeat(n) <=> Repeat(n)
         /\ tp20!GiveUp(n) <=> GiveUp(n)
         /\ tp20!CtestTimerSend(n) <=> CtestTimerSend(n)
         /\ tp20!CtestTimerGiveUp(n, fs) <=> CtestTimerGiveUp(n, fs)
         /\ tp20!StateMachines(n, test) <=> StateMachines(n, test)
         /\ tp20!Register(n) <=> Register(n)
         /\ tp20!Accept <=> Accept
         /\ tp20!Waits(n) <=> Waits(n)
         /\ tp20!CloseLast(n, fs) <=> CloseLast(n, fs)
         /\ tp20!CloseListening <=> CloseListening
         /\ tp20!CloseUnused <=> CloseUnused
         /\ tp20!CloseComm(fs) <=> CloseComm(fs)
BY DEF Peer, Survivors, Xmit, Received, Handles, WakeUp, WakeAndLeave, Connected, SendCS, CT,
   CreateAndSendCT, Established, ConDataCS, TestAnswered, ConDataCA, CtestDataCA, TestAccepted,
   ConDataCT, ConDataDC, ConTimerRuns, ConRetriesLeft, Repeat, GiveUp, CtTimerRuns,
   TestRetriesLeft, CtestTimerSend, CtestTimerGiveUp, Cleared, Register, StateMachines,
   OnlyProcess, Accept, WaitsWhile, Blocked, Sleep, Return, Interrupted, Waits, Gone, CloseLast,
   CloseListening, CloseUnused, CloseComm, conVars, testVars,
   tp20!Peer, tp20!Survivors, tp20!Xmit, tp20!Received, tp20!Handles, tp20!WakeUp,
   tp20!WakeAndLeave, tp20!Connected, tp20!SendCS, tp20!CT, tp20!CreateAndSendCT,
   tp20!Established, tp20!ConDataCS, tp20!TestAnswered, tp20!ConDataCA, tp20!CtestDataCA,
   tp20!TestAccepted, tp20!ConDataCT, tp20!ConDataDC, tp20!ConTimerRuns, tp20!ConRetriesLeft,
   tp20!Repeat, tp20!GiveUp, tp20!CtTimerRuns, tp20!TestRetriesLeft, tp20!CtestTimerSend,
   tp20!CtestTimerGiveUp, tp20!Cleared, tp20!Register, tp20!StateMachines, tp20!OnlyProcess,
   tp20!Accept, tp20!WaitsWhile, tp20!Blocked, tp20!Sleep, tp20!Return, tp20!Interrupted,
   tp20!Waits, tp20!Gone, tp20!CloseLast, tp20!CloseListening, tp20!CloseUnused, tp20!CloseComm,
   tp20!conVars, tp20!testVars

\* ... also TP1.6 and MCNet.
LEMMA Tp16Shares ==
  ASSUME NEW n, NEW fs, NEW test
  PROVE  /\ tp16!ConDataCS(n) <=> ConDataCS(n)
         /\ tp16!ConDataCA(n) <=> ConDataCA(n)
         /\ tp16!ConDataDC(n, fs) <=> ConDataDC(n, fs)
         /\ tp16!Repeat(n) <=> Repeat(n)
         /\ tp16!GiveUp(n) <=> GiveUp(n)
         /\ tp16!StateMachines(n, test) <=> StateMachines(n, test)
         /\ tp16!Register(n) <=> Register(n)
         /\ tp16!Accept <=> Accept
         /\ tp16!Waits(n) <=> Waits(n)
         /\ tp16!CloseLast(n, fs) <=> CloseLast(n, fs)
         /\ tp16!CloseListening <=> CloseListening
         /\ tp16!CloseUnused <=> CloseUnused
         /\ tp16!CloseComm(fs) <=> CloseComm(fs)
BY DEF Peer, Survivors, Xmit, Received, Handles, WakeUp, WakeAndLeave, Connected, SendCS, CT,
   CreateAndSendCT, Established, ConDataCS, TestAnswered, ConDataCA, CtestDataCA, TestAccepted,
   ConDataCT, ConDataDC, ConTimerRuns, ConRetriesLeft, Repeat, GiveUp, CtTimerRuns,
   TestRetriesLeft, CtestTimerSend, CtestTimerGiveUp, Cleared, Register, StateMachines,
   OnlyProcess, Accept, WaitsWhile, Blocked, Sleep, Return, Interrupted, Waits, Gone, CloseLast,
   CloseListening, CloseUnused, CloseComm, conVars, testVars,
   tp16!Peer, tp16!Survivors, tp16!Xmit, tp16!Received, tp16!Handles, tp16!WakeUp,
   tp16!WakeAndLeave, tp16!Connected, tp16!SendCS, tp16!CT, tp16!CreateAndSendCT,
   tp16!Established, tp16!ConDataCS, tp16!TestAnswered, tp16!ConDataCA, tp16!CtestDataCA,
   tp16!TestAccepted, tp16!ConDataCT, tp16!ConDataDC, tp16!ConTimerRuns, tp16!ConRetriesLeft,
   tp16!Repeat, tp16!GiveUp, tp16!CtTimerRuns, tp16!TestRetriesLeft, tp16!CtestTimerSend,
   tp16!CtestTimerGiveUp, tp16!Cleared, tp16!Register, tp16!StateMachines, tp16!OnlyProcess,
   tp16!Accept, tp16!WaitsWhile, tp16!Blocked, tp16!Sleep, tp16!Return, tp16!Interrupted,
   tp16!Waits, tp16!Gone, tp16!CloseLast, tp16!CloseListening, tp16!CloseUnused, tp16!CloseComm,
   tp16!conVars, tp16!testVars

\* ... as MCNet does.
LEMMA MCNetShares ==
  ASSUME NEW n, NEW fs, NEW test
  PROVE  /\ mcnet!ConDataCS(n) <=> ConDataCS(n)
         /\ mcnet!ConDataCA(n) <=> ConDataCA(n)
         /\ mcnet!ConDataCT(n) <=> ConDataCT(n)
         /\ mcnet!CtestDataCA(n) <=> CtestDataCA(n)
         /\ mcnet!Repeat(n) <=> Repeat(n)
         /\ mcnet!GiveUp(n) <=> GiveUp(n)
         /\ mcnet!CtestTimerSend(n) <=> CtestTimerSend(n)
         /\ mcnet!CtestTimerGiveUp(n, fs) <=> CtestTimerGiveUp(n, fs)
         /\ mcnet!StateMachines(n, test) <=> StateMachines(n, test)
         /\ mcnet!Register(n) <=> Register(n)
         /\ mcnet!Accept <=> Accept
         /\ mcnet!Waits(n) <=> Waits(n)
         /\ mcnet!CloseLast(n, fs) <=> CloseLast(n, fs)
         /\ mcnet!CloseListening <=> CloseListening
         /\ mcnet!CloseUnused <=> CloseUnused
         /\ mcnet!CloseComm(fs) <=> CloseComm(fs)
BY DEF Peer, Survivors, Xmit, Received, Handles, WakeUp, WakeAndLeave, Connected, SendCS, CT,
   CreateAndSendCT, Established, ConDataCS, TestAnswered, ConDataCA, CtestDataCA, TestAccepted,
   ConDataCT, ConDataDC, ConTimerRuns, ConRetriesLeft, Repeat, GiveUp, CtTimerRuns,
   TestRetriesLeft, CtestTimerSend, CtestTimerGiveUp, Cleared, Register, StateMachines,
   OnlyProcess, Accept, WaitsWhile, Blocked, Sleep, Return, Interrupted, Waits, Gone, CloseLast,
   CloseListening, CloseUnused, CloseComm, conVars, testVars,
   mcnet!Peer, mcnet!Survivors, mcnet!Xmit, mcnet!Received, mcnet!Handles, mcnet!WakeUp,
   mcnet!WakeAndLeave, mcnet!Connected, mcnet!SendCS, mcnet!CT, mcnet!CreateAndSendCT,
   mcnet!Established, mcnet!ConDataCS, mcnet!TestAnswered, mcnet!ConDataCA, mcnet!CtestDataCA,
   mcnet!TestAccepted, mcnet!ConDataCT, mcnet!ConDataDC, mcnet!ConTimerRuns, mcnet!ConRetriesLeft,
   mcnet!Repeat, mcnet!GiveUp, mcnet!CtTimerRuns, mcnet!TestRetriesLeft, mcnet!CtestTimerSend,
   mcnet!CtestTimerGiveUp, mcnet!Cleared, mcnet!Register, mcnet!StateMachines, mcnet!OnlyProcess,
   mcnet!Accept, mcnet!WaitsWhile, mcnet!Blocked, mcnet!Sleep, mcnet!Return, mcnet!Interrupted,
   mcnet!Waits, mcnet!Gone, mcnet!CloseLast, mcnet!CloseListening, mcnet!CloseUnused,
   mcnet!CloseComm, mcnet!conVars, mcnet!testVars

\* What the handlers and calls of the three protocols come to.
Steps(n) ==
  \/ ConDataCS(n) \/ ConDataCA(n) \/ ConDataCT(n) \/ CtestDataCA(n) \/ NobodyListens(n)
  \/ tp16!LateCA(n) \/ Repeat(n) \/ GiveUp(n) \/ tp16!AutoDisconnect(n) \/ tp16!Consumed(n)
  \/ tp16!MessageDone(n) \/ tp16!Traffic(n) \/ CtestTimerSend(n) \/ DisconnectEnd(n)
  \/ Register(n) \/ Waits(n) \/ (n = "server" /\ (Accept \/ CloseListening \/ CloseUnused)) \/ Crash(n)
  \/ \E fs \in {<<>>, <<"DC">>} :
       ConDataDC(n, fs) \/ CtestTimerGiveUp(n, fs) \/ CloseLast(n, fs) \/ (n = "server" /\ CloseComm(fs))
  \/ StateMachines(n, "CT_WAIT_CON")
  \/ StateMachines(n, "CT_DISABLED") /\ (n \in Testing => proto = "tp16")

\* Every step is one of these, whatever the protocol.
LEMMA NextSteps == Next => \E n \in Nodes : Steps(n)
<1> SUFFICES ASSUME NEW n \in Nodes,
                    \/ SocketCall(n) \/ StartEngine(n) \/ Release(n)
                    \/ RxHandler(n) \/ ConTimer(n) \/ CtestTimer(n) \/ DisconnectEnd(n)
                    \/ Data(n) \/ Crash(n)
             PROVE  Steps(n)
  BY DEF Next
<1>f. tp20!Farewell(n) \in {<<>>, <<"DC">>} /\ tp16!Farewell(n) \in {<<>>, <<"DC">>}
  BY DEF tp20!Farewell, tp16!Farewell
<1>1. CASE SocketCall(n)
  BY <1>1, Tp20Shares, Tp16Shares, MCNetShares, Zenon
  DEF SocketCall, Steps, tp20!tp20_connect, tp20!tp20_listen, tp20!tp20_accept,
      tp16!tp16_connect, tp16!tp16_listen, tp16!tp16_accept,
      mcnet!mcnet_connect, mcnet!mcnet_listen, mcnet!mcnet_accept
<1>2. CASE StartEngine(n)
  BY <1>2, Tp20Shares, Tp16Shares, MCNetShares
  DEF StartEngine, Steps, tp20!tp20_start_engine, tp16!tp16_start_engine, mcnet!mcnet_start_engine
<1>3. CASE Release(n)
  BY <1>3, <1>f, Tp20Shares, Tp16Shares, MCNetShares
  DEF Release, Steps, tp20!tp20_release, tp16!tp16_release, mcnet!mcnet_release
<1>4. CASE RxHandler(n)
  BY <1>4, <1>f, Tp20Shares, Tp16Shares, MCNetShares
  DEF RxHandler, Steps, tp20!tp20_rx_handler, tp20!tp20_con_data, tp16!tp16_rx_handler, tp16!tp16_con_data,
      mcnet!mcnet_rx_handler, mcnet!mcnet_con_data
<1>5. CASE ConTimer(n)
  BY <1>5, Tp20Shares, Tp16Shares, MCNetShares
  DEF ConTimer, Steps, tp20!tp20_con_timer, tp16!tp16_con_timer, mcnet!mcnet_con_timer
<1>6. CASE CtestTimer(n)
  BY <1>6, <1>f, Tp20Shares, MCNetShares
  DEF CtestTimer, Steps, tp20!tp20_ctest_timer, mcnet!mcnet_ctest_timer
<1>7. CASE DisconnectEnd(n) \/ Data(n) \/ Crash(n)
  BY <1>7 DEF Data, Steps
<1> QED BY <1>1, <1>2, <1>3, <1>4, <1>5, <1>6, <1>7
----------------------------------------------------------------------------
(* What the steps do to the states and to the processes.                   *)

\* The connection is up, and the test starts if it waits for that.
ComesUp(n) ==
  /\ online[n] /\ ~halfway[n] /\ Connected(n)
  /\ \/ cteststate[n] = "CT_WAIT_CON" /\ CreateAndSendCT(n)
     \/ cteststate[n] # "CT_WAIT_CON" /\ UNCHANGED <<cteststate, ctTimer>>
  /\ UNCHANGED <<app, online, halfway, raced>>

\* The states stay, but for that of the test.
Stays(n) ==
  /\ UNCHANGED <<app, asleep, online, constate, halfway, raced>>
  /\ leftover' = leftover \/ leftover' = [leftover EXCEPT ![n] = FALSE]
  /\ \/ UNCHANGED <<cteststate, ctTimer>>
     \/ CreateAndSendCT(n)
     \/ /\ cteststate[n] = "CT_WAIT_AK" /\ cteststate' = [cteststate EXCEPT ![n] = "CT_WAIT_TCT"]
        /\ UNCHANGED ctTimer

\* The first half of X_disconnect(), maybe after a test that was given up.
BeginsToLeave(n) ==
  /\ ~halfway[n] /\ WakeAndLeave(n)
  /\ UNCHANGED <<app, online, raced>>
  /\ \/ UNCHANGED <<cteststate, ctTimer>>
     \/ /\ cteststate' = [cteststate EXCEPT ![n] = "CT_WAIT_CON"]
        /\ ctTimer' = [ctTimer EXCEPT ![n] = FALSE]

\* A tp_user_data that has just been cleared, or is gone.
IsCleared(n) ==
  /\ \/ app' = [app EXCEPT ![n] = "closed"] /\ online' = [online EXCEPT ![n] = FALSE]
     \/ app' = [app EXCEPT ![n] = "starting"] /\ online' = [online EXCEPT ![n] = TRUE]
  /\ constate' = [constate EXCEPT ![n] = "CON_WAIT_CS"]
  /\ cteststate' = [cteststate EXCEPT ![n] = "CT_DISABLED"]
  /\ Cleared(n)

\* X_start_engine().
EngineStarts(n) ==
  /\ app[n] = "starting" /\ ~halfway[n]
  /\ app' = [app EXCEPT ![n] = IF n = "client" THEN "connecting" ELSE "listening"]
  /\ constate' = [constate EXCEPT ![n] = WaitsWhile(n)]
  /\ \/ cteststate' = [cteststate EXCEPT ![n] = "CT_WAIT_CON"]
     \/ cteststate' = [cteststate EXCEPT ![n] = "CT_DISABLED"] /\ (n \in Testing => proto = "tp16")
  /\ UNCHANGED <<asleep, online, leftover, ctTimer, halfway, raced>>

\* The process of a node looks at the state and sleeps, or goes on awake.
ProcessMoves(n) ==
  /\ UNCHANGED <<online, constate, leftover, cteststate, ctTimer, halfway>>
  /\ \/ /\ Blocked(n) /\ constate[n] = WaitsWhile(n) /\ UNCHANGED app
        /\ asleep' = [asleep EXCEPT ![n] = TRUE]
        /\ raced' = [raced EXCEPT ![n] = @ \/ halfway[n]]
     \/ /\ app[n] \notin {"closed", "starting"} /\ UNCHANGED raced
        /\ \E a \in Apps \ {"closed", "starting"} : app' = [app EXCEPT ![n] = a]
        /\ \/ asleep' = [asleep EXCEPT ![n] = FALSE]
           \/ UNCHANGED asleep /\ ~(asleep[n] /\ Blocked(n))

\* The communication socket is closed, the engine runs on.
ServerLeaves(n) ==
  /\ app[n] = "serving" /\ ~halfway[n]
  /\ app' = [app EXCEPT ![n] = "left"]
  /\ constate' = [constate EXCEPT ![n] = "CON_DISC"]
  /\ leftover' = [leftover EXCEPT ![n] = conTimer[n]]
  /\ UNCHANGED <<asleep, online, cteststate, ctTimer, halfway, raced>>

Shapes(n) ==
  \/ ComesUp(n) \/ Stays(n) \/ BeginsToLeave(n) \/ DisconnectEnd(n) \/ IsCleared(n)
  \/ EngineStarts(n) \/ ProcessMoves(n) \/ ServerLeaves(n)

\* Every step has one of these shapes.
LEMMA StepShapes == ASSUME NEW n \in Nodes, Steps(n) PROVE Shapes(n) /\ proto' = proto
<1> USE DEF conVars, testVars
<1>1. CASE ConDataCS(n) \/ ConDataCA(n)
  <2>1. ComesUp(n) /\ proto' = proto
    BY <1>1, Zenon DEF ConDataCS, ConDataCA, Established, Handles, ComesUp
  <2> QED BY <2>1 DEF Shapes
<1>2. CASE ConDataCT(n) \/ NobodyListens(n) \/ tp16!LateCA(n) \/ Repeat(n)
  <2>1. Stays(n) /\ proto' = proto
    BY <1>2 DEF ConDataCT, NobodyListens, tp16!LateCA, tp16!conVars, tp16!testVars, Repeat, Stays
  <2> QED BY <2>1 DEF Shapes
<1>3. CASE CtestDataCA(n)
  <2>1. Stays(n) /\ proto' = proto
    BY <1>3 DEF CtestDataCA, TestAnswered, Stays
  <2> QED BY <2>1 DEF Shapes
<1>4. CASE tp16!Consumed(n) \/ tp16!MessageDone(n) \/ tp16!Traffic(n)
  <2>1. Stays(n) /\ proto' = proto
    BY <1>4 DEF tp16!Consumed, tp16!MessageDone, tp16!Traffic, tp16!testVars, Stays
  <2> QED BY <2>1 DEF Shapes
<1>5. CASE CtestTimerSend(n)
  <2>1. Stays(n) /\ proto' = proto
    BY <1>5, Zenon DEF CtestTimerSend, Stays
  <2> QED BY <2>1 DEF Shapes
<1>6. CASE \E fs \in {<<>>, <<"DC">>} : ConDataDC(n, fs)
  <2>1. (BeginsToLeave(n) \/ Stays(n)) /\ proto' = proto
    BY <1>6 DEF ConDataDC, Handles, BeginsToLeave, Stays
  <2> QED BY <2>1 DEF Shapes
<1>7. CASE GiveUp(n) \/ tp16!AutoDisconnect(n)
  <2>1. BeginsToLeave(n) /\ proto' = proto
    BY <1>7 DEF GiveUp, ConTimerRuns, tp16!AutoDisconnect, tp16!ConTimerRuns, tp16!WakeAndLeave, tp16!testVars,
       WakeAndLeave, BeginsToLeave
  <2> QED BY <2>1 DEF Shapes
<1>8. CASE \E fs \in {<<>>, <<"DC">>} : CtestTimerGiveUp(n, fs)
  <2>1. BeginsToLeave(n) /\ proto' = proto
    BY <1>8 DEF CtestTimerGiveUp, CtTimerRuns, BeginsToLeave
  <2> QED BY <2>1 DEF Shapes
<1>9. CASE DisconnectEnd(n)
  BY <1>9 DEF DisconnectEnd, Shapes
<1>10. CASE Register(n) \/ Crash(n) \/ (n = "server" /\ CloseListening)
            \/ \E fs \in {<<>>, <<"DC">>} : CloseLast(n, fs)
  <2>1. IsCleared(n) /\ proto' = proto
    BY <1>10, Zenon DEF Register, Crash, CloseListening, CloseLast, Gone, IsCleared
  <2> QED BY <2>1 DEF Shapes
<1>11. CASE Waits(n)
  <2>1. ProcessMoves(n) /\ proto' = proto
    BY <1>11 DEF Waits, Sleep, Return, Interrupted, OnlyProcess, ProcessMoves, Blocked, Apps
  <2> QED BY <2>1 DEF Shapes
<1>12. CASE n = "server" /\ (Accept \/ CloseUnused)
  <2>1. ProcessMoves(n) /\ proto' = proto
    BY <1>12 DEF Accept, CloseUnused, OnlyProcess, ProcessMoves, Blocked, Apps
  <2> QED BY <2>1 DEF Shapes
<1>13. CASE n = "server" /\ \E fs \in {<<>>, <<"DC">>} : CloseComm(fs)
  <2>1. ServerLeaves(n) /\ proto' = proto
    BY <1>13 DEF CloseComm, ServerLeaves
  <2> QED BY <2>1 DEF Shapes
<1>14. CASE \/ StateMachines(n, "CT_WAIT_CON")
            \/ StateMachines(n, "CT_DISABLED") /\ (n \in Testing => proto = "tp16")
  <2>1. EngineStarts(n) /\ proto' = proto
    BY <1>14 DEF StateMachines, EngineStarts, WaitsWhile
  <2> QED BY <2>1 DEF Shapes
<1> QED BY <1>1, <1>2, <1>3, <1>4, <1>5, <1>6, <1>7, <1>8, <1>9, <1>10, <1>11, <1>12, <1>13, <1>14, Zenon DEF Steps
----------------------------------------------------------------------------
(* Types.                                                                  *)

Frames == {"CS", "CA", "CT", "DC"}

\* The frames of a step.
LEMMA FrameSeqs ==
  /\ <<>> \in Seq(Frames) /\ <<"CS">> \in Seq(Frames) /\ <<"CA">> \in Seq(Frames)
  /\ <<"DC">> \in Seq(Frames) /\ CT \in Seq(Frames) /\ <<"CA">> \o CT \in Seq(Frames) /\ <<>> \o CT \in Seq(Frames)
BY DEF Frames, CT

\* What is sent arrives in part, behind what is on its way.
LEMMA XmitTypes ==
  ASSUME NEW n \in Nodes, NEW fs \in Seq(Frames), NEW rest \in [Nodes -> Seq(Frames)], Xmit(n, fs, rest)
  PROVE  net' \in [Nodes -> Seq(Frames)]
<1>1. PICK s \in Survivors(fs) : net' = [rest EXCEPT ![Peer(n)] = @ \o s]
  BY DEF Xmit
<1>2. s \in Seq(Frames)
  <2>1. CASE s = <<>> \/ s = fs
    BY <2>1, FrameSeqs
  <2>2. CASE \E i \in DOMAIN fs : s = <<fs[i]>>
    <3>1. PICK i \in DOMAIN fs : s = <<fs[i]>>
      BY <2>2
    <3>2. fs[i] \in Frames
      OBVIOUS
    <3> QED BY <3>1, <3>2
  <2> QED BY <1>1, <2>1, <2>2 DEF Survivors
<1>3. Peer(n) \in Nodes
  BY DEF Peer, Nodes
<1> QED BY <1>1, <1>2, <1>3

\* A handler takes the first frame.
LEMMA ReceivedTypes ==
  ASSUME NEW n \in Nodes, net \in [Nodes -> Seq(Frames)], net[n] # <<>>
  PROVE  Received(n) \in [Nodes -> Seq(Frames)]
<1>1. Tail(net[n]) \in Seq(Frames)
  <2>1. net[n] \in Seq(Frames)
    OBVIOUS
  <2> QED BY <2>1
<1> QED BY <1>1 DEF Received

\* The bus carries frames.
LEMMA NetStep ==
  ASSUME NEW n \in Nodes, net \in [Nodes -> Seq(Frames)], Steps(n)
  PROVE  net' \in [Nodes -> Seq(Frames)]
<1> USE DEF conVars, testVars
<1>1. CASE ConDataCS(n) \/ ConDataCA(n)
  <2>1. \E fs \in Seq(Frames) : Xmit(n, fs, Received(n))
    BY <1>1, FrameSeqs DEF ConDataCS, ConDataCA, Established
  <2>2. net[n] # <<>>
    BY <1>1 DEF ConDataCS, ConDataCA, Handles
  <2> QED BY <2>1, <2>2, XmitTypes, ReceivedTypes
<1>2. CASE ConDataCT(n)
  <2>1. \E fs \in Seq(Frames) : Xmit(n, fs, Received(n))
    BY <1>2, FrameSeqs DEF ConDataCT
  <2>2. net[n] # <<>>
    BY <1>2 DEF ConDataCT, Handles
  <2> QED BY <2>1, <2>2, XmitTypes, ReceivedTypes
<1>3. CASE CtestDataCA(n) \/ NobodyListens(n) \/ tp16!LateCA(n)
  BY <1>3, ReceivedTypes
  DEF CtestDataCA, Handles, NobodyListens, tp16!LateCA, tp16!Handles, tp16!Received, Received
<1>4. CASE \E fs \in {<<>>, <<"DC">>} : ConDataDC(n, fs)
  <2>1. net[n] # <<>> /\ (net' = Received(n) \/ \E fs \in Seq(Frames) : Xmit(n, fs, Received(n)))
    BY <1>4, FrameSeqs DEF ConDataDC, Handles
  <2> QED BY <2>1, XmitTypes, ReceivedTypes
<1>5. CASE Repeat(n) \/ CtestTimerSend(n)
  <2>1. \E fs \in Seq(Frames) : Xmit(n, fs, net)
    BY <1>5, FrameSeqs DEF Repeat, SendCS, CtestTimerSend
  <2> QED BY <2>1, XmitTypes
<1>6. CASE \E fs \in {<<>>, <<"DC">>} : CtestTimerGiveUp(n, fs) \/ CloseLast(n, fs) \/ CloseComm(fs)
  <2>1. \E m \in Nodes : \E fs \in Seq(Frames) : Xmit(m, fs, net)
    BY <1>6, FrameSeqs, Zenon DEF CtestTimerGiveUp, CloseLast, CloseComm, Nodes
  <2> QED BY <2>1, XmitTypes
<1>7. CASE tp16!AutoDisconnect(n)
  <2>1. tp16!Farewell(n) \in Seq(Frames)
    BY FrameSeqs DEF tp16!Farewell
  <2>2. tp16!Xmit(n, tp16!Farewell(n), net)
    BY <1>7, Zenon DEF tp16!AutoDisconnect
  <2>3. Xmit(n, tp16!Farewell(n), net)
    BY <2>2 DEF tp16!Xmit, tp16!Survivors, tp16!Peer, Xmit, Survivors, Peer
  <2> QED BY <2>1, <2>3, XmitTypes
<1>8. CASE \E test : StateMachines(n, test)
  <2>1. Xmit(n, <<"CS">>, net) \/ net' = net
    BY <1>8 DEF StateMachines, SendCS
  <2> QED BY <2>1, FrameSeqs, XmitTypes
<1>9. CASE GiveUp(n) \/ DisconnectEnd(n) \/ Register(n) \/ Waits(n) \/ Accept \/ CloseListening
           \/ CloseUnused \/ Crash(n)
  <2>1. net' = net
    BY <1>9 DEF GiveUp, DisconnectEnd, Register, Waits, Sleep, Return, Interrupted, OnlyProcess, Accept,
       CloseListening, CloseUnused, Crash
  <2> QED BY <2>1
<1>10. CASE tp16!Consumed(n) \/ tp16!MessageDone(n) \/ tp16!Traffic(n)
  BY <1>10 DEF tp16!Consumed, tp16!MessageDone, tp16!Traffic
<1> QED BY <1>1, <1>2, <1>3, <1>4, <1>5, <1>6, <1>7, <1>8, <1>9, <1>10, Zenon DEF Steps

\* The states and the processes have their types.
StateTypes ==
  /\ app \in [Nodes -> Apps] /\ asleep \in [Nodes -> BOOLEAN] /\ online \in [Nodes -> BOOLEAN]
  /\ constate \in [Nodes -> ConStates] /\ leftover \in [Nodes -> BOOLEAN]
  /\ cteststate \in [Nodes -> TestStates] /\ ctTimer \in [Nodes -> BOOLEAN]
  /\ halfway \in [Nodes -> BOOLEAN] /\ raced \in [Nodes -> BOOLEAN]

\* A step of any shape keeps the types of the states.
LEMMA StateTypesStep ==
  ASSUME NEW n \in Nodes, StateTypes, conTimer \in [Nodes -> BOOLEAN], Shapes(n)
  PROVE  StateTypes'
<1> USE DEF conVars, testVars
<1>1. CASE ComesUp(n)
  BY <1>1 DEF ComesUp, Connected, WakeUp, CreateAndSendCT, StateTypes, ConStates, TestStates
<1>2. CASE Stays(n)
  BY <1>2 DEF Stays, CreateAndSendCT, StateTypes, TestStates
<1>3. CASE BeginsToLeave(n)
  BY <1>3 DEF BeginsToLeave, WakeAndLeave, StateTypes, TestStates
<1>4. CASE DisconnectEnd(n)
  BY <1>4 DEF DisconnectEnd, StateTypes, ConStates
<1>5. CASE IsCleared(n)
  BY <1>5 DEF IsCleared, Cleared, StateTypes, Apps, ConStates, TestStates
<1>6. CASE EngineStarts(n)
  BY <1>6 DEF EngineStarts, WaitsWhile, StateTypes, Apps, ConStates, TestStates
<1>7. CASE ProcessMoves(n)
  BY <1>7 DEF ProcessMoves, StateTypes
<1>8. CASE ServerLeaves(n)
  BY <1>8 DEF ServerLeaves, StateTypes, Apps, ConStates
<1> QED BY <1>1, <1>2, <1>3, <1>4, <1>5, <1>6, <1>7, <1>8 DEF Shapes

\* The timers and the retry counters, which stay within mntc and mnct.
CounterTypes ==
  /\ conRetry \in [Nodes -> 0 .. mntc] /\ ctRetry \in [Nodes -> 0 .. mnct]
  /\ conTimer \in [Nodes -> BOOLEAN] /\ opens \in Nat /\ answered \in BOOLEAN

\* Every step keeps the types of the counters: no retry exceeds its limit.
LEMMA CounterTypesStep ==
  ASSUME NEW n \in Nodes, CounterTypes, Steps(n)
  PROVE  CounterTypes'
<1> USE DEF conVars, testVars
<1>a. mntc \in Nat /\ mnct \in Nat
  BY ParmAssumption
<1>1. CASE ConDataCS(n)
  <2>1. answered' \in BOOLEAN
    BY <1>1, Zenon DEF ConDataCS
  <2> QED BY <1>1, <2>1 DEF ConDataCS, Established, Connected, CounterTypes
<1>2. CASE ConDataCA(n) \/ ConDataCT(n) \/ NobodyListens(n) \/ tp16!LateCA(n)
  BY <1>2 DEF ConDataCA, Established, Connected, ConDataCT, NobodyListens, tp16!LateCA, tp16!conVars,
     tp16!testVars, CounterTypes
<1>3. CASE CtestDataCA(n)
  BY <1>3, <1>a DEF CtestDataCA, TestAnswered, CounterTypes
<1>4. CASE \E fs \in {<<>>, <<"DC">>} : ConDataDC(n, fs)
  BY <1>4 DEF ConDataDC, CounterTypes
<1>5. CASE Repeat(n)
  <2>1. conRetry[n] < mntc /\ conRetry' = [conRetry EXCEPT ![n] = @ + 1]
    BY <1>5 DEF Repeat, ConRetriesLeft
  <2>2. conRetry' \in [Nodes -> 0 .. mntc]
    BY <2>1, <1>a DEF CounterTypes
  <2> QED BY <1>5, <2>2 DEF Repeat, SendCS, CounterTypes
<1>6. CASE CtestTimerSend(n)
  <2>1. ctRetry' = ctRetry \/ (ctRetry[n] < mnct /\ ctRetry' = [ctRetry EXCEPT ![n] = @ + 1])
    BY <1>6 DEF CtestTimerSend, TestRetriesLeft
  <2>2. ctRetry' \in [Nodes -> 0 .. mnct]
    BY <2>1, <1>a DEF CounterTypes
  <2> QED BY <1>6, <2>2 DEF CtestTimerSend, CounterTypes
<1>7. CASE GiveUp(n) \/ tp16!AutoDisconnect(n)
  <2>1. /\ conRetry' = [conRetry EXCEPT ![n] = 0] /\ conTimer' = [conTimer EXCEPT ![n] = FALSE]
        /\ UNCHANGED <<ctRetry, opens, answered>>
    BY <1>7, Zenon DEF GiveUp, tp16!AutoDisconnect, tp16!testVars
  <2>2. conRetry' \in [Nodes -> 0 .. mntc]
    BY <2>1, <1>a DEF CounterTypes
  <2> QED BY <2>1, <2>2 DEF CounterTypes
<1>8. CASE \E fs \in {<<>>, <<"DC">>} : CtestTimerGiveUp(n, fs)
  BY <1>8, <1>a DEF CtestTimerGiveUp, CounterTypes
<1>9. CASE tp16!Consumed(n) \/ tp16!MessageDone(n) \/ tp16!Traffic(n)
  BY <1>9 DEF tp16!Consumed, tp16!MessageDone, tp16!Traffic, tp16!testVars, CounterTypes
<1>10. CASE Register(n)
  BY <1>10, <1>a DEF Register, Cleared, CounterTypes
<1>11. CASE Crash(n) \/ CloseListening \/ \E fs \in {<<>>, <<"DC">>} : CloseLast(n, fs)
  <2>1. \E m \in Nodes : Gone(m)
    BY <1>11 DEF Crash, CloseListening, CloseLast, Nodes
  <2> QED BY <2>1, <1>a DEF Gone, Cleared, CounterTypes
<1>12. CASE \E test : StateMachines(n, test)
  <2>1. answered' \in BOOLEAN
    BY <1>12, Zenon DEF StateMachines
  <2>2. /\ conRetry' = [conRetry EXCEPT ![n] = 0] /\ ctRetry' = [ctRetry EXCEPT ![n] = 0]
        /\ opens' = opens
        /\ conTimer' = conTimer \/ conTimer' = [conTimer EXCEPT ![n] = TRUE]
    BY <1>12, Zenon DEF StateMachines, SendCS
  <2>3. conRetry' \in [Nodes -> 0 .. mntc] /\ ctRetry' \in [Nodes -> 0 .. mnct]
    BY <2>2, <1>a DEF CounterTypes
  <2>4. conTimer' \in [Nodes -> BOOLEAN]
    BY <2>2 DEF CounterTypes
  <2> QED BY <2>1, <2>2, <2>3, <2>4 DEF CounterTypes
<1>13. CASE DisconnectEnd(n) \/ Waits(n) \/ Accept \/ CloseUnused
            \/ \E fs \in {<<>>, <<"DC">>} : CloseComm(fs)
  BY <1>13 DEF DisconnectEnd, Waits, Sleep, Return, Interrupted, Accept, CloseUnused, OnlyProcess,
     CloseComm, CounterTypes
<1> QED BY <1>1, <1>2, <1>3, <1>4, <1>5, <1>6, <1>7, <1>8, <1>9, <1>10, <1>11, <1>12, <1>13, Zenon DEF Steps
----------------------------------------------------------------------------
(* Every step preserves the invariant.                                     *)

\* What a step of one node leaves alone at the other.
LEMMA ElsewhereSame ==
  ASSUME NEW n \in Nodes, NEW m \in Nodes \ {n}, StateTypes, Shapes(n)
  PROVE  /\ app'[m] = app[m] /\ asleep'[m] = asleep[m] /\ online'[m] = online[m]
         /\ constate'[m] = constate[m] /\ leftover'[m] = leftover[m]
         /\ cteststate'[m] = cteststate[m] /\ ctTimer'[m] = ctTimer[m]
         /\ halfway'[m] = halfway[m] /\ raced'[m] = raced[m]
<1> USE DEF conVars, testVars, StateTypes
<1>1. CASE ComesUp(n)
  BY <1>1 DEF ComesUp, Connected, WakeUp, CreateAndSendCT
<1>2. CASE Stays(n)
  BY <1>2 DEF Stays, CreateAndSendCT
<1>3. CASE BeginsToLeave(n)
  BY <1>3 DEF BeginsToLeave, WakeAndLeave
<1>4. CASE DisconnectEnd(n)
  BY <1>4 DEF DisconnectEnd
<1>5. CASE IsCleared(n)
  BY <1>5 DEF IsCleared, Cleared
<1>6. CASE EngineStarts(n)
  BY <1>6 DEF EngineStarts
<1>7. CASE ProcessMoves(n)
  BY <1>7 DEF ProcessMoves
<1>8. CASE ServerLeaves(n)
  BY <1>8 DEF ServerLeaves
<1> QED BY <1>1, <1>2, <1>3, <1>4, <1>5, <1>6, <1>7, <1>8 DEF Shapes

\* The invariant of one node, by its parts.
Awake(n) ==
  /\ (Blocked(n) /\ asleep[n] /\ ~raced[n]) => constate[n] = WaitsWhile(n)
  /\ asleep[n] => Blocked(n)
  /\ asleep[n] /\ halfway[n] => raced[n]

Tested(n) ==
  /\ app[n] = "closed" => ~online[n] /\ constate[n] # "CON_CON"
  /\ constate[n] = "CON_CON" => ~leftover[n]
  /\ cteststate[n] \in {"CT_WAIT_AK", "CT_WAIT_TCT"} => ctTimer[n]
  /\ n \in Testing /\ proto # "tp16" /\ app[n] \notin {"closed", "starting"} =>
       cteststate[n] # "CT_DISABLED"
  /\ n \in Testing /\ proto # "tp16" /\ constate[n] = "CON_CON" /\ app[n] # "starting" /\ ~halfway[n] =>
       cteststate[n] \in {"CT_WAIT_AK", "CT_WAIT_TCT"} /\ ctTimer[n]

\* The invariant is that of the nodes, and the types.
LEMMA ByNode == IInv <=> TypeOK /\ \A n \in Nodes : Awake(n) /\ Tested(n)
BY ParmAssumption
DEF IInv, TimersFit, NoOldTimer, TestedWhileConnected, NoLostWakeup, SleepInv, ClosedInv, TestInv, Awake, Tested

\* A node that sleeps waits for what has not happened, after its own step.
LEMMA AwakeStep ==
  ASSUME NEW n \in Nodes, StateTypes, Awake(n), Shapes(n)
  PROVE  Awake(n)'
<1> USE DEF conVars, testVars, StateTypes, Awake, Blocked, WaitsWhile
<1>1. CASE ComesUp(n)
  BY <1>1 DEF ComesUp, Connected, WakeUp
<1>2. CASE Stays(n)
  BY <1>2 DEF Stays
<1>3. CASE BeginsToLeave(n)
  BY <1>3 DEF BeginsToLeave, WakeAndLeave
<1>4. CASE DisconnectEnd(n)
  BY <1>4 DEF DisconnectEnd
<1>5. CASE IsCleared(n)
  BY <1>5 DEF IsCleared, Cleared
<1>6. CASE EngineStarts(n)
  BY <1>6 DEF EngineStarts
<1>7. CASE ProcessMoves(n)
  BY <1>7 DEF ProcessMoves
<1>8. CASE ServerLeaves(n)
  BY <1>8 DEF ServerLeaves
<1> QED BY <1>1, <1>2, <1>3, <1>4, <1>5, <1>6, <1>7, <1>8 DEF Shapes

\* The timers of a node fit its states, after its own step.
LEMMA TestedStep ==
  ASSUME NEW n \in Nodes, StateTypes, Tested(n), Shapes(n), proto' = proto
  PROVE  Tested(n)'
<1> USE DEF conVars, testVars, StateTypes, Tested
<1>1. CASE ComesUp(n)
  BY <1>1 DEF ComesUp, Connected, CreateAndSendCT, TestStates
<1>2. CASE Stays(n)
  BY <1>2 DEF Stays, CreateAndSendCT
<1>3. CASE BeginsToLeave(n)
  BY <1>3 DEF BeginsToLeave, WakeAndLeave
<1>4. CASE DisconnectEnd(n)
  BY <1>4 DEF DisconnectEnd
<1>5. CASE IsCleared(n)
  BY <1>5 DEF IsCleared, Cleared
<1>6. CASE EngineStarts(n)
  BY <1>6 DEF EngineStarts, WaitsWhile
<1>7. CASE ProcessMoves(n)
  BY <1>7 DEF ProcessMoves
<1>8. CASE ServerLeaves(n)
  BY <1>8 DEF ServerLeaves
<1> QED BY <1>1, <1>2, <1>3, <1>4, <1>5, <1>6, <1>7, <1>8 DEF Shapes

\* TypeOK is made of the types of three kinds.
LEMMA TypeParts ==
  TypeOK <=> StateTypes /\ CounterTypes /\ proto \in Protocols /\ net \in [Nodes -> Seq(Frames)]
BY DEF TypeOK, StateTypes, CounterTypes, Frames

\* Every step of Next preserves the invariant.
LEMMA IInvStep == IInv /\ Next => IInv'
<1> SUFFICES ASSUME IInv, Next
             PROVE  IInv'
  OBVIOUS
<1>1. TypeOK /\ \A m \in Nodes : Awake(m) /\ Tested(m)
  BY ByNode
<1>2. StateTypes /\ CounterTypes /\ proto \in Protocols /\ net \in [Nodes -> Seq(Frames)]
  BY <1>1, TypeParts
<1>3. PICK n \in Nodes : Steps(n)
  BY NextSteps
<1>4. Shapes(n) /\ proto' = proto
  BY <1>3, StepShapes
<1>5. TypeOK'
  <2>1. StateTypes'
    <3>1. conTimer \in [Nodes -> BOOLEAN]
      BY <1>2 DEF CounterTypes
    <3> QED BY <1>2, <1>4, <3>1, StateTypesStep
  <2>2. CounterTypes'
    BY <1>2, <1>3, CounterTypesStep
  <2>3. net' \in [Nodes -> Seq(Frames)]
    BY <1>2, <1>3, NetStep
  <2> QED BY <1>2, <1>4, <2>1, <2>2, <2>3 DEF TypeOK, StateTypes, CounterTypes, Frames
<1>6. ASSUME NEW m \in Nodes
      PROVE  Awake(m)' /\ Tested(m)'
  <2>1. CASE m = n
    BY <1>1, <1>2, <1>4, <2>1, AwakeStep, TestedStep
  <2>2. CASE m # n
    <3>1. /\ app'[m] = app[m] /\ asleep'[m] = asleep[m] /\ online'[m] = online[m]
          /\ constate'[m] = constate[m] /\ leftover'[m] = leftover[m]
          /\ cteststate'[m] = cteststate[m] /\ ctTimer'[m] = ctTimer[m]
          /\ halfway'[m] = halfway[m] /\ raced'[m] = raced[m]
      BY <1>2, <1>4, <2>2, ElsewhereSame
    <3> QED BY <1>1, <1>4, <3>1 DEF Awake, Tested, Blocked, WaitsWhile
  <2> QED BY <2>1, <2>2
<1>7. (NoOldTimer /\ NoLostWakeup /\ SleepInv /\ ClosedInv)'
  BY <1>6 DEF NoOldTimer, NoLostWakeup, SleepInv, ClosedInv, Awake, Tested
<1>8. (TestedWhileConnected /\ TestInv)'
  BY <1>6, ParmAssumption DEF TestedWhileConnected, TestInv, Tested
<1> QED BY <1>5, <1>7, <1>8 DEF IInv, TimersFit

\* At the start nothing runs.
LEMMA InitInv == Started => IInv
<1> SUFFICES ASSUME Started
             PROVE  IInv
  OBVIOUS
<1> USE DEF Started, Init
<1>1. StateTypes
  BY DEF StateTypes, Apps, ConStates, TestStates
<1>2. CounterTypes
  <2>1. 0 \in 0 .. mntc /\ 0 \in 0 .. mnct
    BY ParmAssumption
  <2>2. conRetry \in [Nodes -> 0 .. mntc] /\ ctRetry \in [Nodes -> 0 .. mnct]
    BY <2>1
  <2> QED BY <2>2 DEF CounterTypes
<1>3. net \in [Nodes -> Seq(Frames)]
  BY FrameSeqs
<1>4. TypeOK
  BY <1>1, <1>2, <1>3, TypeParts
<1>5. \A n \in Nodes : Awake(n) /\ Tested(n)
  BY DEF Awake, Tested, Blocked
<1> QED BY <1>4, <1>5, ByNode

\* The invariant holds in every reachable state.
LEMMA IInvAlways == Spec => []IInv
<1>1. IInv /\ UNCHANGED vars => IInv'
  BY DEF IInv, TimersFit, TypeOK, NoOldTimer, TestedWhileConnected, NoLostWakeup, SleepInv, ClosedInv, TestInv,
     Blocked, WaitsWhile, vars, conVars, testVars
<1> QED BY <1>1, InitInv, IInvStep, PTL DEF Spec

\* X_con_data(), X_con_timer(), X_ctest_timer(): every variable has its type, a
\* connection is never up with the timer of an earlier one running, and one that
\* is to be tested has its test under way and the timer of the test running.
THEOREM StatesAndTimers == Spec => []TimersFit
<1>1. IInv => TimersFit
  BY DEF IInv
<1> QED BY <1>1, IInvAlways, PTL

\* wait_event_interruptible() against wake_up_interruptible(): no process sleeps
\* in connect() or accept() once the state it waits to leave is left, unless it
\* went to sleep within X_disconnect().
THEOREM SleepersAreWoken == Spec => []NoLostWakeup
<1>1. IInv => NoLostWakeup
  BY DEF IInv
<1> QED BY <1>1, IInvAlways, PTL

----------------------------------------------------------------------------
(* timeval2jiffies().                                                      *)

\* Division of natural numbers.
LEMMA DivBounds ==
  ASSUME NEW a \in Nat, NEW b \in Nat \ {0}
  PROVE  /\ a \div b \in Nat /\ a % b \in 0 .. (b - 1)
         /\ a = b * (a \div b) + (a % b)
BY Z3

\* timeval2jiffies(): the two checks for overflow cut off exactly what an unsigned
\* long cannot hold, for every timer rate and width, provided that rounding up the
\* microseconds does not wrap around.
THEOREM JiffiesSaturate ==
  ASSUME NEW hz \in Nat \ {0}, NEW tick \in Nat \ {0}, NEW max \in Nat, NEW sec \in Nat, NEW usec \in Nat,
         NEW round_up \in BOOLEAN, usec + (IF round_up THEN tick - 1 ELSE 0) <= max
  PROVE  timeval2jiffies([sec |-> sec, usec |-> usec], round_up, hz, tick, max)
           = Smallest(((usec + IF round_up THEN tick - 1 ELSE 0) \div tick) + sec * hz, max)
<1> DEFINE up == IF round_up THEN tick - 1 ELSE 0
           frac == (usec + up) \div tick
<1>1. usec + up \in Nat /\ (usec + up) % (max + 1) = usec + up
  OBVIOUS
<1>2. frac \in Nat
  BY <1>1, DivBounds
<1>3. sec * hz \in Nat
  BY Z3
<1>4. ASSUME sec > max \div hz
      PROVE  sec * hz > max
  <2>1. /\ max \div hz \in Nat /\ max % hz \in 0 .. (hz - 1)
        /\ max = hz * (max \div hz) + (max % hz)
    BY DivBounds
  <2>2. sec >= (max \div hz) + 1
    BY <1>4, <2>1
  <2>3. sec * hz >= hz * (max \div hz) + hz
    BY <2>1, <2>2, Z3
  <2> QED BY <1>3, <2>1, <2>3, Z3
<1> HIDE DEF frac
<1>5. timeval2jiffies([sec |-> sec, usec |-> usec], round_up, hz, tick, max) = Smallest(frac + sec * hz, max)
  BY <1>1, <1>2, <1>3, <1>4 DEF timeval2jiffies, Smallest, frac
<1> QED BY <1>5 DEF frac

\* NeverShort, for all numbers: a delay in jiffies is short of the time asked for by
\* less than a tick, and by nothing when it is rounded up, unless it is the largest
\* number there is.
THEOREM DelayNeverShort ==
  ASSUME NEW hz \in Nat \ {0}, NEW tick \in Nat \ {0}, NEW max \in Nat, NEW sec \in Nat, NEW usec \in Nat,
         NEW round_up \in BOOLEAN, usec + (IF round_up THEN tick - 1 ELSE 0) <= max,
         NEW jif, jif = timeval2jiffies([sec |-> sec, usec |-> usec], round_up, hz, tick, max)
  PROVE  /\ jif \in 0 .. max /\ (jif = max \/ jif * tick + tick > sec * hz * tick + usec)
         /\ round_up => jif = max \/ jif * tick >= sec * hz * tick + usec
<1> DEFINE up == IF round_up THEN tick - 1 ELSE 0
           frac == (usec + up) \div tick
<1>1. up \in Nat /\ usec + up \in Nat /\ (usec + up) % (max + 1) = usec + up
  OBVIOUS
<1>2. frac \in Nat /\ (usec + up) % tick \in 0 .. (tick - 1) /\ usec + up = tick * frac + ((usec + up) % tick)
  BY <1>1, DivBounds
<1>3. sec * hz \in Nat
  BY Z3
<1>a. ((usec + (IF round_up THEN tick - 1 ELSE 0)) % (max + 1)) \div tick = frac
  BY <1>1
<1>b. jif = IF sec > max \div hz THEN max
            ELSE IF sec * hz > max - frac THEN max ELSE frac + sec * hz
  BY <1>a, Zenon DEF timeval2jiffies
<1>4. jif = max \/ (jif = frac + sec * hz /\ sec * hz + frac <= max)
  BY <1>b, <1>2, <1>3, Z3
<1>5. (frac + sec * hz) * tick = tick * frac + sec * hz * tick
  BY <1>2, <1>3, Z3
<1>6. sec * hz * tick \in Nat /\ tick * frac \in Nat
  BY <1>2, <1>3, Z3
<1> HIDE DEF frac
<1>7. jif \in 0 .. max
  BY <1>2, <1>3, <1>4
<1>8. ASSUME jif # max
      PROVE  jif * tick + tick > sec * hz * tick + usec /\ (round_up => jif * tick >= sec * hz * tick + usec)
  <2>1. jif * tick = tick * frac + sec * hz * tick
    BY <1>4, <1>5, <1>8
  <2> DEFINE a == sec * hz * tick
             b == tick * frac
             r == (usec + up) % tick
  <2>2. a \in Nat /\ b \in Nat /\ r \in 0 .. (tick - 1) /\ usec + up = b + r /\ jif * tick = b + a
    BY <1>2, <1>6, <2>1
  <2> HIDE DEF a, b, r
  <2>3. b + a + tick > a + usec /\ (round_up => b + a >= a + usec)
    BY <2>2
  <2> QED BY <2>2, <2>3 DEF a
<1> QED BY <1>7, <1>8

----------------------------------------------------------------------------
(* CS and CA.                                                              *)

\* usec_to_cs_val(): the finest unit of which less than 64 make the time.
LEMMA FinestUnit ==
  ASSUME NEW usec \in Nat
  PROVE  usec_to_cs_val(usec) =
           IF usec < 6400 THEN [unit |-> 1, count |-> usec \div 100]
           ELSE IF usec < 64000 THEN [unit |-> 2, count |-> usec \div 1000]
           ELSE IF usec < 640000 THEN [unit |-> 3, count |-> usec \div 10000]
           ELSE IF usec < 6400000 THEN [unit |-> 4, count |-> usec \div 100000]
           ELSE Disabled
<1> DEFINE P(u) == Fits(usec, u) /\ \A w \in 1 .. (u - 1) : ~Fits(usec, w)
           u == CHOOSE v \in 1 .. 4 : P(v)
<1>1. /\ Units[1] = 100 /\ Units[2] = 1000 /\ Units[3] = 10000 /\ Units[4] = 100000
  BY DEF Units
<1>2. /\ Fits(usec, 1) <=> usec < 6400
      /\ Fits(usec, 2) <=> usec < 64000
      /\ Fits(usec, 3) <=> usec < 640000
      /\ Fits(usec, 4) <=> usec < 6400000
  BY <1>1 DEF Fits
<1>3. (\E v \in 1 .. 4 : P(v)) => u \in 1 .. 4 /\ P(u)
  BY Zenon
<1>4. 1 .. 4 = {1, 2, 3, 4}
  OBVIOUS
<1>5. (\A v \in 1 .. 4 : ~Fits(usec, v)) <=> usec >= 6400000
  BY <1>2, <1>4
<1>6. ASSUME usec < 6400000
      PROVE  \E v \in 1 .. 4 : P(v)
  <2>1. CASE Fits(usec, 1)
    <3>1. P(1)
      BY <2>1
    <3> QED BY <3>1
  <2>2. CASE ~Fits(usec, 1) /\ Fits(usec, 2)
    <3>1. P(2)
      BY <2>2
    <3> QED BY <3>1
  <2>3. CASE ~Fits(usec, 1) /\ ~Fits(usec, 2) /\ Fits(usec, 3)
    <3>1. P(3)
      BY <2>3
    <3> QED BY <3>1
  <2>4. CASE ~Fits(usec, 1) /\ ~Fits(usec, 2) /\ ~Fits(usec, 3)
    <3>1. P(4)
      BY <2>4, <1>2, <1>6
    <3> QED BY <3>1
  <2> QED BY <2>1, <2>2, <2>3, <2>4
<1>7. ASSUME usec < 6400000
      PROVE  /\ u \in 1 .. 4
             /\ u = IF usec < 6400 THEN 1 ELSE IF usec < 64000 THEN 2 ELSE IF usec < 640000 THEN 3 ELSE 4
  <2>1. u \in 1 .. 4 /\ P(u)
    BY <1>3, <1>6, <1>7
  <2> HIDE DEF u
  <2>2. CASE u = 1
    BY <2>1, <2>2, <1>2
  <2>3. CASE u = 2
    BY <2>1, <2>3, <1>2
  <2>4. CASE u = 3
    BY <2>1, <2>4, <1>2
  <2>5. CASE u = 4
    BY <2>1, <2>5, <1>2
  <2> QED BY <2>1, <2>2, <2>3, <2>4, <2>5, <1>4
<1>8. usec_to_cs_val(usec) =
        IF \A v \in 1 .. 4 : ~Fits(usec, v) THEN Disabled ELSE [unit |-> u, count |-> (usec \div Units[u]) % 64]
  BY Zenon DEF usec_to_cs_val
<1> HIDE DEF u
<1>9. CASE usec >= 6400000
  BY <1>5, <1>8, <1>9
<1>10. CASE usec < 6400
  <2>1. u = 1 /\ (usec \div 100) % 64 = usec \div 100
    BY <1>7, <1>10
  <2> QED BY <1>1, <1>5, <1>8, <1>10, <2>1
<1>11. CASE usec >= 6400 /\ usec < 64000
  <2>1. u = 2 /\ (usec \div 1000) % 64 = usec \div 1000
    BY <1>7, <1>11
  <2> QED BY <1>1, <1>5, <1>8, <1>11, <2>1
<1>12. CASE usec >= 64000 /\ usec < 640000
  <2>1. u = 3 /\ (usec \div 10000) % 64 = usec \div 10000
    BY <1>7, <1>12
  <2> QED BY <1>1, <1>5, <1>8, <1>12, <2>1
<1>13. CASE usec >= 640000 /\ usec < 6400000
  <2>1. u = 4 /\ (usec \div 100000) % 64 = usec \div 100000
    BY <1>7, <1>13
  <2> QED BY <1>1, <1>5, <1>8, <1>13, <2>1
<1> QED BY <1>9, <1>10, <1>11, <1>12, <1>13

\* The jiffies of a count of units: off by a jiffy at most, and by a unit less if
\* the unit is 100 us.
LEMMA JiffiesOfUnits ==
  ASSUME NEW u \in 1 .. 4, NEW count \in 0 .. 63, NEW hz \in HZs,
         NEW jif, jif = cs_val_to_jiffies([unit |-> u, count |-> count], hz)
  PROVE  /\ jif \in Nat /\ (count > 0 => jif > 0) /\ (count = 0 => jif = 0)
         /\ Tick(hz) \in Nat /\ jif * Tick(hz) \in Nat
         /\ Distance(jif * Tick(hz), count * Units[u]) <= Tick(hz)
         /\ u = 1 /\ count > 0 => Distance(jif * Tick(hz), count * Units[u]) + 100 <= Tick(hz)
<1> DEFINE x == count * hz
           k == IF u = 1 THEN 10000 ELSE IF u = 2 THEN 1000 ELSE IF u = 3 THEN 100 ELSE 10
<1>1. /\ Units[1] = 100 /\ Units[2] = 1000 /\ Units[3] = 10000 /\ Units[4] = 100000
  BY DEF Units
<1>2. /\ 1000000 \div 100 = 10000 /\ 1000000 \div 1000 = 1000 /\ 1000000 \div 10000 = 100
      /\ 1000000 \div 100000 = 10
  OBVIOUS
<1>3. 1000000 \div Units[u] = k
  BY <1>1, <1>2
<1>4. jif = IF count > 0 /\ x \div k = 0 THEN 1 ELSE x \div k
  BY <1>3 DEF cs_val_to_jiffies
<1>5. hz = 100 \/ hz = 250 \/ hz = 1000
  BY DEF HZs
<1>6. /\ Tick(100) = 10000 /\ Tick(250) = 4000 /\ Tick(1000) = 1000
  BY DEF Tick
<1>7. CASE u = 1
  <2>1. CASE hz = 100
    BY <1>1, <1>4, <1>6, <1>7, <2>1 DEF Distance
  <2>2. CASE hz = 250
    <3>1. x = 250 * count /\ x \div 10000 \in 0 .. 1 /\ (x \div 10000 = 1 <=> count >= 40)
      BY <2>2
    <3> QED BY <1>1, <1>4, <1>6, <1>7, <2>2, <3>1 DEF Distance
  <2>3. CASE hz = 1000
    BY <1>1, <1>4, <1>6, <1>7, <2>3 DEF Distance
  <2> QED BY <1>5, <2>1, <2>2, <2>3
<1>8. CASE u = 2
  <2>1. CASE hz = 100
    BY <1>1, <1>4, <1>6, <1>8, <2>1 DEF Distance
  <2>2. CASE hz = 250
    BY <1>1, <1>4, <1>6, <1>8, <2>2 DEF Distance
  <2>3. CASE hz = 1000
    BY <1>1, <1>4, <1>6, <1>8, <2>3 DEF Distance
  <2> QED BY <1>5, <2>1, <2>2, <2>3
<1>9. CASE u = 3
  BY <1>1, <1>4, <1>5, <1>6, <1>9 DEF Distance
<1>10. CASE u = 4
  BY <1>1, <1>4, <1>5, <1>6, <1>10 DEF Distance
<1> QED BY <1>7, <1>8, <1>9, <1>10

\* The longest time that a socket option takes, in microseconds (TooLong).
Longest == 7000000

\* What CS and CA announce reaches the partner, for every time that a socket option
\* takes: at most a seventh is lost to the units and a jiffy to the timer.
LEMMA DelaysReach ==
  ASSUME NEW usec \in Nat, usec <= Longest, NEW hz \in HZs,
         NEW jif, jif = cs_val_to_jiffies(usec_to_cs_val(usec), hz)
  PROVE  /\ jif \in Nat /\ jif * Tick(hz) \in Nat /\ (jif > 0 <=> usec >= 100)
         /\ Distance(jif * Tick(hz), usec) <= (usec \div 7) + Tick(hz)
         /\ usec_to_cs_val(usec) = Disabled <=> usec >= 6300000
<1> DEFINE v == usec_to_cs_val(usec)
           Loss(u, c) ==
             /\ c * Units[u] \in Nat /\ c * Units[u] <= usec
             /\ usec >= 100 <=> c > 0
             /\ \/ u = 1 /\ usec - c * Units[u] < 100
                \/ u # 1 /\ usec - c * Units[u] <= usec \div 7 /\ c > 0
             /\ u = 4 /\ c = 63 <=> usec >= 6300000
<1>1. /\ Units[1] = 100 /\ Units[2] = 1000 /\ Units[3] = 10000 /\ Units[4] = 100000
  BY DEF Units
<1>2. \E u \in 1 .. 4, c \in 0 .. 63 : v = [unit |-> u, count |-> c] /\ Loss(u, c)
  <2>1. CASE 0 <= usec /\ usec < 6400
    <3> DEFINE n == usec \div 100
    <3>1. v = [unit |-> 1, count |-> n] /\ n \in 0 .. 63
      BY <2>1, FinestUnit
    <3>2. Loss(1, n)
      BY <1>1, <2>1
    <3>3. 1 \in 1 .. 4
      OBVIOUS
    <3> HIDE DEF v, n, Loss
    <3> QED BY <3>1, <3>2, <3>3, Zenon
  <2>2. CASE 6400 <= usec /\ usec < 64000
    <3> DEFINE n == usec \div 1000
    <3>1. v = [unit |-> 2, count |-> n] /\ n \in 0 .. 63
      BY <2>2, FinestUnit
    <3>2. Loss(2, n)
      BY <1>1, <2>2
    <3>3. 2 \in 1 .. 4
      OBVIOUS
    <3> HIDE DEF v, n, Loss
    <3> QED BY <3>1, <3>2, <3>3, Zenon
  <2>3. CASE 64000 <= usec /\ usec < 640000
    <3> DEFINE n == usec \div 10000
    <3>1. v = [unit |-> 3, count |-> n] /\ n \in 0 .. 63
      BY <2>3, FinestUnit
    <3>2. Loss(3, n)
      BY <1>1, <2>3
    <3>3. 3 \in 1 .. 4
      OBVIOUS
    <3> HIDE DEF v, n, Loss
    <3> QED BY <3>1, <3>2, <3>3, Zenon
  <2>4. CASE 640000 <= usec /\ usec < 6400000
    <3> DEFINE n == usec \div 100000
    <3>1. v = [unit |-> 4, count |-> n] /\ n \in 0 .. 63
      BY <2>4, FinestUnit
    <3>2. Loss(4, n)
      BY <1>1, <2>4
    <3>3. 4 \in 1 .. 4
      OBVIOUS
    <3> HIDE DEF v, n, Loss
    <3> QED BY <3>1, <3>2, <3>3, Zenon
  <2>5. CASE 6400000 <= usec
    <3>1. v = [unit |-> 4, count |-> 63]
      BY <2>5, FinestUnit DEF Disabled
    <3>2. Loss(4, 63)
      BY <1>1, <2>5 DEF Longest
    <3> HIDE DEF v, Loss
    <3> QED BY <3>1, <3>2
  <2> HIDE DEF v, Loss
  <2> QED BY <2>1, <2>2, <2>3, <2>4, <2>5
<1> HIDE DEF v, Loss
<1>3. PICK u \in 1 .. 4, c \in 0 .. 63 : v = [unit |-> u, count |-> c] /\ Loss(u, c)
  BY <1>2
<1> USE DEF Loss
<1>4. jif = cs_val_to_jiffies([unit |-> u, count |-> c], hz)
  BY <1>3 DEF v
<1>5. /\ jif \in Nat /\ (c > 0 => jif > 0) /\ (c = 0 => jif = 0)
      /\ Tick(hz) \in Nat /\ jif * Tick(hz) \in Nat
      /\ Distance(jif * Tick(hz), c * Units[u]) <= Tick(hz)
      /\ u = 1 /\ c > 0 => Distance(jif * Tick(hz), c * Units[u]) + 100 <= Tick(hz)
  BY <1>4, JiffiesOfUnits, Zenon
<1>6. c = 0 => jif * Tick(hz) = 0 /\ 100 <= Tick(hz)
  BY <1>5 DEF Tick, HZs
<1> DEFINE units == c * Units[u]
           jt == jif * Tick(hz)
<1>7. Distance(jt, usec) <= (usec \div 7) + Tick(hz)
  <2>1. units \in Nat /\ units <= usec /\ jt \in Nat /\ Tick(hz) \in Nat
    BY <1>3, <1>5
  <2>2. c = 0 => jt = 0 /\ usec < 100 /\ 100 <= Tick(hz)
    BY <1>3, <1>6
  <2>3. c > 0 /\ u = 1 => usec - units < 100 /\ Distance(jt, units) + 100 <= Tick(hz)
    BY <1>3, <1>5
  <2>4. c > 0 /\ u # 1 => usec - units <= usec \div 7 /\ Distance(jt, units) <= Tick(hz)
    BY <1>3, <1>5
  <2> HIDE DEF units, jt
  <2> QED BY <2>1, <2>2, <2>3, <2>4 DEF Distance
<1>8. v = Disabled <=> usec >= 6300000
  BY <1>3 DEF Disabled
<1> QED BY <1>3, <1>5, <1>7, <1>8 DEF v

\* A time that reaches the partner is timed by it, or not at all if there is no
\* such time.
LEMMA TimesReach ==
  ASSUME NEW usec \in Nat, usec <= Longest, NEW hz \in HZs
  PROVE  Reaches(Timeout(usec_to_cs_val(usec), hz), usec, hz)
<1> DEFINE jif == cs_val_to_jiffies(usec_to_cs_val(usec), hz)
           tick == Tick(hz)
<1>1. /\ jif \in Nat /\ (jif > 0 <=> usec >= 100)
      /\ Distance(jif * tick, usec) <= (usec \div 7) + tick
      /\ usec_to_cs_val(usec) = Disabled <=> usec >= 6300000
  BY DelaysReach
<1>2. Timeout(usec_to_cs_val(usec), hz) = IF usec >= 6300000 THEN 0 ELSE jif
  BY <1>1 DEF Timeout
<1> HIDE DEF jif
<1> QED BY <1>1, <1>2 DEF Reaches

\* What an application may ask for.
TimeVals == [sec : Nat, usec : Nat]

\* OptionsArrive, for all socket options: the block size, T1, T3 and T4 that one side
\* asks for are what the other obeys, for every timer rate; a T3 that is refused
\* overwrites T1.
THEOREM OptionsReachPartner ==
  ASSUME NEW hz \in HZs,
         NEW opts \in [t1 : TimeVals, t3 : TimeVals, t4 : TimeVals, blocksize : 0 .. 15]
  PROVE  OptionsReach(opts, hz)
<1> DEFINE own == tp16_setsockopt(initdefaults(hz), opts)
           frame == tp16_fill_cx_frame(own)
           peer == tp16_adjust_parameters(initdefaults(hz), frame, hz)
           t1 == Asked(opts.t1, T1_DEFAULT)
           t3 == Asked(opts.t3, T3_DEFAULT)
           t4 == Asked(opts.t4, T4_DEFAULT)
<1>1. /\ t1 \in Nat /\ t3 \in Nat /\ t4 \in Nat
      /\ t1 <= Longest /\ t3 <= Longest /\ t4 <= Longest
  BY DEF Asked, TooLong, Micros, TimeVals, T1_DEFAULT, T3_DEFAULT, T4_DEFAULT, Longest
<1>2. /\ own.mybs = BlockSize(opts.blocksize) /\ own.mytd = t3 /\ own.mytdc = t4
      /\ TooLong(opts.t3) \/ own.myta = t1
  BY DEF tp16_setsockopt, tp20_setsockopt, initdefaults, Asked, T1_DEFAULT, T3_DEFAULT, T4_DEFAULT
<1> HIDE DEF own
<1>3. /\ frame.bs = own.mybs /\ frame.t1 = usec_to_cs_val(own.myta) /\ frame.t3 = usec_to_cs_val(own.mytd)
      /\ frame.t4 = usec_to_cs_val(own.mytdc)
  BY DEF tp16_fill_cx_frame, tp20_fill_cx_frame
<1> HIDE DEF frame
<1>4. /\ peer.bs = BlockSize(frame.bs) /\ peer.ta = Timeout(frame.t1, hz)
      /\ peer.td = cs_val_to_jiffies(frame.t3, hz) /\ peer.tdc = Timeout(frame.t4, hz)
  BY DEF tp16_adjust_parameters, tp20_adjust_parameters, initdefaults
<1> HIDE DEF peer, t1, t3, t4
<1>5. BlockSize(BlockSize(opts.blocksize)) = IF opts.blocksize = 0 THEN 1 ELSE opts.blocksize
  BY DEF BlockSize, BS_MASK
<1>6. peer.bs = IF opts.blocksize = 0 THEN 1 ELSE opts.blocksize
  BY <1>2, <1>3, <1>4, <1>5
<1>7. TooLong(opts.t3) \/ Reaches(peer.ta, t1, hz)
  BY <1>1, <1>2, <1>3, <1>4, TimesReach
<1>8. Reaches(peer.tdc, t4, hz)
  BY <1>1, <1>2, <1>3, <1>4, TimesReach
<1>9. Distance(peer.td * Tick(hz), t3) <= (t3 \div 7) + Tick(hz)
  BY <1>1, <1>2, <1>3, <1>4, DelaysReach
<1> QED BY <1>6, <1>7, <1>8, <1>9 DEF OptionsReach, peer, frame, own, t1, t3, t4

----------------------------------------------------------------------------
(* MCNet.                                                                  *)

\* BlockSizesAgree, for all block sizes and delays: both sides of MCNet use the smaller
\* block size, which is not 0, and a delay that is asked for is never none.
THEOREM McnetSidesAgree ==
  ASSUME NEW hz \in Nat \ {0}, Tick(hz) \in Nat \ {0},
         NEW co \in [blocksize : Nat, td : TimeVals], NEW so \in [blocksize : Nat, td : TimeVals],
         co.td.usec + Tick(hz) <= ULONG_MAX
  PROVE  LET c == mcnet_setsockopt(co, hz)
             s == mcnet_setsockopt(so, hz)
             both == Smallest(c.bs, s.bs)
         IN  /\ McnetAgreed(c, s) = <<both, both>> /\ both > 0
             /\ co.td.sec > 0 \/ co.td.usec > 0 => c.td > 0
<1> DEFINE c == mcnet_setsockopt(co, hz)
           s == mcnet_setsockopt(so, hz)
           both == Smallest(c.bs, s.bs)
           tick == Tick(hz)
           td == timeval2jiffies(co.td, TRUE, hz, tick, ULONG_MAX)
<1>1. c.bs \in 1 .. 15 /\ s.bs \in 1 .. 15 /\ c.td = td
  <2>1. c.bs = BlockSize(co.blocksize) /\ s.bs = BlockSize(so.blocksize) /\ c.td = td
    BY DEF mcnet_setsockopt
  <2>2. BlockSize(co.blocksize) \in 1 .. 15 /\ BlockSize(so.blocksize) \in 1 .. 15
    BY DEF BlockSize, BS_MASK
  <2> QED BY <2>1, <2>2
<1>2. McnetAgreed(c, s) = <<both, both>> /\ both > 0
  <2>1. [c EXCEPT !.bs = Smallest(c.bs, s.bs)].bs = both /\ [s EXCEPT !.bs = Smallest(c.bs, s.bs)].bs = both
    BY DEF mcnet_setsockopt
  <2>2. mcnet_adjust(s, mcnet_cx_frame(c)).bs = both
    BY <1>1 DEF mcnet_setsockopt, mcnet_adjust, mcnet_cx_frame, BS_MASK
  <2>3. mcnet_adjust(c, both % 16).bs = both
    BY <1>1 DEF mcnet_setsockopt, mcnet_adjust, Smallest
  <2>4. both > 0
    BY <1>1 DEF Smallest
  <2> HIDE DEF both, c, s
  <2> QED BY <2>2, <2>3, <2>4 DEF McnetAgreed, mcnet_cx_frame, BS_MASK
<1>3. ULONG_MAX \in Nat /\ ULONG_MAX > 0
  BY DEF ULONG_MAX
<1>4. ASSUME co.td.sec > 0 \/ co.td.usec > 0
      PROVE  c.td > 0
  <2>1. PICK sec \in Nat, usec \in Nat : co.td = [sec |-> sec, usec |-> usec] /\ (sec > 0 \/ usec > 0)
    BY <1>4 DEF TimeVals
  <2>a. usec + (tick - 1) <= ULONG_MAX
    BY <1>3, <2>1
  <2>2. /\ td \in 0 .. ULONG_MAX
        /\ td = ULONG_MAX \/ td * tick >= sec * hz * tick + usec
    BY <1>3, <2>1, <2>a, DelayNeverShort
  <2>3. sec * hz * tick \in Nat /\ (sec > 0 => sec * hz * tick > 0)
    <3>1. sec * hz \in Nat /\ (sec > 0 => sec * hz > 0)
      BY Z3
    <3> QED BY <3>1, Z3
  <2> HIDE DEF td
  <2>4. td = 0 => td * tick = 0
    OBVIOUS
  <2> DEFINE asked == sec * hz * tick
             given == td * tick
  <2>5. asked \in Nat /\ (sec > 0 => asked > 0) /\ (td = 0 => given = 0)
        /\ (td = ULONG_MAX \/ given >= asked + usec) /\ td \in Nat
    BY <1>3, <2>2, <2>3, <2>4
  <2> HIDE DEF asked, given
  <2>6. td > 0
    BY <1>3, <2>1, <2>5
  <2> QED BY <1>1, <2>6
<1> QED BY <1>2, <1>4

----------------------------------------------------------------------------
(* The samples.                                                            *)

\* OptionsArrive is a case of OptionsReachPartner.
LEMMA SampledOptionsArrive == OptionsArrive
<1> SUFFICES ASSUME NEW hz \in HZs, NEW opts \in Options
             PROVE  OptionsReach(opts, hz)
  BY DEF OptionsArrive
<1>1. opts \in [t1 : TimeVals, t3 : TimeVals, t4 : TimeVals, blocksize : 0 .. 15]
  BY DEF Options, Times, TimeVals
<1> QED BY <1>1, OptionsReachPartner

\* NeverShort is a case of DelayNeverShort.
LEMMA SampledNeverShort == NeverShort
<1> DEFINE Jif(max, tick, hz, sec, usec) == timeval2jiffies([sec |-> sec, usec |-> usec], TRUE, hz, tick, max)
           Holds(max, tick, hz, sec, usec) ==
             LET jif == Jif(max, tick, hz, sec, usec)
             IN  jif \in 0 .. max /\ (jif = max \/ jif * tick >= sec * hz * tick + usec)
<1>1. ASSUME NEW max \in Nat, NEW tick \in Nat \ {0}, NEW hz \in Nat \ {0}, NEW sec \in Nat, NEW usec \in Nat,
             usec + (tick - 1) <= max
      PROVE  Holds(max, tick, hz, sec, usec)
  <2>1. usec + (IF TRUE THEN tick - 1 ELSE 0) <= max
    BY <1>1
  <2> QED BY <2>1, DelayNeverShort
<1> HIDE DEF Holds
<1>2. ASSUME NEW max \in {63, 127}, NEW tick \in {1, 3, 5}, NEW hz \in {1, 4, 7},
             NEW sec \in 0 .. max, NEW usec \in 0 .. tick * hz
      PROVE  Holds(max, tick, hz, sec, usec)
  <2>1. max \in Nat /\ tick \in Nat \ {0} /\ hz \in Nat \ {0} /\ sec \in Nat /\ usec \in Nat
        /\ usec + (tick - 1) <= max
    <3>1. tick * hz <= 35
      OBVIOUS
    <3> QED BY <3>1
  <2> QED BY <1>1, <2>1
<1> QED BY <1>2, Zenon DEF NeverShort, Holds

\* BlockSizesAgree is a case of McnetSidesAgree.
LEMMA SampledBlockSizes == BlockSizesAgree
<1> SUFFICES ASSUME NEW hz \in HZs, NEW c \in 0 .. 16, NEW s \in 0 .. 16
             PROVE  LET Of(k) == mcnet_setsockopt([blocksize |-> k, td |-> [sec |-> 0, usec |-> 1]], hz)
                        both == Smallest(Of(c).bs, Of(s).bs)
                    IN  McnetAgreed(Of(c), Of(s)) = <<both, both>> /\ both > 0 /\ Of(c).td > 0
  BY Zenon DEF BlockSizesAgree
<1> DEFINE opts(k) == [blocksize |-> k, td |-> [sec |-> 0, usec |-> 1]]
<1>1. hz \in Nat \ {0} /\ Tick(hz) \in Nat \ {0} /\ 1 + Tick(hz) <= ULONG_MAX
  BY DEF HZs, Tick, ULONG_MAX
<1>2. opts(c) \in [blocksize : Nat, td : TimeVals] /\ opts(s) \in [blocksize : Nat, td : TimeVals]
  BY DEF TimeVals
<1>3. opts(c).td.usec = 1
  OBVIOUS
<1> HIDE DEF opts
<1>4. LET both == Smallest(mcnet_setsockopt(opts(c), hz).bs, mcnet_setsockopt(opts(s), hz).bs)
      IN  /\ McnetAgreed(mcnet_setsockopt(opts(c), hz), mcnet_setsockopt(opts(s), hz)) = <<both, both>>
          /\ both > 0 /\ mcnet_setsockopt(opts(c), hz).td > 0
  BY <1>1, <1>2, <1>3, McnetSidesAgree
<1> QED BY <1>4 DEF opts

----------------------------------------------------------------------------
(* What the run checks.                                                    *)

\* X_setsockopt(), X_fill_cx_frame(), X_adjust_parameters(): a connection runs with
\* the parameters that its partner asked for.  OptionsReachPartner has it for
\* all socket options.
THEOREM ParametersReach == Spec => []ParametersArrive
<1>1. ParametersArrive
  BY SampledOptionsArrive, SampledNeverShort, SampledBlockSizes DEF ParametersArrive
<1> QED BY <1>1, PTL

----------------------------------------------------------------------------
(* The other half of tp20.c, modelled by itself: the transmit queue that   *)
(* tp20_sendmsg() and the engine share (TpSendQueue).  It keeps every      *)
(* message, and no freed cell is used, as long as no softirq takes away    *)
(* the cell that sendmsg stands on and no break meets it as it appends:    *)
(* for any number of messages, and for any other order of accesses.        *)

Links == 0 .. MaxMsgs

QueueTypes ==
  /\ tx_queue \in Links /\ next \in [Cells -> Links]
  /\ cell \in [Cells -> {"unused", "filled", "queued", "complete", "removed"}]
  /\ txState \in {"TX_IDLE", "TX_WAIT_AK"}
  /\ breakMode \in BOOLEAN /\ break2usr \in BOOLEAN
  /\ pc \in {"user", "head", "walk", "link", "first", "wake", "break"}
  /\ txb \in Links /\ p \in Links
  /\ badAccess \in BOOLEAN /\ overtaken \in BOOLEAN
  /\ pc \in {"walk", "link"} => p # NULL

Queued == {c \in Cells : cell[c] = "queued"}
Appending == pc \in {"head", "walk", "link", "first"}

\* The cells are used one after the other; the last one is filled while
\* sendmsg appends it.
CellsInv ==
  /\ \A c, d \in Cells : c < d /\ cell[d] # "unused" => cell[c] \notin {"unused", "filled"}
  /\ Appending => txb \in Cells /\ cell[txb] = "filled" /\ next[txb] = NULL
  /\ \A c \in Cells : cell[c] = "filled" => Appending /\ c = txb

\* The messages queued are the latest ones, linked in their order from
\* tx_queue on.
ListInv ==
  /\ \A c, d \in Cells : c < d /\ cell[c] = "queued" => cell[d] \in {"queued", "filled", "unused"}
  /\ \A c \in Queued : next[c] = IF c + 1 \in Queued THEN c + 1 ELSE NULL
  /\ pc # "break" => IF Queued = {} THEN tx_queue = NULL
                     ELSE tx_queue \in Queued /\ \A c \in Queued : tx_queue <= c

\* sendmsg stands on a queued cell, at the last one when it appends.
WalkInv ==
  /\ pc \in {"walk", "link"} => p \in Queued
  /\ pc = "link" => next[p] = NULL
  /\ pc = "first" => Queued = {}

\* Who works on the list after a break, and when the engine waits.
BreakInv ==
  /\ txState = "TX_WAIT_AK" => tx_queue # NULL
  /\ Appending \/ pc = "wake" => ~breakMode /\ ~break2usr
  /\ break2usr /\ ~breakMode => txState = "TX_IDLE"
  /\ pc = "break" => break2usr /\ ~breakMode /\ Queued = {}

Undisturbed == CellsInv /\ ListInv /\ WalkInv /\ BreakInv /\ ~badAccess

QueueInv == QueueTypes /\ (~overtaken => Undisturbed)

----------------------------------------------------------------------------
(* What a list linked in the order of its cells holds.                     *)

\* A set of numbers has a least one.
LEMMA LeastNumber ==
  ASSUME NEW T \in SUBSET Nat, T # {}
  PROVE  \E n \in T : \A m \in T : n <= m
<1> DEFINE R == {ss \in Nat \X Nat : ss[1] < ss[2]}
<1>1. IsWellFoundedOn(R, Nat)
  BY NatLessThanWellFounded DEF OpToRel
<1>2. \A x, y \in Nat : x < y => <<x, y>> \in R
  OBVIOUS
<1> HIDE DEF R
<1>3. PICK n \in T : \A m \in T : ~(<<m, n>> \in R)
  BY <1>1, WFMin
<1>4. \A m \in T : ~(m < n)
  BY <1>2, <1>3
<1>5. \A m \in T : n <= m
  <2> SUFFICES ASSUME NEW m \in T PROVE n <= m
    OBVIOUS
  <2>1. m \in Nat /\ n \in Nat /\ ~(m < n)
    BY <1>4
  <2> QED BY <2>1
<1> QED BY <1>5

LEMMA CellFacts ==
  /\ MaxMsgs \in Nat /\ NULL = 0 /\ NULL \notin Cells /\ Cells \subseteq Links
  /\ \A c \in Cells : c \in Nat /\ c # NULL
  /\ \A c \in Links : c # NULL => c \in Cells
BY QueueAssumption DEF Cells, Links, NULL

\* Nobody meets a cell that is not queued.
LEMMA ListedAreQueued ==
  ASSUME QueueTypes, ListInv, pc # "break"
  PROVE  Listed \subseteq Queued
<1>1. Queued \in SUBSET Cells
  BY DEF Queued
<1>2. Closed(Queued)
  BY DEF Closed, ListInv
<1> QED BY <1>1, <1>2 DEF Listed

\* Everything queued is met.
LEMMA QueuedAreListed ==
  ASSUME QueueTypes, CellsInv, ListInv, pc # "break"
  PROVE  Queued \subseteq Listed
<1> SUFFICES ASSUME NEW S \in SUBSET Cells, Closed(S) PROVE Queued \subseteq S
  BY DEF Listed, Queued
<1> SUFFICES ASSUME Queued \ S # {} PROVE FALSE
  OBVIOUS
<1> DEFINE T == Queued \ S
<1>1. T \in SUBSET Nat
  BY CellFacts DEF Queued
<1>2. PICK n \in T : \A m \in T : n <= m
  <2> HIDE DEF T
  <2> QED BY <1>1, LeastNumber DEF T
<1>3. n \in Queued /\ n \notin S /\ n \in Cells /\ n \in Nat
  BY CellFacts DEF Queued
<1>4. tx_queue \in Queued /\ tx_queue <= n /\ tx_queue # NULL /\ tx_queue \in Nat
  BY <1>3, CellFacts DEF ListInv, Queued
<1>5. tx_queue \in S
  BY <1>4 DEF Closed
<1> DEFINE m == n - 1
<1>6. m \in Cells /\ m < n /\ tx_queue <= m /\ m + 1 = n /\ m \in Nat
  <2>1. tx_queue # n /\ tx_queue \in 1 .. MaxMsgs /\ n \in 1 .. MaxMsgs /\ MaxMsgs \in Nat
    BY <1>3, <1>4, <1>5, CellFacts DEF Queued, Cells
  <2> QED BY <1>4, <2>1 DEF Cells
<1> HIDE DEF m
<1>7. m \in Queued
  <2>1. cell[n] = "queued" /\ cell[tx_queue] = "queued" /\ tx_queue \in Cells
    BY <1>3, <1>4 DEF Queued
  <2>2. cell[m] \notin {"unused", "filled"}
    BY <1>3, <1>6, <2>1 DEF CellsInv
  <2>3. m = tx_queue \/ tx_queue < m
    BY <1>4, <1>6
  <2>4. cell[m] = "queued"
    BY <1>6, <2>1, <2>2, <2>3 DEF ListInv
  <2> QED BY <1>6, <2>4 DEF Queued
<1>8. m \in S
  <2>1. ~(n <= m)
    BY <1>6
  <2> QED BY <1>2, <1>7, <2>1
<1>9. next[m] = n
  BY <1>3, <1>6, <1>7 DEF ListInv
<1> QED BY <1>3, <1>8, <1>9, CellFacts DEF Closed

----------------------------------------------------------------------------
(* The invariant holds at the start.                                       *)

LEMMA InitQueueInv == QueueInit => QueueInv
<1> SUFFICES ASSUME QueueInit PROVE QueueInv
  OBVIOUS
<1>1. QueueTypes
  <2>1. NULL \in Links
    BY CellFacts DEF Links
  <2>2. /\ next \in [Cells -> Links]
        /\ cell \in [Cells -> {"unused", "filled", "queued", "complete", "removed"}]
    BY <2>1 DEF QueueInit
  <2> QED BY <2>1, <2>2 DEF QueueInit, QueueTypes
<1>2. Queued = {}
  BY DEF QueueInit, Queued
<1>3. CellsInv /\ ListInv
  BY <1>2 DEF QueueInit, CellsInv, ListInv, Appending, Queued
<1>4. WalkInv /\ BreakInv /\ ~badAccess
  BY DEF QueueInit, WalkInv, BreakInv, Appending
<1> QED BY <1>1, <1>3, <1>4 DEF QueueInv, Undisturbed

----------------------------------------------------------------------------
(* Every step keeps the invariant.                                         *)

\* It suffices to look at steps before a softirq or a break disturbs sendmsg.
LEMMA Together ==
  ASSUME QueueTypes', ~overtaken' => Undisturbed'
  PROVE  QueueInv'
BY DEF QueueInv

LEMMA StepSendBegin ==
  ASSUME QueueInv, SendBegin, overtaken' = overtaken
  PROVE  QueueInv'
<1>1. PICK c \in Cells : /\ MaySubmit(c) /\ txb' = c
                         /\ cell' = [cell EXCEPT ![c] = "filled"]
                         /\ next' = [next EXCEPT ![c] = NULL]
  BY DEF SendBegin
<1>2. /\ pc = "user" /\ ~breakMode /\ ~break2usr /\ pc' = "head"
      /\ UNCHANGED <<tx_queue, txState, breakMode, break2usr, p, badAccess>>
  BY DEF SendBegin
<1>3. QueueTypes
  BY DEF QueueInv
<1>4. /\ cell' \in [Cells -> {"unused", "filled", "queued", "complete", "removed"}]
      /\ next' \in [Cells -> Links]
      /\ cell'[c] = "filled" /\ next'[c] = NULL
      /\ \A d \in Cells : d # c => cell'[d] = cell[d] /\ next'[d] = next[d]
  <2>1. /\ cell \in [Cells -> {"unused", "filled", "queued", "complete", "removed"}]
        /\ next \in [Cells -> Links] /\ NULL \in Links
    BY <1>3, CellFacts DEF QueueTypes, Links
  <2>2. cell' \in [Cells -> {"unused", "filled", "queued", "complete", "removed"}]
    BY <1>1, <2>1
  <2>3. next' \in [Cells -> Links]
    BY <1>1, <2>1
  <2> QED BY <1>1, <2>1, <2>2, <2>3
<1>5. QueueTypes'
  BY <1>1, <1>2, <1>3, <1>4, CellFacts DEF QueueTypes
<1>6. ASSUME ~overtaken' PROVE Undisturbed'
  <2>1. Undisturbed
    BY <1>6 DEF QueueInv
  <2>2. /\ cell[c] = "unused" /\ \A d \in Cells : d < c => cell[d] # "unused"
        /\ \A d \in Cells : cell[d] # "filled"
    BY <1>1, <1>2, <2>1 DEF MaySubmit, Undisturbed, CellsInv, Appending
  <2>3. Queued' = Queued /\ c \notin Queued
    BY <1>4, <2>2 DEF Queued
  <2>4. CellsInv'
    <3>1. \A a, d \in Cells : a < d /\ cell'[d] # "unused" => cell'[a] \notin {"unused", "filled"}
      <4> SUFFICES ASSUME NEW a \in Cells, NEW d \in Cells, a < d, cell'[d] # "unused"
                   PROVE  cell'[a] \notin {"unused", "filled"}
        OBVIOUS
      <4>1. CASE d = c
        <5>1. a # c /\ cell'[a] = cell[a]
          BY <1>4, <4>1, CellFacts
        <5> QED BY <2>2, <4>1, <5>1
      <4>2. CASE d # c
        <5>1. cell[d] # "unused"
          BY <1>4, <4>2
        <5>2. cell[a] \notin {"unused", "filled"}
          BY <2>1, <5>1 DEF Undisturbed, CellsInv
        <5> QED BY <1>4, <2>2, <5>2
      <4> QED BY <4>1, <4>2
    <3>2. \A d \in Cells : cell'[d] = "filled" => d = c
      BY <1>4, <2>2
    <3> QED BY <1>1, <1>2, <1>4, <3>1, <3>2 DEF CellsInv, Appending
  <2>5. ListInv'
    <3>1. \A a, d \in Cells : a < d /\ cell'[a] = "queued" => cell'[d] \in {"queued", "filled", "unused"}
      BY <1>4, <2>1 DEF Undisturbed, ListInv
    <3>2. \A a \in Queued : next'[a] = IF a + 1 \in Queued THEN a + 1 ELSE NULL
      BY <1>4, <2>1, <2>3 DEF Undisturbed, ListInv, Queued
    <3> QED BY <1>2, <2>1, <2>3, <3>1, <3>2 DEF Undisturbed, ListInv
  <2>6. WalkInv' /\ BreakInv' /\ ~badAccess'
    BY <1>2, <2>1 DEF Undisturbed, WalkInv, BreakInv, Appending
  <2> QED BY <2>4, <2>5, <2>6 DEF Undisturbed
<1> QED BY <1>5, <1>6, Together

LEMMA StepFindHead ==
  ASSUME QueueInv, FindHead, overtaken' = overtaken
  PROVE  QueueInv'
<1>1. /\ pc = "head"
      /\ IF tx_queue # NULL THEN pc' = "walk" /\ p' = tx_queue ELSE pc' = "first" /\ p' = p
      /\ UNCHANGED <<tx_queue, next, cell, txState, breakMode, break2usr, txb, badAccess>>
  BY DEF FindHead
<1>2. QueueTypes
  BY DEF QueueInv
<1>3. QueueTypes'
  BY <1>1, <1>2 DEF QueueTypes
<1>4. ASSUME ~overtaken' PROVE Undisturbed'
  <2>1. Undisturbed /\ Queued' = Queued
    BY <1>1, <1>4 DEF QueueInv, Queued
  <2>2. IF Queued = {} THEN tx_queue = NULL
        ELSE tx_queue \in Queued /\ tx_queue # NULL /\ \A c \in Queued : tx_queue <= c
    BY <1>1, <2>1, CellFacts DEF Undisturbed, ListInv, Queued
  <2>3. CellsInv'
    BY <1>1, <2>1 DEF Undisturbed, CellsInv, Appending
  <2>4. ListInv'
    BY <1>1, <2>1, <2>2 DEF Undisturbed, ListInv
  <2>5. WalkInv'
    BY <1>1, <2>1, <2>2 DEF WalkInv
  <2>6. BreakInv' /\ ~badAccess'
    BY <1>1, <2>1 DEF Undisturbed, BreakInv, Appending
  <2> QED BY <2>3, <2>4, <2>5, <2>6 DEF Undisturbed
<1> QED BY <1>3, <1>4, Together

LEMMA StepWalk ==
  ASSUME QueueInv, Walk, overtaken' = overtaken
  PROVE  QueueInv'
<1>1. /\ pc = "walk"
      /\ IF next[p] = NULL THEN pc' = "link" /\ p' = p ELSE p' = next[p] /\ pc' = pc
      /\ badAccess' = (badAccess \/ Freed(p))
      /\ UNCHANGED <<tx_queue, next, cell, txState, breakMode, break2usr, txb>>
  BY DEF Walk, AtEnd
<1>2. QueueTypes /\ p \in Cells
  BY <1>1, CellFacts DEF QueueInv, QueueTypes
<1>3. QueueTypes'
  <2>1. badAccess' \in BOOLEAN
    BY <1>1, Zenon
  <2>2. p' \in Links /\ p' # NULL /\ pc' \in {"walk", "link"}
    BY <1>1, <1>2, CellFacts DEF QueueTypes
  <2> QED BY <1>1, <1>2, <2>1, <2>2 DEF QueueTypes
<1>4. ASSUME ~overtaken' PROVE Undisturbed'
  <2>1. Undisturbed /\ Queued' = Queued
    BY <1>1, <1>4 DEF QueueInv, Queued
  <2>2. p \in Queued
    BY <1>1, <2>1 DEF Undisturbed, WalkInv
  <2>3. ~badAccess'
    BY <1>1, <2>1, <2>2 DEF Undisturbed, Freed, Complete, Queued
  <2>4. next[p] # NULL => next[p] \in Queued
    BY <2>1, <2>2 DEF Undisturbed, ListInv
  <2>5. CellsInv'
    BY <1>1, <2>1 DEF Undisturbed, CellsInv, Appending
  <2>6. ListInv'
    BY <1>1, <2>1 DEF Undisturbed, ListInv
  <2>7. WalkInv'
    BY <1>1, <2>1, <2>2, <2>4 DEF WalkInv
  <2>8. BreakInv'
    BY <1>1, <2>1 DEF Undisturbed, BreakInv, Appending
  <2> QED BY <2>3, <2>5, <2>6, <2>7, <2>8 DEF Undisturbed
<1> QED BY <1>3, <1>4, Together

LEMMA StepLink ==
  ASSUME QueueInv, Link, overtaken' = overtaken
  PROVE  QueueInv'
<1>1. /\ pc = "link" /\ pc' = "wake"
      /\ next' = [next EXCEPT ![p] = txb]
      /\ cell' = [cell EXCEPT ![txb] = "queued"]
      /\ badAccess' = (badAccess \/ Freed(p))
      /\ UNCHANGED <<tx_queue, txState, breakMode, break2usr, txb, p>>
  BY DEF Link
<1>2. QueueTypes /\ p \in Cells
  BY <1>1, CellFacts DEF QueueInv, QueueTypes
<1>3. QueueTypes'
  <2>1. badAccess' \in BOOLEAN
    BY <1>1, Zenon
  <2>2. /\ cell' \in [Cells -> {"unused", "filled", "queued", "complete", "removed"}]
        /\ next' \in [Cells -> Links]
    BY <1>1, <1>2 DEF QueueTypes
  <2> QED BY <1>1, <1>2, <2>1, <2>2 DEF QueueTypes
<1>4. ASSUME ~overtaken' PROVE Undisturbed'
  <2>1. Undisturbed
    BY <1>4 DEF QueueInv
  <2>2. /\ p \in Queued /\ cell[p] = "queued" /\ next[p] = NULL
        /\ txb \in Cells /\ cell[txb] = "filled" /\ next[txb] = NULL /\ txb # p
    BY <1>1, <2>1 DEF Undisturbed, WalkInv, CellsInv, Appending, Queued
  <2>3. /\ cell'[txb] = "queued" /\ next'[p] = txb
        /\ \A d \in Cells : d # txb => cell'[d] = cell[d]
        /\ \A d \in Cells : d # p => next'[d] = next[d]
    BY <1>1, <1>2, <2>2 DEF QueueTypes
  <2>4. Queued' = Queued \cup {txb} /\ txb \notin Queued
    BY <2>2, <2>3 DEF Queued
  <2>5. \A d \in Cells : d > txb => cell[d] = "unused"
    <3> SUFFICES ASSUME NEW d \in Cells, d > txb, cell[d] # "unused" PROVE FALSE
      OBVIOUS
    <3>1. txb < d
      BY <2>2, CellFacts
    <3> QED BY <2>1, <2>2, <3>1 DEF Undisturbed, CellsInv
  <2>6. \A d \in Queued : d < txb
    <3> SUFFICES ASSUME NEW d \in Queued PROVE d < txb
      OBVIOUS
    <3>1. d \in Cells /\ cell[d] = "queued" /\ d # txb /\ ~(d > txb)
      BY <2>2, <2>5 DEF Queued
    <3> QED BY <2>2, <3>1, CellFacts
  <2>7. p + 1 = txb
    <3> SUFFICES ASSUME p + 1 # txb PROVE FALSE
      OBVIOUS
    <3> DEFINE e == p + 1
    <3>1. e \in Cells /\ p < e /\ e < txb
      BY <1>2, <2>2, <2>6, CellFacts DEF Cells
    <3>2. e \notin Queued
      <4>1. next[p] = IF p + 1 \in Queued THEN p + 1 ELSE NULL
        BY <2>1, <2>2 DEF Undisturbed, ListInv
      <4> QED BY <2>2, <3>1, <4>1, CellFacts
    <3> HIDE DEF e
    <3>3. cell[e] \in {"queued", "filled", "unused"}
      BY <1>2, <2>1, <2>2, <3>1 DEF Undisturbed, ListInv
    <3>4. cell[e] \notin {"unused", "filled"}
      BY <2>1, <2>2, <3>1 DEF Undisturbed, CellsInv
    <3> QED BY <3>1, <3>2, <3>3, <3>4 DEF Queued
  <2>8. ~badAccess'
    BY <1>1, <2>1, <2>2 DEF Undisturbed, Freed, Complete
  <2>9. CellsInv'
    <3>1. \A a, d \in Cells : a < d /\ cell'[d] # "unused" => cell'[a] \notin {"unused", "filled"}
      <4> SUFFICES ASSUME NEW a \in Cells, NEW d \in Cells, a < d, cell'[d] # "unused"
                   PROVE  cell'[a] \notin {"unused", "filled"}
        OBVIOUS
      <4>1. cell[d] # "unused"
        BY <2>2, <2>3
      <4>2. cell[a] \notin {"unused", "filled"}
        BY <2>1, <4>1 DEF Undisturbed, CellsInv
      <4> QED BY <2>3, <4>2
    <3>2. \A d \in Cells : cell'[d] # "filled"
      BY <1>1, <2>1, <2>3 DEF Undisturbed, CellsInv
    <3> QED BY <1>1, <3>1, <3>2 DEF CellsInv, Appending
  <2>10. ListInv'
    <3>1. \A a, d \in Cells : a < d /\ cell'[a] = "queued" => cell'[d] \in {"queued", "filled", "unused"}
      <4> SUFFICES ASSUME NEW a \in Cells, NEW d \in Cells, a < d, cell'[a] = "queued"
                   PROVE  cell'[d] \in {"queued", "filled", "unused"}
        OBVIOUS
      <4>1. CASE a = txb
        BY <2>3, <2>5, <4>1, CellFacts
      <4>2. CASE a # txb
        <5>1. cell[d] \in {"queued", "filled", "unused"}
          BY <2>1, <2>3, <4>2 DEF Undisturbed, ListInv
        <5> QED BY <2>3, <5>1
      <4> QED BY <4>1, <4>2
    <3>2. \A a \in Queued' : next'[a] = IF a + 1 \in Queued' THEN a + 1 ELSE NULL
      <4> SUFFICES ASSUME NEW a \in Queued'
                   PROVE  next'[a] = IF a + 1 \in Queued' THEN a + 1 ELSE NULL
        OBVIOUS
      <4>1. CASE a = txb
        <5>1. txb + 1 \notin Queued'
          <6>1. txb + 1 \notin Queued /\ txb + 1 # txb
            BY <2>2, <2>6, CellFacts
          <6> QED BY <2>4, <6>1
        <5> QED BY <2>2, <2>3, <4>1, <5>1
      <4>2. CASE a = p
        BY <2>3, <2>4, <2>7, <4>2
      <4>3. CASE a # p /\ a # txb
        <5>1. a \in Queued /\ a \in Cells
          BY <2>4, <4>3 DEF Queued
        <5>2. a + 1 # txb
          BY <1>2, <2>7, <4>3, <5>1, CellFacts
        <5>3. next[a] = IF a + 1 \in Queued THEN a + 1 ELSE NULL
          BY <2>1, <5>1 DEF Undisturbed, ListInv
        <5> QED BY <2>3, <2>4, <4>3, <5>1, <5>2, <5>3
      <4> QED BY <4>1, <4>2, <4>3
    <3>3. tx_queue' \in Queued' /\ \A a \in Queued' : tx_queue' <= a
      <4>1. tx_queue \in Queued /\ \A a \in Queued : tx_queue <= a
        BY <1>1, <2>1, <2>2 DEF Undisturbed, ListInv
      <4>2. tx_queue <= txb
        BY <2>2, <2>6, <4>1, CellFacts DEF Queued
      <4> QED BY <1>1, <2>4, <4>1, <4>2
    <3> QED BY <3>1, <3>2, <3>3 DEF ListInv
  <2>11. WalkInv' /\ BreakInv'
    BY <1>1, <2>1 DEF Undisturbed, WalkInv, BreakInv, Appending
  <2> QED BY <2>8, <2>9, <2>10, <2>11 DEF Undisturbed
<1> QED BY <1>3, <1>4, Together

LEMMA StepFirst ==
  ASSUME QueueInv, First, overtaken' = overtaken
  PROVE  QueueInv'
<1>1. /\ pc = "first" /\ pc' = "wake" /\ tx_queue' = txb
      /\ cell' = [cell EXCEPT ![txb] = "queued"]
      /\ UNCHANGED <<next, txState, breakMode, break2usr, txb, p, badAccess>>
  BY DEF First
<1>2. QueueTypes
  BY DEF QueueInv
<1>3. QueueTypes'
  <2>1. cell' \in [Cells -> {"unused", "filled", "queued", "complete", "removed"}]
    BY <1>1, <1>2 DEF QueueTypes
  <2> QED BY <1>1, <1>2, <2>1 DEF QueueTypes
<1>4. ASSUME ~overtaken' PROVE Undisturbed'
  <2>1. Undisturbed
    BY <1>4 DEF QueueInv
  <2>2. Queued = {} /\ txb \in Cells /\ cell[txb] = "filled" /\ next[txb] = NULL
    BY <1>1, <2>1 DEF Undisturbed, WalkInv, CellsInv, Appending
  <2>3. /\ cell'[txb] = "queued"
        /\ \A d \in Cells : d # txb => cell'[d] = cell[d]
    BY <1>1, <1>2, <2>2 DEF QueueTypes
  <2>4. Queued' = {txb}
    BY <2>2, <2>3 DEF Queued
  <2>5. \A d \in Cells : d > txb => cell[d] = "unused"
    <3> SUFFICES ASSUME NEW d \in Cells, d > txb, cell[d] # "unused" PROVE FALSE
      OBVIOUS
    <3>1. txb < d
      BY <2>2, CellFacts
    <3> QED BY <2>1, <2>2, <3>1 DEF Undisturbed, CellsInv
  <2>6. CellsInv'
    <3>1. \A a, d \in Cells : a < d /\ cell'[d] # "unused" => cell'[a] \notin {"unused", "filled"}
      <4> SUFFICES ASSUME NEW a \in Cells, NEW d \in Cells, a < d, cell'[d] # "unused"
                   PROVE  cell'[a] \notin {"unused", "filled"}
        OBVIOUS
      <4>1. cell[d] # "unused"
        BY <2>2, <2>3
      <4>2. cell[a] \notin {"unused", "filled"}
        BY <2>1, <4>1 DEF Undisturbed, CellsInv
      <4> QED BY <2>3, <4>2
    <3>2. \A d \in Cells : cell'[d] # "filled"
      BY <1>1, <2>1, <2>3 DEF Undisturbed, CellsInv
    <3> QED BY <1>1, <3>1, <3>2 DEF CellsInv, Appending
  <2>7. ListInv'
    <3>1. \A a, d \in Cells : a < d /\ cell'[a] = "queued" => cell'[d] \in {"queued", "filled", "unused"}
      <4> SUFFICES ASSUME NEW a \in Cells, NEW d \in Cells, a < d, cell'[a] = "queued"
                   PROVE  cell'[d] \in {"queued", "filled", "unused"}
        OBVIOUS
      <4>1. a = txb
        BY <2>4 DEF Queued
      <4> QED BY <2>3, <2>5, <4>1, CellFacts
    <3>2. next'[txb] = NULL /\ txb + 1 # txb
      BY <1>1, <2>2, CellFacts
    <3>3. txb <= txb
      BY <2>2, CellFacts
    <3> QED BY <1>1, <2>4, <3>1, <3>2, <3>3 DEF ListInv
  <2>8. WalkInv' /\ BreakInv' /\ ~badAccess'
    BY <1>1, <2>1, <2>2, CellFacts DEF Undisturbed, WalkInv, BreakInv, Appending
  <2> QED BY <2>6, <2>7, <2>8 DEF Undisturbed
<1> QED BY <1>3, <1>4, Together

LEMMA StepWake ==
  ASSUME QueueInv, Wake, overtaken' = overtaken
  PROVE  QueueInv'
<1>1. /\ pc = "wake" /\ pc' = "user"
      /\ IF txState = "TX_IDLE" THEN TxWakeup(tx_queue) ELSE UNCHANGED <<txState, breakMode>>
      /\ UNCHANGED <<tx_queue, next, cell, break2usr, txb, p, badAccess>>
  BY DEF Wake, Starts
<1>2. QueueTypes
  BY DEF QueueInv
<1>3. QueueTypes'
  BY <1>1, <1>2 DEF QueueTypes, TxWakeup
<1>4. ASSUME ~overtaken' PROVE Undisturbed'
  <2>1. Undisturbed /\ Queued' = Queued
    BY <1>1, <1>4 DEF QueueInv, Queued
  <2>2. CellsInv' /\ ListInv'
    BY <1>1, <2>1 DEF Undisturbed, CellsInv, ListInv, Appending
  <2>3. WalkInv' /\ ~badAccess'
    BY <1>1, <2>1 DEF Undisturbed, WalkInv
  <2>4. BreakInv'
    BY <1>1, <2>1 DEF Undisturbed, BreakInv, Appending, TxWakeup
  <2> QED BY <2>2, <2>3, <2>4 DEF Undisturbed
<1> QED BY <1>3, <1>4, Together

LEMMA StepBreakFree ==
  ASSUME QueueInv, BreakFree, overtaken' = overtaken
  PROVE  QueueInv'
<1>1. /\ pc = "user" /\ break2usr /\ ~breakMode /\ pc' = "break"
      /\ cell' = [c \in Cells |-> IF c \in Listed THEN "removed" ELSE cell[c]]
      /\ badAccess' = (badAccess \/ \E c \in Listed : Freed(c))
      /\ UNCHANGED <<tx_queue, next, txState, breakMode, break2usr, txb, p>>
  BY DEF BreakFree, BreakSeen
<1>2. QueueTypes
  BY DEF QueueInv
<1>3. QueueTypes'
  <2>1. badAccess' \in BOOLEAN
    BY <1>1, Zenon
  <2>2. cell' \in [Cells -> {"unused", "filled", "queued", "complete", "removed"}]
    BY <1>1, <1>2 DEF QueueTypes
  <2> QED BY <1>1, <1>2, <2>1, <2>2 DEF QueueTypes
<1>4. ASSUME ~overtaken' PROVE Undisturbed'
  <2>1. Undisturbed
    BY <1>4 DEF QueueInv
  <2>2. Listed = Queued
    BY <1>1, <1>2, <2>1, ListedAreQueued, QueuedAreListed DEF Undisturbed
  <2>3. \A c \in Cells : cell'[c] = IF cell[c] = "queued" THEN "removed" ELSE cell[c]
    BY <1>1, <2>2 DEF Queued
  <2>4. Queued' = {}
    BY <2>3 DEF Queued
  <2>5. ~badAccess'
    BY <1>1, <2>1, <2>2 DEF Undisturbed, Freed, Complete, Queued
  <2>6. CellsInv'
    BY <1>1, <2>1, <2>3 DEF Undisturbed, CellsInv, Appending
  <2>7. ListInv'
    BY <1>1, <2>3, <2>4 DEF ListInv
  <2>8. WalkInv' /\ BreakInv'
    BY <1>1, <2>1, <2>4 DEF Undisturbed, WalkInv, BreakInv, Appending
  <2> QED BY <2>5, <2>6, <2>7, <2>8 DEF Undisturbed
<1> QED BY <1>3, <1>4, Together

LEMMA StepBreakDone ==
  ASSUME QueueInv, BreakDone, overtaken' = overtaken
  PROVE  QueueInv'
<1>1. /\ pc = "break" /\ pc' = "user" /\ tx_queue' = NULL /\ break2usr' = FALSE
      /\ UNCHANGED <<next, cell, txState, breakMode, txb, p, badAccess>>
  BY DEF BreakDone, EmptyQueue
<1>2. QueueTypes
  BY DEF QueueInv
<1>3. QueueTypes'
  <2>1. NULL \in Links
    BY CellFacts DEF Links
  <2> QED BY <1>1, <1>2, <2>1 DEF QueueTypes
<1>4. ASSUME ~overtaken' PROVE Undisturbed'
  <2>1. Undisturbed /\ Queued' = Queued
    BY <1>1, <1>4 DEF QueueInv, Queued
  <2>2. Queued = {}
    BY <1>1, <2>1 DEF Undisturbed, BreakInv
  <2>3. CellsInv' /\ ListInv'
    BY <1>1, <2>1, <2>2 DEF Undisturbed, CellsInv, ListInv, Appending
  <2>4. WalkInv' /\ ~badAccess'
    BY <1>1, <2>1 DEF Undisturbed, WalkInv
  <2>5. BreakInv'
    BY <1>1, <2>1 DEF Undisturbed, BreakInv, Appending
  <2> QED BY <2>3, <2>4, <2>5 DEF Undisturbed
<1> QED BY <1>3, <1>4, Together

LEMMA StepTxBreak ==
  ASSUME QueueInv, TxBreak
  PROVE  QueueInv'
<1>1. /\ txState # "TX_IDLE" /\ breakMode' = TRUE /\ break2usr' = TRUE
      /\ overtaken' = (overtaken \/ pc # "user")
      /\ UNCHANGED <<tx_queue, next, cell, txState, pc, txb, p, badAccess>>
  BY DEF TxBreak, locals
<1>2. QueueTypes
  BY DEF QueueInv
<1>3. QueueTypes'
  <2>1. overtaken' \in BOOLEAN
    BY <1>1, Zenon
  <2> QED BY <1>1, <1>2, <2>1 DEF QueueTypes
<1>4. ASSUME ~overtaken' PROVE Undisturbed'
  <2>1. Undisturbed /\ Queued' = Queued /\ pc = "user"
    BY <1>1, <1>4 DEF QueueInv, Queued
  <2>2. CellsInv' /\ ListInv'
    BY <1>1, <2>1 DEF Undisturbed, CellsInv, ListInv, Appending
  <2>3. WalkInv' /\ ~badAccess'
    BY <1>1, <2>1 DEF Undisturbed, WalkInv
  <2>4. BreakInv'
    BY <1>1, <2>1 DEF Undisturbed, BreakInv, Appending
  <2> QED BY <2>2, <2>3, <2>4 DEF Undisturbed
<1> QED BY <1>3, <1>4, Together

LEMMA StepAckCrashes ==
  ASSUME QueueInv, AckCrashes
  PROVE  QueueInv'
<1>1. /\ txState = "TX_WAIT_AK" /\ tx_queue = NULL /\ badAccess' = TRUE /\ txState' = "TX_IDLE"
      /\ UNCHANGED <<tx_queue, next, cell, breakMode, break2usr, pc, txb, p, overtaken>>
  BY DEF AckCrashes, locals
<1>2. QueueTypes'
  BY <1>1 DEF QueueInv, QueueTypes
<1>3. overtaken
  BY <1>1 DEF QueueInv, Undisturbed, BreakInv
<1> QED BY <1>1, <1>2, <1>3, Together

LEMMA StepAckComplete ==
  ASSUME QueueInv, AckComplete
  PROVE  QueueInv'
<1> DEFINE h == tx_queue
<1>1. /\ txState = "TX_WAIT_AK" /\ h # NULL /\ tx_queue' = next[h]
      /\ cell' = [cell EXCEPT ![h] = "complete"]
      /\ badAccess' = (badAccess \/ cell[h] # "queued")
      /\ overtaken' = (overtaken \/ (pc \in {"walk", "link"} /\ p = h))
      /\ TxWakeup(next[h])
      /\ UNCHANGED <<next, break2usr, pc, txb, p>>
  BY DEF AckComplete, locals
<1>2. QueueTypes /\ h \in Cells /\ next[h] \in Links
  BY <1>1, CellFacts DEF QueueInv, QueueTypes
<1> HIDE DEF h
<1>3. QueueTypes'
  <2>1. badAccess' \in BOOLEAN /\ overtaken' \in BOOLEAN
    BY <1>1, Zenon
  <2>2. cell' \in [Cells -> {"unused", "filled", "queued", "complete", "removed"}]
    BY <1>1, <1>2 DEF QueueTypes
  <2>3. txState' \in {"TX_IDLE", "TX_WAIT_AK"} /\ breakMode' \in BOOLEAN
    BY <1>1, <1>2 DEF QueueTypes, TxWakeup
  <2> QED BY <1>1, <1>2, <2>1, <2>2, <2>3 DEF QueueTypes
<1>4. ASSUME ~overtaken' PROVE Undisturbed'
  <2>1. Undisturbed /\ ~(pc \in {"walk", "link"} /\ p = h)
    BY <1>1, <1>4 DEF QueueInv
  <2>2. pc # "break"
    BY <1>1, <2>1 DEF Undisturbed, BreakInv
  <2>3. h \in Queued /\ cell[h] = "queued" /\ \A c \in Queued : h <= c
    BY <1>1, <2>1, <2>2 DEF Undisturbed, ListInv, Queued, h
  <2>4. /\ cell'[h] = "complete"
        /\ \A d \in Cells : d # h => cell'[d] = cell[d]
    BY <1>1, <1>2 DEF QueueTypes
  <2>5. Queued' = Queued \ {h}
    BY <1>2, <2>4 DEF Queued
  <2>6. \A d \in Queued : d # h => h + 1 \in Queued /\ h + 1 <= d
    <3> SUFFICES ASSUME NEW d \in Queued, d # h PROVE h + 1 \in Queued /\ h + 1 <= d
      OBVIOUS
    <3> DEFINE e == h + 1
    <3>1. d \in Cells /\ h < d /\ e \in Cells /\ h < e /\ e <= d
      BY <1>2, <2>3, CellFacts DEF Queued, Cells
    <3> HIDE DEF e
    <3>2. cell[e] \in {"queued", "filled", "unused"}
      BY <1>2, <2>1, <2>3, <3>1 DEF Undisturbed, ListInv
    <3>3. cell[e] \notin {"unused", "filled"}
      <4>1. e = d \/ e < d
        BY <3>1, CellFacts
      <4>2. cell[d] = "queued"
        BY DEF Queued
      <4> QED BY <2>1, <3>1, <4>1, <4>2 DEF Undisturbed, CellsInv
    <3>4. e \in Queued
      BY <3>1, <3>2, <3>3 DEF Queued
    <3> QED BY <3>1, <3>4 DEF e
  <2>7. next[h] = IF h + 1 \in Queued THEN h + 1 ELSE NULL
    BY <2>1, <2>3 DEF Undisturbed, ListInv
  <2>8. h + 1 # h /\ h + 1 # NULL
    BY <1>2, CellFacts
  <2>9. ~badAccess'
    BY <1>1, <2>1, <2>3 DEF Undisturbed
  <2>10. CellsInv'
    <3>1. \A a, d \in Cells : a < d /\ cell'[d] # "unused" => cell'[a] \notin {"unused", "filled"}
      <4> SUFFICES ASSUME NEW a \in Cells, NEW d \in Cells, a < d, cell'[d] # "unused"
                   PROVE  cell'[a] \notin {"unused", "filled"}
        OBVIOUS
      <4>1. cell[d] # "unused"
        BY <2>3, <2>4
      <4>2. cell[a] \notin {"unused", "filled"}
        BY <2>1, <4>1 DEF Undisturbed, CellsInv
      <4> QED BY <2>4, <4>2
    <3>2. Appending => txb \in Cells /\ txb # h /\ cell'[txb] = "filled" /\ next'[txb] = NULL
      BY <1>1, <2>1, <2>3, <2>4 DEF Undisturbed, CellsInv
    <3>3. \A c \in Cells : cell'[c] = "filled" => Appending /\ c = txb
      BY <2>1, <2>4 DEF Undisturbed, CellsInv
    <3>4. Appending' <=> Appending
      BY <1>1 DEF Appending
    <3> QED BY <1>1, <3>1, <3>2, <3>3, <3>4 DEF CellsInv
  <2>11. ListInv'
    <3>1. \A a, d \in Cells : a < d /\ cell'[a] = "queued" => cell'[d] \in {"queued", "filled", "unused"}
      <4> SUFFICES ASSUME NEW a \in Cells, NEW d \in Cells, a < d, cell'[a] = "queued"
                   PROVE  cell'[d] \in {"queued", "filled", "unused"}
        OBVIOUS
      <4>1. a \in Queued /\ cell[a] = "queued" /\ h <= a
        BY <2>3, <2>4, <2>5 DEF Queued
      <4>2. d # h
        BY <1>2, <4>1, CellFacts
      <4> QED BY <2>1, <2>4, <4>1, <4>2 DEF Undisturbed, ListInv
    <3>2. \A a \in Queued' : next'[a] = IF a + 1 \in Queued' THEN a + 1 ELSE NULL
      <4> SUFFICES ASSUME NEW a \in Queued'
                   PROVE  next'[a] = IF a + 1 \in Queued' THEN a + 1 ELSE NULL
        OBVIOUS
      <4>1. a \in Queued /\ a \in Cells /\ h <= a
        BY <2>3, <2>5 DEF Queued
      <4>2. a + 1 # h
        BY <1>2, <4>1, CellFacts
      <4>3. next[a] = IF a + 1 \in Queued THEN a + 1 ELSE NULL
        BY <2>1, <4>1 DEF Undisturbed, ListInv
      <4> QED BY <1>1, <2>5, <4>2, <4>3
    <3>3. IF Queued' = {} THEN tx_queue' = NULL
          ELSE tx_queue' \in Queued' /\ \A a \in Queued' : tx_queue' <= a
      <4>1. CASE h + 1 \in Queued
        <5>1. tx_queue' = h + 1 /\ h + 1 \in Queued'
          BY <1>1, <2>5, <2>7, <2>8, <4>1
        <5>2. \A a \in Queued' : h + 1 <= a
          BY <2>5, <2>6
        <5> QED BY <5>1, <5>2
      <4>2. CASE h + 1 \notin Queued
        BY <1>1, <2>5, <2>6, <2>7, <4>2
      <4> QED BY <4>1, <4>2
    <3> QED BY <3>1, <3>2, <3>3 DEF ListInv
  <2>12. WalkInv'
    <3>1. pc \in {"walk", "link"} => p \in Queued'
      BY <2>1, <2>5 DEF Undisturbed, WalkInv
    <3>2. pc # "first"
      BY <2>1, <2>3 DEF Undisturbed, WalkInv
    <3> QED BY <1>1, <2>1, <3>1, <3>2 DEF Undisturbed, WalkInv
  <2>13. BreakInv'
    BY <1>1, <2>1, <2>2 DEF Undisturbed, BreakInv, Appending, TxWakeup
  <2> QED BY <2>9, <2>10, <2>11, <2>12, <2>13 DEF Undisturbed
<1> QED BY <1>3, <1>4, Together

LEMMA StepQueueInv == QueueInv /\ [QueueNext]_queueVars => QueueInv'
<1> SUFFICES ASSUME QueueInv, [QueueNext]_queueVars PROVE QueueInv'
  OBVIOUS
<1>1. CASE SendMsg
  BY <1>1, StepSendBegin, StepFindHead, StepWalk, StepLink, StepFirst, StepWake, StepBreakFree,
     StepBreakDone DEF SendMsg
<1>2. CASE UNCHANGED queueVars
  BY <1>2 DEF queueVars, QueueInv, QueueTypes, Undisturbed, CellsInv, ListInv, WalkInv, BreakInv, Queued, Appending
<1> QED BY <1>1, <1>2, StepAckComplete, StepAckCrashes, StepTxBreak DEF QueueNext

----------------------------------------------------------------------------
(* The theorems.                                                           *)

\* A message that sendmsg took stays in the list until it is complete or removed by
\* a break, whatever softirqs come between the accesses of tp20_sendmsg(), but for
\* the races named.
THEOREM MessagesStay == QueueSpec => []NoMessageLost
<1>1. QueueInit => QueueInv
  BY InitQueueInv
<1>2. QueueInv /\ [QueueNext]_queueVars => QueueInv'
  BY StepQueueInv
<1>3. QueueInv => NoMessageLost
  <2> SUFFICES ASSUME QueueInv, ~overtaken PROVE {c \in Cells : cell[c] = "queued"} \subseteq Listed
    BY DEF NoMessageLost
  <2>1. QueueTypes /\ Undisturbed
    BY DEF QueueInv
  <2>2. CASE pc = "break"
    BY <2>1, <2>2 DEF Undisturbed, BreakInv, Queued
  <2>3. CASE pc # "break"
    BY <2>1, <2>3, QueuedAreListed DEF Undisturbed, Queued
  <2> QED BY <2>2, <2>3
<1> QED BY <1>1, <1>2, <1>3, PTL DEF QueueSpec

\* Neither tp20_sendmsg() nor tp_tx_data() uses a cell that is freed or a list that
\* is gone, and the list is taken apart only when the engine is idle, but for the
\* same races.
THEOREM CellsAreThere == QueueSpec => []NoUseAfterFree
<1>1. QueueInit => QueueInv
  BY InitQueueInv
<1>2. QueueInv /\ [QueueNext]_queueVars => QueueInv'
  BY StepQueueInv
<1>3. QueueInv => NoUseAfterFree
  <2> SUFFICES ASSUME QueueInv PROVE NoUseAfterFree
    OBVIOUS
  <2>1. (pc \in {"walk", "link"}) => p # NULL
    BY DEF QueueInv, QueueTypes
  <2>2. badAccess => overtaken
    BY DEF QueueInv, Undisturbed
  <2>3. BreakIsSafe
    BY DEF QueueInv, Undisturbed, BreakInv, BreakIsSafe
  <2> QED BY <2>1, <2>2, <2>3 DEF NoUseAfterFree
<1> QED BY <1>1, <1>2, <1>3, PTL DEF QueueSpec
=============================================================================
