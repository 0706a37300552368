----------------------------- MODULE TpConnection -----------------------------
(***************************************************************************)
(* What connection setup has in common in tp20.c, tp16.c and mcnet.c, whose *)
(* socket functions are copies of each other: the state of a client and a  *)
(* server, the processes that sleep in connect() and accept(), closing,    *)
(* and the CAN bus.  Tp20, Tp16 and MCNet add the handlers of each         *)
(* protocol; TpConnections puts them together.                             *)
(*                                                                         *)
(* Softirqs (received frames, timers) are atomic to each other; where a    *)
(* process or another CPU sees a handler half done there is an action for  *)
(* each half.  Data transfer is the subject of TpGen.                      *)
(***************************************************************************)
EXTENDS Naturals, Sequences

CONSTANTS
  mntc,          \* parm.mntc: repetitions of a CS frame
  mnct,          \* parm.mnct: repetitions of a CT frame
  Testing,       \* nodes with USE_CONNECTIONTEST set
  Disconnecting, \* nodes with USE_DISCONNECT set
  AutoDisconnecting, \* nodes with AUTO_DISCONNECT set, in TP1.6
  Reuse,         \* TRUE when the server accepts again on the same engine
  MayCrash,      \* nodes that may lose power
  MaxOpens,      \* bound: times the client opens a socket
  ChanCap        \* bound: frames in flight to one node; more are lost

Nodes == {"client", "server"}
Peer(n) == IF n = "client" THEN "server" ELSE "client"

ASSUME ParmAssumption ==
  /\ mntc \in Nat /\ mnct \in Nat /\ MaxOpens \in Nat /\ ChanCap \in Nat
  /\ Testing \subseteq Nodes /\ Disconnecting \subseteq Nodes
  /\ AutoDisconnecting \subseteq Nodes /\ MayCrash \subseteq Nodes
  /\ Reuse \in BOOLEAN

VARIABLES
  proto,        \* "tp20", "tp16" or "mcnet"; it does not change
  app,          \* what the process of a node is doing
  asleep,       \* it sleeps on ud->wait
  online,       \* the rx_handler is registered for the node's can_rx_id
  constate, conRetry, conTimer,     \* struct tp_cx_statem constate
  leftover,     \* history: conTimer was started in a connection that is over
  cteststate, ctRetry, ctTimer,     \* struct tp_cx_statem cteststate
  halfway,      \* X_disconnect() woke the process, the state is still old
  net,          \* frames on the bus, by the node they are for
  opens,        \* history: how often the client opened a socket
  answered,     \* history: the server's engine, once started, answered a CS
  raced         \* history: the process went to sleep while its node was halfway

conVars  == <<constate, conRetry, conTimer, leftover>>
testVars == <<cteststate, ctRetry, ctTimer>>
vars == <<proto, app, asleep, online, conVars, testVars, halfway, net, opens, answered, raced>>

----------------------------------------------------------------------------
(* Frames.                                                                 *)

\* tp_xmit_frame() for each of fs, at most two: the frames arrive in order, but
\* any of them may be lost, as no skb, no device or no receiver is there.
Survivors(fs) == {<<>>, fs} \cup {<<fs[i]>> : i \in DOMAIN fs}

Xmit(n, fs, rest) ==
  \E s \in Survivors(fs) :
    /\ Len(rest[Peer(n)]) + Len(s) <= ChanCap \/ s = <<>>
    /\ net' = [rest EXCEPT ![Peer(n)] = @ \o s]

\* The bus without the frame that n is handling.
Received(n) == [net EXCEPT ![n] = Tail(@)]

Handles(n, t) ==
  /\ online[n] /\ ~halfway[n]
  /\ net[n] # <<>> /\ Head(net[n]) = t

Init ==
  /\ app = [n \in Nodes |-> "closed"] /\ asleep = [n \in Nodes |-> FALSE]
  /\ online = [n \in Nodes |-> FALSE]
  /\ constate = [n \in Nodes |-> "CON_WAIT_CS"]
  /\ conRetry = [n \in Nodes |-> 0] /\ conTimer = [n \in Nodes |-> FALSE]
  /\ leftover = [n \in Nodes |-> FALSE]
  /\ cteststate = [n \in Nodes |-> "CT_DISABLED"]
  /\ ctRetry = [n \in Nodes |-> 0] /\ ctTimer = [n \in Nodes |-> FALSE]
  /\ halfway = [n \in Nodes |-> FALSE]
  /\ net = [n \in Nodes |-> <<>>]
  /\ opens = 0 /\ answered = FALSE
  /\ raced = [n \in Nodes |-> FALSE]

----------------------------------------------------------------------------
(* Connecting and disconnecting, as the handlers of every protocol do it.  *)

\* Mutant: the process is not woken.
WakeUpForgotten(n) == UNCHANGED asleep

\* wake_up_interruptible(&ud->wait)
WakeUp(n) == asleep' = [asleep EXCEPT ![n] = FALSE]

\* Mutant: the process that waits in connect() is left asleep.
WakeAndLeaveQuiet(n) ==
  /\ halfway' = [halfway EXCEPT ![n] = TRUE]
  /\ UNCHANGED <<asleep, constate, leftover>>

\* X_disconnect() in a softirq, the frame apart: connect() or accept() is
\* woken unless the channel was up (then it is read() that waits).
WakeAndLeave(n) ==
  /\ asleep' = [asleep EXCEPT ![n] = @ /\ constate[n] = "CON_CON"]
  /\ halfway' = [halfway EXCEPT ![n] = TRUE]
  /\ UNCHANGED <<constate, leftover>>

\* Only then the state changes; a process on another CPU may have looked at
\* it in between.  Other softirqs of the node wait for the end.
DisconnectEnd(n) ==
  /\ halfway[n]
  /\ halfway' = [halfway EXCEPT ![n] = FALSE]
  /\ constate' = [constate EXCEPT ![n] = "CON_DISC"]
  /\ leftover' = [leftover EXCEPT ![n] = conTimer[n]]
  /\ UNCHANGED <<proto, app, asleep, online, conRetry, conTimer, testVars, net,
                 opens, answered, raced>>

\* Mutant: the timer is not stopped.
ConnectedStillTimed(n) ==
  /\ constate' = [constate EXCEPT ![n] = "CON_CON"]
  /\ WakeUp(n)
  /\ UNCHANGED <<conTimer, leftover>>

\* The connection is up: the timer is off, connect() or accept() is woken.
Connected(n) ==
  /\ constate' = [constate EXCEPT ![n] = "CON_CON"]
  /\ conTimer' = [conTimer EXCEPT ![n] = FALSE]
  /\ leftover' = [leftover EXCEPT ![n] = FALSE]
  /\ WakeUp(n)

\* X_create_and_send_cs().
SendCS(n) ==
  /\ conTimer' = [conTimer EXCEPT ![n] = TRUE]
  /\ Xmit(n, <<"CS">>, net)

CT == <<"CT">>

\* X_create_and_send_ct(), the frame apart.
CreateAndSendCT(n) ==
  /\ cteststate' = [cteststate EXCEPT ![n] = "CT_WAIT_AK"]
  /\ ctTimer' = [ctTimer EXCEPT ![n] = TRUE]

\* The test starts once the connection is up.
Established(n, fs) ==
  /\ Connected(n)
  /\ IF cteststate[n] = "CT_WAIT_CON"
     THEN CreateAndSendCT(n) /\ Xmit(n, fs \o CT, Received(n))
     ELSE UNCHANGED <<cteststate, ctTimer>> /\ Xmit(n, fs, Received(n))

----------------------------------------------------------------------------
(* X_rx_handler().                                                         *)

\* X_con_data(), TPCS: connected, whatever the state was before.
ConDataCS(n) ==
  /\ Handles(n, "CS")
  /\ Established(n, <<"CA">>)
  /\ answered' = (answered \/ n = "server")
  /\ UNCHANGED <<proto, app, online, conRetry, ctRetry, halfway, opens, raced>>

\* X_ctest_data(): a CA while a test waits; its timer runs on.
TestAnswered(n) ==
  /\ cteststate[n] = "CT_WAIT_AK"
  /\ cteststate' = [cteststate EXCEPT ![n] = "CT_WAIT_TCT"]
  /\ ctRetry' = [ctRetry EXCEPT ![n] = 0]
  /\ UNCHANGED ctTimer

\* X_con_data(), TPCA at a client that waits for it.
ConDataCA(n) ==
  /\ Handles(n, "CA")
  /\ constate[n] = "CON_STARTUP"
  /\ Established(n, <<>>)
  /\ UNCHANGED <<proto, app, online, conRetry, ctRetry, halfway, opens, answered, raced>>

\* TPCA in any other state concerns the connection test only.
CtestDataCA(n) ==
  /\ Handles(n, "CA")
  /\ constate[n] # "CON_STARTUP"
  /\ TestAnswered(n) \/ (cteststate[n] # "CT_WAIT_AK" /\ UNCHANGED testVars)
  /\ net' = Received(n)
  /\ UNCHANGED <<proto, app, asleep, online, conVars, halfway, opens, answered, raced>>

\* Mutant: a test is answered in every state.
TestAcceptedAlways(n) == TRUE

\* Only a connected node answers a connection test.
TestAccepted(n) == constate[n] = "CON_CON"

\* X_con_data(), TPCT.
ConDataCT(n) ==
  /\ Handles(n, "CT")
  /\ Xmit(n, IF TestAccepted(n) THEN <<"CA">> ELSE <<>>, Received(n))
  /\ UNCHANGED <<proto, app, asleep, online, conVars, testVars, halfway, opens, answered, raced>>

\* X_con_data(), TPDC: a connected node says goodbye as well.
ConDataDC(n, farewell) ==
  /\ Handles(n, "DC")
  /\ IF constate[n] = "CON_CON"
     THEN WakeAndLeave(n) /\ Xmit(n, farewell, Received(n))
     ELSE net' = Received(n) /\ UNCHANGED <<constate, leftover, asleep, halfway>>
  /\ UNCHANGED <<proto, app, online, conRetry, conTimer, testVars, opens, answered, raced>>

\* No handler is registered: the frame is for nobody.
NobodyListens(n) ==
  /\ ~online[n] /\ net[n] # <<>>
  /\ net' = Received(n)
  /\ UNCHANGED <<proto, app, asleep, online, conVars, testVars, halfway, opens, answered, raced>>

----------------------------------------------------------------------------
(* Timers.                                                                 *)

ConTimerRuns(n) == conTimer[n] /\ ~halfway[n]

ConRetriesLeft(n) == conRetry[n] < mntc

\* X_con_timer() in CON_STARTUP: send CS again.
Repeat(n) ==
  /\ ConTimerRuns(n) /\ constate[n] = "CON_STARTUP" /\ ConRetriesLeft(n)
  /\ conRetry' = [conRetry EXCEPT ![n] = @ + 1]
  /\ SendCS(n)
  /\ UNCHANGED <<proto, app, asleep, online, constate, leftover, testVars, halfway,
                 opens, answered, raced>>

\* X_con_timer() in CON_STARTUP: nobody answers.
GiveUp(n) ==
  /\ ConTimerRuns(n) /\ constate[n] = "CON_STARTUP" /\ ~ConRetriesLeft(n)
  /\ conTimer' = [conTimer EXCEPT ![n] = FALSE]
  /\ conRetry' = [conRetry EXCEPT ![n] = 0]
  /\ WakeAndLeave(n)
  /\ UNCHANGED <<proto, app, online, testVars, net, opens, answered, raced>>

CtTimerRuns(n) == ctTimer[n] /\ ~halfway[n]

TestRetriesLeft(n) == ctRetry[n] < mnct

\* X_ctest_timer(): the next test, or the repetition of the last one.
CtestTimerSend(n) ==
  /\ CtTimerRuns(n)
  /\ \/ /\ cteststate[n] = "CT_WAIT_AK" /\ TestRetriesLeft(n)
        /\ ctRetry' = [ctRetry EXCEPT ![n] = @ + 1]
     \/ cteststate[n] # "CT_WAIT_AK" /\ UNCHANGED ctRetry
  /\ CreateAndSendCT(n)
  /\ Xmit(n, CT, net)
  /\ UNCHANGED <<proto, app, asleep, online, conVars, halfway, opens, answered, raced>>

\* X_ctest_timer(): the partner is gone.
CtestTimerGiveUp(n, farewell) ==
  /\ CtTimerRuns(n) /\ cteststate[n] = "CT_WAIT_AK" /\ ~TestRetriesLeft(n)
  /\ ctRetry' = [ctRetry EXCEPT ![n] = 0]
  /\ cteststate' = [cteststate EXCEPT ![n] = "CT_WAIT_CON"]
  /\ ctTimer' = [ctTimer EXCEPT ![n] = FALSE]
  /\ WakeAndLeave(n)
  /\ Xmit(n, farewell, net)
  /\ UNCHANGED <<proto, app, online, conRetry, conTimer, opens, answered, raced>>

----------------------------------------------------------------------------
(* The processes.                                                          *)

\* A tp_user_data that tp_create_ud() just cleared.
Cleared(n) ==
  /\ conRetry' = [conRetry EXCEPT ![n] = 0]
  /\ conTimer' = [conTimer EXCEPT ![n] = FALSE]
  /\ leftover' = [leftover EXCEPT ![n] = FALSE]
  /\ ctRetry' = [ctRetry EXCEPT ![n] = 0]
  /\ ctTimer' = [ctTimer EXCEPT ![n] = FALSE]
  /\ asleep' = [asleep EXCEPT ![n] = FALSE]
  /\ halfway' = [halfway EXCEPT ![n] = FALSE]
  /\ raced' = [raced EXCEPT ![n] = FALSE]

\* connect(), or bind() and listen(), up to can_rx_register(): from here on
\* frames reach the handlers, which find the zeroes of tp_create_ud().
Register(n) ==
  /\ app[n] = "closed"
  /\ n = "client" => opens < MaxOpens
  /\ app' = [app EXCEPT ![n] = "starting"]
  /\ online' = [online EXCEPT ![n] = TRUE]
  /\ constate' = [constate EXCEPT ![n] = "CON_WAIT_CS"]
  /\ cteststate' = [cteststate EXCEPT ![n] = "CT_DISABLED"]
  /\ Cleared(n)
  /\ opens' = IF n = "client" THEN opens + 1 ELSE opens
  /\ UNCHANGED <<proto, net, answered>>

\* The rest of X_start_engine(), with the first state of the connection test;
\* a client sends the first CS.
StateMachines(n, test) ==
  /\ app[n] = "starting" /\ ~halfway[n]
  /\ conRetry' = [conRetry EXCEPT ![n] = 0]
  /\ ctRetry' = [ctRetry EXCEPT ![n] = 0]
  /\ cteststate' = [cteststate EXCEPT ![n] = test]
  /\ IF n = "client"
     THEN /\ app' = [app EXCEPT ![n] = "connecting"]
          /\ constate' = [constate EXCEPT ![n] = "CON_STARTUP"]
          /\ SendCS(n)
     ELSE /\ app' = [app EXCEPT ![n] = "listening"]
          /\ constate' = [constate EXCEPT ![n] = "CON_WAIT_CS"]
          /\ UNCHANGED <<conTimer, net>>
  /\ answered' = (answered /\ n # "server")
  /\ UNCHANGED <<proto, asleep, online, leftover, ctTimer, halfway, opens, raced>>

\* What changes when only the process moves.
OnlyProcess == UNCHANGED <<proto, online, conVars, testVars, halfway, net, opens, answered>>

\* accept() is refused while a communication socket is open; "left" is the
\* listening socket whose communication socket has been closed.
Accept ==
  /\ app["server"] = "listening" \/ (app["server"] = "left" /\ Reuse)
  /\ app' = [app EXCEPT !["server"] = "accepting"]
  /\ UNCHANGED <<asleep, raced>> /\ OnlyProcess

\* The state connect() and accept() wait to see changed.
WaitsWhile(n) == IF n = "client" THEN "CON_STARTUP" ELSE "CON_WAIT_CS"

Blocked(n) == app[n] \in {"connecting", "accepting"}

\* wait_event_interruptible() finds nothing new.
Sleep(n) ==
  /\ Blocked(n) /\ ~asleep[n] /\ constate[n] = WaitsWhile(n)
  /\ asleep' = [asleep EXCEPT ![n] = TRUE]
  /\ raced' = [raced EXCEPT ![n] = @ \/ halfway[n]]
  /\ UNCHANGED app /\ OnlyProcess

\* connect() and accept() return 0, or -ETIMEDOUT.
Return(n) ==
  /\ Blocked(n) /\ ~asleep[n] /\ constate[n] # WaitsWhile(n)
  /\ app' = [app EXCEPT ![n] =
       IF n = "client"
       THEN IF constate[n] = "CON_CON" THEN "connected" ELSE "failed"
       ELSE IF constate[n] = "CON_CON" THEN "serving"   ELSE "listening"]
  /\ UNCHANGED <<asleep, raced>> /\ OnlyProcess

\* A signal: -ERESTARTSYS.
Interrupted(n) ==
  /\ Blocked(n)
  /\ app' = [app EXCEPT ![n] = IF n = "client" THEN "failed" ELSE "listening"]
  /\ asleep' = [asleep EXCEPT ![n] = FALSE]
  /\ UNCHANGED raced /\ OnlyProcess

\* wait_event_interruptible() and what follows it.
Waits(n) == Sleep(n) \/ Return(n) \/ Interrupted(n)

\* The tp_user_data is gone: no handler, no timer.
Gone(n) ==
  /\ app' = [app EXCEPT ![n] = "closed"]
  /\ online' = [online EXCEPT ![n] = FALSE]
  /\ constate' = [constate EXCEPT ![n] = "CON_WAIT_CS"]
  /\ cteststate' = [cteststate EXCEPT ![n] = "CT_DISABLED"]
  /\ Cleared(n)
  /\ UNCHANGED <<proto, opens, answered>>

\* X_release() of the last socket, a communication socket.
CloseLast(n, farewell) ==
  /\ app[n] \in {"connected", "failed", "serving_last"} /\ ~halfway[n]
  /\ Xmit(n, farewell, net)
  /\ Gone(n)

\* X_release() of the last socket, the listening socket: no goodbye.
CloseListening ==
  /\ app["server"] \in {"listening", "left"} /\ ~halfway["server"]
  /\ UNCHANGED net
  /\ Gone("server")

\* X_release() of the listening socket while the other is in use.
CloseUnused ==
  /\ app["server"] = "serving"
  /\ app' = [app EXCEPT !["server"] = "serving_last"]
  /\ UNCHANGED <<asleep, raced>> /\ OnlyProcess

\* X_release() of the communication socket while the listening socket is
\* open: the channel is disconnected and its engine runs on.
CloseComm(farewell) ==
  /\ app["server"] = "serving" /\ ~halfway["server"]
  /\ app' = [app EXCEPT !["server"] = "left"]
  /\ constate' = [constate EXCEPT !["server"] = "CON_DISC"]
  /\ leftover' = [leftover EXCEPT !["server"] = conTimer["server"]]
  /\ Xmit("server", farewell, net)
  /\ UNCHANGED <<proto, asleep, online, conRetry, conTimer, testVars, halfway,
                 opens, answered, raced>>

\* The node loses power.
Crash(n) ==
  /\ n \in MayCrash /\ app[n] # "closed"
  /\ UNCHANGED net
  /\ Gone(n)
===============================================================================
