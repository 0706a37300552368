---------------------------- MODULE TpConnections ----------------------------
(***************************************************************************)
(* A client and a server that speak the same one of the three protocols,   *)
(* and what connect(), accept() and the connection test promise.           *)
(***************************************************************************)
EXTENDS TpConnection, TpParameters

tp20 == INSTANCE Tp20
tp16 == INSTANCE Tp16
mcnet == INSTANCE MCNet

Protocols == {"tp20", "tp16", "mcnet"}

StartEngine(n) ==
  \/ proto = "tp20"  /\ tp20!tp20_start_engine(n)
  \/ proto = "tp16"  /\ tp16!tp16_start_engine(n)
  \/ proto = "mcnet" /\ mcnet!mcnet_start_engine(n)

RxHandler(n) ==
  \/ proto = "tp20"  /\ tp20!tp20_rx_handler(n)
  \/ proto = "tp16"  /\ tp16!tp16_rx_handler(n)
  \/ proto = "mcnet" /\ mcnet!mcnet_rx_handler(n)
  \/ NobodyListens(n)

ConTimer(n) ==
  \/ proto = "tp20"  /\ tp20!tp20_con_timer(n)
  \/ proto = "tp16"  /\ tp16!tp16_con_timer(n)
  \/ proto = "mcnet" /\ mcnet!mcnet_con_timer(n)

CtestTimer(n) ==
  \/ proto = "tp20"  /\ tp20!tp20_ctest_timer(n)
  \/ proto = "mcnet" /\ mcnet!mcnet_ctest_timer(n)

Release(n) ==
  \/ proto = "tp20"  /\ tp20!tp20_release(n)
  \/ proto = "tp16"  /\ tp16!tp16_release(n)
  \/ proto = "mcnet" /\ mcnet!mcnet_release(n)

Data(n) == proto = "tp16" /\ (tp16!MessageDone(n) \/ tp16!Traffic(n))

SocketCall(n) ==
  \/ proto = "tp20"  /\ (tp20!tp20_connect(n) \/ tp20!tp20_listen(n) \/ tp20!tp20_accept(n))
  \/ proto = "tp16"  /\ (tp16!tp16_connect(n) \/ tp16!tp16_listen(n) \/ tp16!tp16_accept(n))
  \/ proto = "mcnet" /\ (mcnet!mcnet_connect(n) \/ mcnet!mcnet_listen(n) \/ mcnet!mcnet_accept(n))

Process(n) == Sleep(n) \/ Return(n) \/ StartEngine(n)

Next ==
  \E n \in Nodes :
    \/ SocketCall(n) \/ StartEngine(n) \/ Release(n)
    \/ RxHandler(n) \/ ConTimer(n) \/ CtestTimer(n) \/ DisconnectEnd(n)
    \/ Data(n) \/ Crash(n)

Started == proto \in Protocols /\ Init

Spec == Started /\ [][Next]_vars

\* A runnable process runs, a handler that began ends, the bus delivers or
\* loses what it carries and pending timers expire.  Nothing is assumed of
\* what the applications do, nor of how many frames get through.
Fairness ==
  \A n \in Nodes :
    /\ WF_vars(Process(n)) /\ WF_vars(DisconnectEnd(n))
    /\ WF_vars(RxHandler(n)) /\ WF_vars(ConTimer(n)) /\ WF_vars(CtestTimer(n))

FairSpec == Spec /\ Fairness

----------------------------------------------------------------------------
(* Properties.                                                             *)

ConStates  == {"CON_WAIT_CS", "CON_STARTUP", "CON_CON", "CON_DISC"}
TestStates == {"CT_DISABLED", "CT_WAIT_CON", "CT_WAIT_AK", "CT_WAIT_TCT"}
Apps == {"closed", "starting", "connecting", "connected", "failed", "listening",
         "accepting", "serving", "serving_last", "left"}

\* Every variable has its type; the retry counters stay within mntc and mnct
\* (X_con_timer, X_ctest_timer).
TypeOK ==
  /\ proto \in Protocols
  /\ app \in [Nodes -> Apps] /\ asleep \in [Nodes -> BOOLEAN]
  /\ online \in [Nodes -> BOOLEAN]
  /\ constate \in [Nodes -> ConStates] /\ conRetry \in [Nodes -> 0 .. mntc]
  /\ conTimer \in [Nodes -> BOOLEAN] /\ leftover \in [Nodes -> BOOLEAN]
  /\ cteststate \in [Nodes -> TestStates] /\ ctRetry \in [Nodes -> 0 .. mnct]
  /\ ctTimer \in [Nodes -> BOOLEAN] /\ halfway \in [Nodes -> BOOLEAN]
  /\ net \in [Nodes -> Seq({"CS", "CA", "CT", "DC"})]
  /\ opens \in Nat /\ answered \in BOOLEAN /\ raced \in [Nodes -> BOOLEAN]

\* No process sleeps in connect() or accept() once what it waits for has
\* happened (wait_event_interruptible against the wake_up of the handlers),
\* unless it looked at the state within X_disconnect().
NoLostWakeup ==
  \A n \in Nodes :
    (Blocked(n) /\ asleep[n] /\ ~raced[n]) => constate[n] = WaitsWhile(n)

\* The timer that repeats CS and the one that ends an unused connection are the
\* same: a connection is never up with the timer of an earlier one running, which
\* would end it, although X_disconnect() leaves the timer alone.
NoOldTimer == \A n \in Nodes : constate[n] = "CON_CON" => ~leftover[n]

\* A connection with USE_CONNECTIONTEST is always under test: in CON_CON a
\* test is awaited or due, and its timer runs (X_con_data, X_ctest_timer).
TestedWhileConnected ==
  \A n \in Testing :
    (proto # "tp16" /\ constate[n] = "CON_CON" /\ app[n] # "starting" /\ ~halfway[n]) =>
      cteststate[n] \in {"CT_WAIT_AK", "CT_WAIT_TCT"} /\ ctTimer[n]

\* The states and the timers of constate and cteststate fit together.
TimersFit == TypeOK /\ NoOldTimer /\ TestedWhileConnected

\* A connection runs with the parameters that its partner asked for, through the
\* socket options, CS and CA; those of MCNet are its own, and the block size common.
ParametersArrive ==
  IF proto = "mcnet" THEN BlockSizesAgree /\ NeverShort ELSE OptionsArrive

\* connect() does not take longer than its retries, whatever the partner and the
\* bus do, as X_disconnect() is to "wakeup connect() or accept()"; and accept()
\* returns once the engine, after X_start_engine() is through, has answered a CS.
\* Excused: a process that looked at the state between the two halves of
\* X_disconnect().
CallsReturn ==
  /\ []<>(app["client"] # "connecting" \/ raced["client"])
  /\ []<>(app["server"] # "accepting" \/ ~answered)

PeerConnected(n) == constate[Peer(n)] = "CON_CON" /\ online[Peer(n)]

\* A node that tests its connection finds out that the partner is gone or
\* has left the connection, even when no goodbye arrived.
DeadPeerDetected ==
  \A n \in Testing :
    []<>(proto = "tp16" \/ constate[n] # "CON_CON" \/ PeerConnected(n))
===============================================================================
