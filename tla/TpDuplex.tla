------------------------------ MODULE TpDuplex ------------------------------
(***************************************************************************)
(* Two connected nodes that both send, as the TP1.6 protocol (tp16.c) uses *)
(* the engine of tp_gen.c: HALF_DUPLEX blocks a node that has sent a       *)
(* message until it has received one, AUTO_DISCONNECT ends a connection    *)
(* that is idle for tdc.  Messages fit one DT frame; TpGen models the      *)
(* segmentation.                                                           *)
(***************************************************************************)
EXTENDS Naturals, Sequences

CONSTANTS
  SNMod,           \* sequence numbers are kept modulo SNMod (16 in the code)
  mnt,             \* parm.mnt: repetitions of an unacknowledged DT frame
  mnbe,            \* parm.mnbe: block errors tolerated in a row
  Confs,           \* configurations of a channel: sets of flags (tp_conf.h)
  Nodes,           \* the two nodes
  Initiators,      \* nodes that send unasked; the others answer messages
  MaxMsgs,         \* bound: messages submitted by one node
  ChanCap          \* bound: frames in flight to one node; more are lost

ASSUME ParmAssumption ==
  /\ SNMod \in Nat \ {0, 1} /\ mnt \in Nat /\ mnbe \in Nat
  /\ Confs \subseteq SUBSET {"HALF_DUPLEX", "AUTO_DISCONNECT"}
  /\ \E a, b \in Nodes : a # b /\ Nodes = {a, b}
  /\ Initiators \subseteq Nodes
  /\ MaxMsgs \in Nat /\ ChanCap \in Nat

VARIABLES
  conf,                  \* parm.conf of both nodes, set before connect()
  submitted, completed,  \* messages sendmsg took; of them, ACKed
  txState, txsn, retrycnt, blkerrcnt, txTimer,
  rxsn,
  delivered,             \* messages handed to the socket of a node
  con,                   \* constate is CON_CON
  conTimer,              \* constate.timer, here the timer of AUTO_DISCONNECT
  addedTwice,            \* history: add_timer() found conTimer pending
  net                    \* frames on the bus, by the node they are for

txVars == <<txState, txsn, retrycnt, blkerrcnt, txTimer>>
vars == <<conf, submitted, completed, txVars, rxsn, delivered, con, conTimer, addedTwice, net>>

Peer(n) == CHOOSE m \in Nodes : m # n

HALF_DUPLEX     == "HALF_DUPLEX" \in conf
AUTO_DISCONNECT == "AUTO_DISCONNECT" \in conf

----------------------------------------------------------------------------
(* Frames.                                                                 *)

DT(sn, msg) == [type |-> "DT", sn |-> sn, msg |-> msg]
AK(sn)      == [type |-> "AK", sn |-> sn]
DC          == [type |-> "DC"]

\* tp_xmit_frame(): f comes behind what is on its way, or is lost.
Sent(ch, f) == {ch} \cup (IF Len(ch) < ChanCap THEN {Append(ch, f)} ELSE {})

Xmit(n, f, rest) ==
  \E ch \in Sent(rest[Peer(n)], f) : net' = [rest EXCEPT ![Peer(n)] = ch]

XmitBoth(n, f, g, rest) ==
  \E ch \in Sent(rest[Peer(n)], f) : Xmit(n, g, [rest EXCEPT ![Peer(n)] = ch])

Received(n) == [net EXCEPT ![n] = Tail(@)]
Arrives(n, t) == net[n] # <<>> /\ Head(net[n]).type = t

\* tx_queue is not empty when done messages have left it.
Queued(n, done) == done < submitted[n]

Init ==
  /\ conf \in Confs
  /\ submitted = [n \in Nodes |-> 0] /\ completed = [n \in Nodes |-> 0]
  /\ txState = [n \in Nodes |-> "TX_IDLE"] /\ txsn = [n \in Nodes |-> 0]
  /\ retrycnt = [n \in Nodes |-> 0] /\ blkerrcnt = [n \in Nodes |-> 0]
  /\ txTimer = [n \in Nodes |-> FALSE] /\ rxsn = [n \in Nodes |-> 0]
  /\ delivered = [n \in Nodes |-> <<>>] /\ con = [n \in Nodes |-> TRUE]
  /\ conTimer = [n \in Nodes |-> FALSE] /\ addedTwice = FALSE
  /\ net = [n \in Nodes |-> <<>>]

----------------------------------------------------------------------------
(* Sending.                                                                *)

\* Mutant: only received data stops the timer of AUTO_DISCONNECT.
TrafficMissed(n) == UNCHANGED conTimer

\* Data traffic stops the timer of AUTO_DISCONNECT.
Traffic(n) ==
  conTimer' = [conTimer EXCEPT ![n] = @ /\ ~(AUTO_DISCONNECT /\ con[n])]

\* tp_tx_sendtpdata() with sequence number sn, the frame and conTimer apart.
SendTpData(n, sn) ==
  /\ txsn' = [txsn EXCEPT ![n] = (sn + 1) % SNMod]
  /\ txState' = [txState EXCEPT ![n] = "TX_WAIT_AK"]
  /\ txTimer' = [txTimer EXCEPT ![n] = TRUE]

\* tp_tx_wakeup() of an idle engine with message msg at the head of tx_queue.
TxWakeup(n) ==
  /\ SendTpData(n, txsn[n])
  /\ retrycnt' = [retrycnt EXCEPT ![n] = 0]
  /\ blkerrcnt' = [blkerrcnt EXCEPT ![n] = 0]

\* sendmsg: queue a message and wake the engine up.
SendMsg(n) ==
  /\ con[n] /\ submitted[n] < MaxMsgs
  /\ n \in Initiators \/ submitted[n] < Len(delivered[n])
  /\ submitted' = [submitted EXCEPT ![n] = @ + 1]
  /\ IF txState[n] = "TX_IDLE"
     THEN TxWakeup(n) /\ Traffic(n) /\ Xmit(n, DT(txsn[n], completed[n] + 1), net)
     ELSE UNCHANGED <<txVars, conTimer, net>>
  /\ UNCHANGED <<completed, rxsn, delivered, con, addedTwice>>

\* Mutant: a message that is complete does not block its sender.
BlocksNever == FALSE

\* The sender of a complete message waits for one from the other side.
Blocks == HALF_DUPLEX

\* tp_tx_data(), correct SN: the message leaves tx_queue.  The next one may
\* start; then the timer of AUTO_DISCONNECT is added.
AckComplete(n) ==
  LET done  == completed[n] + 1
      timed == AUTO_DISCONNECT /\ con[n]
      next  == ~Blocks /\ Queued(n, done)
  IN
  /\ Arrives(n, "AK") /\ txState[n] = "TX_WAIT_AK"
  /\ Head(net[n]).sn = txsn[n]
  /\ completed' = [completed EXCEPT ![n] = done]
  /\ IF next
     THEN TxWakeup(n) /\ Xmit(n, DT(txsn[n], done + 1), Received(n))
     ELSE /\ txState' = [txState EXCEPT ![n] = IF Blocks THEN "TX_BLOCKED" ELSE "TX_IDLE"]
          /\ txTimer' = [txTimer EXCEPT ![n] = FALSE]
          /\ retrycnt' = [retrycnt EXCEPT ![n] = 0]
          /\ blkerrcnt' = [blkerrcnt EXCEPT ![n] = 0]
          /\ net' = Received(n)
          /\ UNCHANGED txsn
  /\ conTimer' = [conTimer EXCEPT ![n] = @ \/ timed]
  /\ addedTwice' = (addedTwice \/ (timed /\ ~next /\ conTimer[n]))
  /\ UNCHANGED <<submitted, rxsn, delivered, con>>

\* tp_tx_data(): not waiting for an ACK.
AckIgnored(n) ==
  /\ Arrives(n, "AK") /\ txState[n] # "TX_WAIT_AK"
  /\ net' = Received(n)
  /\ UNCHANGED <<submitted, completed, txVars, rxsn, delivered, con, conTimer, addedTwice>>

\* Mutant: the state stays CON_CON.
DisconnectForgotten(n) == UNCHANGED con

\* tp16_disconnect()
Disconnect(n) == con' = [con EXCEPT ![n] = FALSE]
Farewell(n, rest) == IF con[n] THEN Xmit(n, DC, rest) ELSE net' = rest

\* tp_tx_data(), wrong SN: tp_tx_adjust_sn() and repeat, or give up.
AckWrongSN(n) ==
  LET sn == Head(net[n]).sn IN
  /\ Arrives(n, "AK") /\ txState[n] = "TX_WAIT_AK"
  /\ sn # txsn[n]
  /\ retrycnt' = [retrycnt EXCEPT ![n] = 0]
  /\ IF blkerrcnt[n] < mnbe
     THEN /\ blkerrcnt' = [blkerrcnt EXCEPT ![n] = @ + 1]
          /\ SendTpData(n, sn) /\ Traffic(n)
          /\ Xmit(n, DT(sn, completed[n] + 1), Received(n))
          /\ UNCHANGED con
     ELSE /\ Disconnect(n)
          /\ txTimer' = [txTimer EXCEPT ![n] = FALSE]
          /\ Farewell(n, Received(n))
          /\ UNCHANGED <<blkerrcnt, txsn, txState, conTimer>>
  /\ UNCHANGED <<submitted, completed, rxsn, delivered, addedTwice>>

\* Mutant: one repetition more.
RetriesLeftLate(n) == retrycnt[n] <= mnt

RetriesLeft(n) == retrycnt[n] < mnt

\* tp_tx_timer(): repeat the message.
TimerResend(n) ==
  LET sn == IF txsn[n] = 0 THEN SNMod - 1 ELSE txsn[n] - 1 IN
  /\ txTimer[n] /\ txState[n] = "TX_WAIT_AK" /\ RetriesLeft(n)
  /\ retrycnt' = [retrycnt EXCEPT ![n] = @ + 1]
  /\ SendTpData(n, sn) /\ Traffic(n)
  /\ Xmit(n, DT(sn, completed[n] + 1), net)
  /\ UNCHANGED <<submitted, completed, blkerrcnt, rxsn, delivered, con, addedTwice>>

\* tp_tx_timer(): too many repetitions.
TimerGiveUp(n) ==
  /\ txTimer[n] /\ txState[n] = "TX_WAIT_AK" /\ ~RetriesLeft(n)
  /\ retrycnt' = [retrycnt EXCEPT ![n] = 0]
  /\ txTimer' = [txTimer EXCEPT ![n] = FALSE]
  /\ Disconnect(n)
  /\ Farewell(n, net)
  /\ UNCHANGED <<submitted, completed, txState, txsn, blkerrcnt, rxsn,
                 delivered, conTimer, addedTwice>>

----------------------------------------------------------------------------
(* Receiving.                                                              *)

\* Mutant: the sequence number is not looked at.
AcceptsAny(n, f) == TRUE

\* The segment is the expected one.
Accepts(n, f) == f.sn = rxsn[n]

\* A complete message unblocks the own transmit path.
Unblocks(n, f) == txState[n] = "TX_BLOCKED" /\ Accepts(n, f)

\* The ACK carries the number expected next.
AckSN(n, f) == IF Accepts(n, f) THEN (rxsn[n] + 1) % SNMod ELSE rxsn[n]

\* tp_rx_data(): store and hand over what is expected, acknowledge, and
\* unblock the own transmit path.
RxData(n) ==
  LET f    == Head(net[n])
      wake == Unblocks(n, f) /\ Queued(n, completed[n])
  IN
  /\ Arrives(n, "DT")
  /\ Traffic(n)
  /\ IF Accepts(n, f)
     THEN /\ rxsn' = [rxsn EXCEPT ![n] = (@ + 1) % SNMod]
          /\ delivered' = [delivered EXCEPT ![n] = Append(@, f.msg)]
     ELSE UNCHANGED <<rxsn, delivered>>
  /\ \/ /\ wake
        /\ TxWakeup(n)
        /\ XmitBoth(n, AK(AckSN(n, f)), DT(txsn[n], completed[n] + 1), Received(n))
     \/ /\ ~wake
        /\ txState' = [txState EXCEPT ![n] = IF Unblocks(n, f) THEN "TX_IDLE" ELSE @]
        /\ Xmit(n, AK(AckSN(n, f)), Received(n))
        /\ UNCHANGED <<txsn, retrycnt, blkerrcnt, txTimer>>
  /\ UNCHANGED <<submitted, completed, con, addedTwice>>

\* tp16_con_data(), TPDC.
RxDC(n) ==
  /\ Arrives(n, "DC")
  /\ Disconnect(n)
  /\ Farewell(n, Received(n))
  /\ UNCHANGED <<submitted, completed, txVars, rxsn, delivered, conTimer, addedTwice>>

\* tp16_con_timer(): the connection was idle for tdc.
ConTimer(n) ==
  /\ conTimer[n]
  /\ conTimer' = [conTimer EXCEPT ![n] = FALSE]
  /\ Disconnect(n)
  /\ Farewell(n, net)
  /\ UNCHANGED <<submitted, completed, txVars, rxsn, delivered, addedTwice>>

RxHandler(n) ==
  AckComplete(n) \/ AckIgnored(n) \/ AckWrongSN(n) \/ RxData(n) \/ RxDC(n)

TxTimer(n) == TimerResend(n) \/ TimerGiveUp(n)

Next ==
  /\ \E n \in Nodes : SendMsg(n) \/ RxHandler(n) \/ TxTimer(n) \/ ConTimer(n)
  /\ UNCHANGED conf

Spec == Init /\ [][Next]_vars

\* Frames arrive or are lost and pending timers expire.
Fairness == \A n \in Nodes :
  /\ WF_vars(RxHandler(n) /\ UNCHANGED conf)
  /\ WF_vars(TxTimer(n) /\ UNCHANGED conf)
  /\ WF_vars(ConTimer(n) /\ UNCHANGED conf)

FairSpec == Spec /\ Fairness

----------------------------------------------------------------------------
(* Properties.                                                             *)

Numbers == 0 .. (SNMod - 1)

\* Every variable has its type; the error counters stay within mnt and mnbe.
TypeOK ==
  /\ conf \in Confs
  /\ submitted \in [Nodes -> Nat] /\ completed \in [Nodes -> Nat]
  /\ txState \in [Nodes -> {"TX_IDLE", "TX_WAIT_AK", "TX_BLOCKED"}]
  /\ txsn \in [Nodes -> Numbers] /\ rxsn \in [Nodes -> Numbers]
  /\ retrycnt \in [Nodes -> 0 .. mnt] /\ blkerrcnt \in [Nodes -> 0 .. mnbe]
  /\ txTimer \in [Nodes -> BOOLEAN] /\ conTimer \in [Nodes -> BOOLEAN]
  /\ delivered \in [Nodes -> Seq(Nat)] /\ con \in [Nodes -> BOOLEAN]
  /\ addedTwice \in BOOLEAN
  /\ net \in [Nodes -> Seq([type : {"DT"}, sn : Numbers, msg : Nat]
                           \cup [type : {"AK"}, sn : Numbers] \cup {DC})]

\* Typed, and with both directions at once each socket gets the other side's messages in
\* order and once, and what is ACKed has been handed over (tp_tx_data and
\* tp_rx_data share nothing but the half duplex block and the timer).
InOrderDelivery ==
  TypeOK /\ \A n \in Nodes :
    /\ \A i \in 1 .. Len(delivered[n]) : delivered[n][i] = i
    /\ completed[n] <= Len(delivered[Peer(n)])

\* HALF_DUPLEX: a node is never more than one message ahead of what it has
\* received ("is unblocked when next rx message is processed completely").
Alternation ==
  HALF_DUPLEX => \A n \in Nodes : completed[n] <= Len(delivered[n]) + 1

\* The timer of AUTO_DISCONNECT "is stopped on data traffic in
\* tp_tx_sendtpdata() and tp_rx_data()": it never runs while a message of
\* the node is under way.
TimerStoppedOnTraffic ==
  \A n \in Nodes : (con[n] /\ txState[n] = "TX_WAIT_AK") => ~conTimer[n]

\* HALF_DUPLEX keeps tp_tx_data() from sending the next message before it
\* starts that timer; then the comment holds, and add_timer() never meets a
\* pending constate.timer, so an idle time is measured from the last ACK on.
IdleTimerHalfDuplex == HALF_DUPLEX => (TimerStoppedOnTraffic /\ ~addedTwice)

\* Every message is completed, or its sender sees the connection end, or it
\* is blocked by HALF_DUPLEX until the other side sends (tp_tx_timer,
\* tp_tx_adjust_sn, tp16_con_timer).
Settled ==
  \A n \in Nodes :
    (completed[n] < submitted[n])
      ~> (completed[n] = submitted[n] \/ ~con[n] \/ txState[n] = "TX_BLOCKED")
=============================================================================
