------------------------------- MODULE TpGen -------------------------------
(***************************************************************************)
(* The generic transport protocol engine (tp_gen.c): the transmit state    *)
(* machine of one CAN node (struct tp_tx_statem), the receive state        *)
(* machine of its peer (struct tp_rx_statem) and the CAN bus between them. *)
(*                                                                         *)
(* A message is cut into segments of seven bytes.  A segment is known by   *)
(* its position in the stream of all segments the application ever         *)
(* submitted, so the data of a DT frame is a number.  A block of at most   *)
(* bs segments ends with an acknowledge request (AR); the sender waits for *)
(* the ACK, which carries the sequence number the receiver expects next,   *)
(* and goes back to that number when segments were lost.                   *)
(***************************************************************************)
EXTENDS Integers, Sequences

CONSTANTS
  SNMod,        \* sequence numbers are kept modulo SNMod (16 in the code)
  bs,           \* parm.bs: segments between two acknowledge requests
  mnt,          \* parm.mnt: repetitions of an unacknowledged DT frame
  mnbe,         \* parm.mnbe: block errors tolerated in a row
  AckTimeout,   \* TRUE when parm.ta # 0
  MayBeBusy,    \* TRUE for a peer that enters RX_BUSY (LLCF itself never does)
  RxSize,       \* segments that fit the receive buffer kmalloc'd at the start
  Sizes,        \* sizes of messages, in segments
  MaxMsgs,      \* bound: messages submitted in a behaviour
  ChanCap       \* bound: frames in flight in one direction; more are lost

ASSUME ParmAssumption ==
  /\ SNMod \in Nat /\ bs \in 1 .. (SNMod - 1)
  /\ mnt \in Nat /\ mnbe \in Nat
  /\ AckTimeout \in BOOLEAN /\ MayBeBusy \in BOOLEAN
  /\ RxSize \in Nat \ {0}
  /\ Sizes \subseteq Nat \ {0}
  /\ MaxMsgs \in Nat /\ ChanCap \in Nat

VARIABLES
  txState, txsn, arsn, retrycnt, blkerrcnt, tx_buf_ptr, txTimer,
  accepted,     \* all messages sendmsg took, oldest first
  done,         \* how many of them are complete and left tx_queue
  con,          \* constate is CON_CON at the sender
  rxState, rxsn, rx_buf, rx_buf_size,
  delivered,    \* messages handed to the receiving socket
  dt, ak,       \* frames on the bus: DT to the receiver, ACK to the sender
  base, got     \* history: start of the current block; segments stored

txVars == <<txState, txsn, arsn, retrycnt, blkerrcnt, tx_buf_ptr, txTimer, base>>
rxVars == <<rxState, rxsn, rx_buf, rx_buf_size, delivered, got>>
vars == <<txVars, accepted, done, con, rxVars, dt, ak>>

----------------------------------------------------------------------------
(* Messages and frames.                                                    *)

\* What realloc'd memory holds where nothing has been written yet.
Junk == -1

Segments(m) == [k \in 1 .. m.size |-> m.from + k - 1]

\* Where the next submitted message starts in the stream.
Total == IF accepted = <<>> THEN 0
         ELSE LET m == accepted[Len(accepted)] IN m.from + m.size

\* txstate.tx_queue: submitted and not yet complete.
tx_queue == SubSeq(accepted, done + 1, Len(accepted))

\* A frame handed to the bus is lost (no skb, no device, full queue, no
\* receiver) or arrives behind the earlier ones.
Xmit(ch, f) == {ch} \cup (IF Len(ch) < ChanCap THEN {Append(ch, f)} ELSE {})

\* Mutant: blocks of one segment more than bs.
ArSNLate(sn) == (sn + bs) % SNMod

\* The sequence number that closes the block starting at sn.
ArSN(sn) == (sn + bs - 1) % SNMod

----------------------------------------------------------------------------
(* The transmit state machine.                                             *)

\* tp_tx_sendtpdata(): send the segment at ptr of m, then wait for the ACK
\* or for the transmit delay.
SendTpData(m, ptr, sn, ar_sn) ==
  LET eom == ptr + 1 >= m.size
      ar  == eom \/ sn = ar_sn
  IN /\ dt' \in Xmit(dt, [sn |-> sn, ar |-> ar, eom |-> eom, data |-> m.from + ptr])
     /\ txsn' = (sn + 1) % SNMod
     /\ arsn' = ar_sn
     /\ tx_buf_ptr' = ptr
     /\ txState' = IF ar THEN "TX_WAIT_AK" ELSE "TX_SENDING"
     /\ txTimer' = (ar => AckTimeout)

\* tp_tx_wakeup() in TX_IDLE with m at the head of tx_queue.
TxWakeup(m, sn) ==
  /\ SendTpData(m, 0, sn, ArSN(sn))
  /\ retrycnt' = 0
  /\ blkerrcnt' = 0
  /\ base' = m.from

\* tp_disconnect of the protocol: the channel is down for the application.
Disconnect == con' = FALSE

Init ==
  /\ txState = "TX_IDLE" /\ txsn = 0 /\ arsn = (bs - 1) % SNMod
  /\ retrycnt = 0 /\ blkerrcnt = 0 /\ tx_buf_ptr = 0 /\ txTimer = FALSE
  /\ accepted = <<>> /\ done = 0 /\ con = TRUE
  /\ rxState = "RX_RECEIVE" /\ rxsn = 0 /\ rx_buf = <<>>
  /\ rx_buf_size = RxSize /\ delivered = <<>>
  /\ dt = <<>> /\ ak = <<>> /\ base = 0 /\ got = 0

\* sendmsg of the protocols: append to tx_queue, wake the engine up.
SendMsg(size) ==
  /\ con
  /\ Len(accepted) < MaxMsgs
  /\ accepted' = Append(accepted, [from |-> Total, size |-> size])
  /\ IF txState = "TX_IDLE"
     THEN TxWakeup(accepted'[done + 1], txsn)
     ELSE UNCHANGED <<txVars, dt>>
  /\ UNCHANGED <<done, con, rxVars, ak>>

\* Mutant: the segment whose ACK is missing is counted as well.
LostSegmentsAll(sn) ==
  IF txsn < sn THEN SNMod + txsn - sn ELSE txsn - sn

\* tp_tx_adjust_sn(): segments to step back when the receiver expects sn.
LostSegments(sn) ==
  LET lost == IF txsn < sn THEN SNMod + txsn - sn ELSE txsn - sn
  IN (IF lost < 1 THEN 1 ELSE lost) - 1

AdjustedPtr(sn) ==
  IF tx_buf_ptr >= LostSegments(sn) THEN tx_buf_ptr - LostSegments(sn) ELSE 0

\* Position in the stream of segment ptr of the current message.
BlockAt(ptr) == accepted[done + 1].from + ptr

\* Mutant: block errors are not counted.
GoBackUncounted(sn) ==
  /\ blkerrcnt < mnbe
  /\ UNCHANGED blkerrcnt
  /\ base' = BlockAt(AdjustedPtr(sn))

\* tp_tx_adjust_sn() with errors left: a new block starts at sn.
GoBack(sn) ==
  /\ blkerrcnt < mnbe
  /\ blkerrcnt' = blkerrcnt + 1
  /\ base' = BlockAt(AdjustedPtr(sn))

\* tp_tx_adjust_sn() without: the channel is given up.
TooManyBlockErrors ==
  /\ blkerrcnt >= mnbe
  /\ Disconnect
  /\ UNCHANGED <<blkerrcnt, base, txsn, arsn, tx_buf_ptr>>

\* tp_tx_data(): an ACK arrives while none is awaited.
AckIgnored ==
  /\ ak # <<>> /\ txState # "TX_WAIT_AK"
  /\ ak' = Tail(ak)
  /\ UNCHANGED <<txVars, accepted, done, con, rxVars, dt>>

\* An awaited ACK arrives: the timer is stopped, the retries are forgotten.
AckArrives(ready) ==
  /\ ak # <<>> /\ txState = "TX_WAIT_AK"
  /\ Head(ak).rs = ready
  /\ ak' = Tail(ak)
  /\ retrycnt' = 0

\* Mutant: an old ACK passes for the awaited one.
AckMatchesAny == Head(ak).sn \in 0 .. (SNMod - 1)

\* The ACK answers the last frame sent.
AckMatches == Head(ak).sn = txsn

\* Mutant: tde is not armed.
DelayForgotten == txTimer' = FALSE

\* The timer is armed with tde.
DelayNextDT == txTimer' = TRUE

\* tp_tx_data(), receiver not ready: wait for tde, adjust but do not send.
AckNotReady ==
  LET sn == Head(ak).sn IN
  /\ AckArrives(FALSE)
  /\ DelayNextDT
  /\ \/ /\ AckMatches
        /\ UNCHANGED <<txsn, arsn, tx_buf_ptr, blkerrcnt, base, con>>
     \/ ~AckMatches /\ TooManyBlockErrors
     \/ /\ ~AckMatches /\ GoBack(sn)
        /\ txsn' = sn /\ arsn' = ArSN(sn)
        /\ tx_buf_ptr' = AdjustedPtr(sn)
        /\ UNCHANGED con
  /\ UNCHANGED <<txState, accepted, done, rxVars, dt>>

\* tp_tx_data(), correct SN before the end of the message: the next block.
AckNextBlock ==
  LET m == accepted[done + 1] IN
  /\ AckArrives(TRUE)
  /\ AckMatches
  /\ tx_buf_ptr + 1 < m.size
  /\ blkerrcnt' = 0
  /\ base' = BlockAt(tx_buf_ptr + 1)
  /\ SendTpData(m, tx_buf_ptr + 1, txsn, ArSN(txsn))
  /\ UNCHANGED <<accepted, done, con, rxVars>>

\* tx_queue is not empty once the current message left it.
MoreQueued == done + 1 < Len(accepted)

\* tp_tx_data(), correct SN for the last segment: the message leaves the
\* queue and the next one, if any, starts.
AckComplete ==
  LET m == accepted[done + 1] IN
  /\ AckArrives(TRUE)
  /\ AckMatches
  /\ tx_buf_ptr + 1 >= m.size
  /\ done' = done + 1
  /\ \/ /\ ~MoreQueued
        /\ txState' = "TX_IDLE"
        /\ txTimer' = FALSE
        /\ tx_buf_ptr' = tx_buf_ptr + 1
        /\ arsn' = ArSN(txsn)
        /\ blkerrcnt' = 0
        /\ base' = m.from + m.size
        /\ UNCHANGED <<txsn, dt>>
     \/ /\ MoreQueued
        /\ TxWakeup(accepted[done + 2], txsn)
  /\ UNCHANGED <<accepted, con, rxVars>>

\* tp_tx_data(), wrong SN: go back to the segment the receiver expects.
AckWrongSN ==
  LET sn == Head(ak).sn IN
  /\ AckArrives(TRUE)
  /\ ~AckMatches
  /\ \/ /\ TooManyBlockErrors
        /\ txTimer' = FALSE
        /\ UNCHANGED <<txState, dt>>
     \/ /\ GoBack(sn)
        /\ SendTpData(accepted[done + 1], AdjustedPtr(sn), sn, ArSN(sn))
        /\ UNCHANGED con
  /\ UNCHANGED <<accepted, done, rxVars>>

\* Mutant: one repetition more.
RetriesLeftLate == retrycnt <= mnt

RetriesLeft == retrycnt < mnt

\* tp_tx_timer() in TX_WAIT_AK: repeat the last DT frame.
TimerResend ==
  /\ txTimer /\ txState = "TX_WAIT_AK"
  /\ RetriesLeft
  /\ retrycnt' = retrycnt + 1
  /\ SendTpData(accepted[done + 1], tx_buf_ptr,
                IF txsn = 0 THEN SNMod - 1 ELSE txsn - 1, arsn)
  /\ UNCHANGED <<blkerrcnt, base, accepted, done, con, rxVars, ak>>

\* tp_tx_timer() in TX_WAIT_AK: too many repetitions.
TimerGiveUp ==
  /\ txTimer /\ txState = "TX_WAIT_AK"
  /\ ~RetriesLeft
  /\ retrycnt' = 0
  /\ txTimer' = FALSE
  /\ Disconnect
  /\ UNCHANGED <<txState, txsn, arsn, tx_buf_ptr, blkerrcnt, base,
                 accepted, done, rxVars, dt, ak>>

\* tp_tx_timer() in TX_SENDING: the transmit delay is over.
TimerNextSegment ==
  /\ txTimer /\ txState = "TX_SENDING"
  /\ SendTpData(accepted[done + 1], tx_buf_ptr + 1, txsn, arsn)
  /\ UNCHANGED <<retrycnt, blkerrcnt, base, accepted, done, con, rxVars, ak>>

TxTimer == TimerResend \/ TimerGiveUp \/ TimerNextSegment

TxData == AckIgnored \/ AckNotReady \/ AckNextBlock \/ AckComplete \/ AckWrongSN

----------------------------------------------------------------------------
(* The receive state machine.                                              *)

\* tp_rx_store_data(): append the segment.  A full buffer is replaced by one
\* of twice the size whose old part is not copied, or no memory is left.
RxStoreData(d) ==
  IF Len(rx_buf) < rx_buf_size
  THEN {[buf |-> Append(rx_buf, d), size |-> rx_buf_size, stored |-> 1]}
  ELSE {[buf |-> Append([k \in 1 .. Len(rx_buf) |-> Junk], d),
         size |-> 2 * rx_buf_size, stored |-> 1],
        [buf |-> rx_buf, size |-> rx_buf_size, stored |-> 0]}

\* tp_xmitCI(): the ACK for the segments before sn; upto is history.
SendAck(sn, ready, upto) ==
  ak' \in Xmit(ak, [sn |-> sn, rs |-> ready, upto |-> upto])

\* tp_rx_data() with the expected SN in RX_RECEIVE.
RxExpected ==
  LET f == Head(dt) IN
  /\ dt # <<>> /\ f.sn = rxsn /\ rxState = "RX_RECEIVE"
  /\ dt' = Tail(dt)
  /\ \E st \in RxStoreData(f.data) :
       /\ rx_buf_size' = st.size
       /\ got' = got + st.stored
       /\ rxsn' = (rxsn + st.stored) % SNMod
       /\ IF f.eom THEN rx_buf' = <<>> /\ delivered' = Append(delivered, st.buf)
                   ELSE rx_buf' = st.buf /\ UNCHANGED delivered
  /\ IF f.ar THEN SendAck(rxsn', TRUE, got') ELSE UNCHANGED ak
  /\ UNCHANGED <<txVars, accepted, done, con, rxState>>

\* tp_rx_data() with another SN, or in RX_BUSY: nothing is stored.
RxRefused ==
  LET f == Head(dt) IN
  /\ dt # <<>> /\ (f.sn # rxsn \/ rxState = "RX_BUSY")
  /\ dt' = Tail(dt)
  /\ IF f.ar THEN SendAck(rxsn, rxState = "RX_RECEIVE", got) ELSE UNCHANGED ak
  /\ UNCHANGED <<txVars, accepted, done, con, rxVars>>

RxData == RxExpected \/ RxRefused

\* A peer that is not LLCF turns busy or ready again.
PeerTurns ==
  /\ MayBeBusy
  /\ rxState' = IF rxState = "RX_BUSY" THEN "RX_RECEIVE" ELSE "RX_BUSY"
  /\ UNCHANGED <<txVars, accepted, done, con, rxsn, rx_buf, rx_buf_size,
                 delivered, got, dt, ak>>

----------------------------------------------------------------------------
Next ==
  \/ \E size \in Sizes : SendMsg(size)
  \/ TxData \/ TxTimer \/ RxData
  \/ PeerTurns

Spec == Init /\ [][Next]_vars

\* The bus delivers or loses what it carries and a pending timer expires.
\* Nothing is assumed about how often frames get through.
Fairness == WF_vars(TxData) /\ WF_vars(TxTimer) /\ WF_vars(RxData)

FairSpec == Spec /\ Fairness

----------------------------------------------------------------------------
(* Properties.                                                             *)

\* Every variable has its type: sequence numbers stay below SNMod, the two
\* error counters within mnt and mnbe (tp_tx_timer, tp_tx_adjust_sn).
TypeOK ==
  /\ txState \in {"TX_IDLE", "TX_WAIT_AK", "TX_SENDING"}
  /\ txsn \in 0 .. (SNMod - 1) /\ arsn \in 0 .. (SNMod - 1)
  /\ retrycnt \in 0 .. mnt /\ blkerrcnt \in 0 .. mnbe
  /\ tx_buf_ptr \in Nat /\ txTimer \in BOOLEAN
  /\ accepted \in Seq([from : Nat, size : Sizes])
  /\ done \in 0 .. Len(accepted) /\ con \in BOOLEAN
  /\ rxState \in {"RX_RECEIVE", "RX_BUSY"} /\ rxsn \in 0 .. (SNMod - 1)
  /\ rx_buf \in Seq(Int) /\ rx_buf_size \in Nat \ {0}
  /\ delivered \in Seq(Seq(Int))
  /\ dt \in Seq([sn : 0 .. (SNMod - 1), ar : BOOLEAN, eom : BOOLEAN, data : Nat])
  /\ ak \in Seq([sn : 0 .. (SNMod - 1), rs : BOOLEAN, upto : Nat])
  /\ base \in Nat /\ got \in Nat

\* Whatever is lost or repeated, the receiving socket gets exactly the
\* submitted messages, whole and in order (tp_rx_data against tp_tx_data).
InOrderDelivery ==
  /\ Len(delivered) <= Len(accepted)
  /\ \A i \in 1 .. Len(delivered) : delivered[i] = Segments(accepted[i])

\* A message leaves tx_queue only after the peer's socket has it: the sender
\* never mistakes an old ACK for the one it waits for (tp_tx_data).
CompleteMeansDelivered == done <= Len(delivered)

\* tp_tx_adjust_sn() never steps tx_buf_ptr back beyond the start of the
\* message: an ACK, however late, asks for a segment of the message that is
\* being sent, so that the branch for an underrun is dead.
NoBadAdjust ==
  (txState = "TX_WAIT_AK" /\ ak # <<>> /\ Head(ak).sn # txsn)
     => LostSegments(Head(ak).sn) <= tx_buf_ptr

\* While the channel is up, unfinished messages are being worked on: the
\* engine is not idle and a timer is running, so no loss can stall it.
NeverStalls ==
  (con /\ done < Len(accepted)) => (txState # "TX_IDLE" /\ txTimer)

\* Every submitted message is completed or the application learns that the
\* channel broke, whatever the bus does (retry and block error counters).
EventuallySettled == (done < Len(accepted)) ~> (done = Len(accepted) \/ ~con)

\* tp_tx_timer() steps txsn back because it "had been increased by
\* tp_tx_sendtpdata()": whenever the ACK timer runs, txsn is one ahead of the
\* segment that will be repeated.
SnAlreadyIncreased ==
  (txState = "TX_WAIT_AK" /\ txTimer) => txsn = (BlockAt(tx_buf_ptr) + 1) % SNMod
=============================================================================
