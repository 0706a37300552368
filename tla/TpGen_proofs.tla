---------------------------- MODULE TpGen_proofs ----------------------------
(***************************************************************************)
(* The engine of tp_gen.c, for every value of the constants.  Types are    *)
(* right and no message is stuck; and between two LLCF nodes, as long as   *)
(* messages fit the receive buffer, every message is delivered whole, once *)
(* and in order, and none counted as complete before the peer's socket has *)
(* it, for every loss of frames and every timing of the timers.            *)
(***************************************************************************)
EXTENDS TpGenRefinement, TLAPS

----------------------------------------------------------------------------
(* Numbers kept modulo M, as the sequence numbers of tp_gen.c.             *)

\* Division with remainder.
LEMMA DivMod ==
  ASSUME NEW M \in Nat \ {0}, NEW a \in Int
  PROVE  /\ a % M \in 0 .. (M - 1)
         /\ a \div M \in Int
         /\ a = M * (a \div M) + (a % M)
BY SMT

\* A remainder below M is unique.
LEMMA RemainderUnique ==
  ASSUME NEW M \in Nat \ {0}, NEW q \in Int, NEW p \in Int,
         NEW r \in 0 .. (M - 1), NEW s \in 0 .. (M - 1),
         M * q + r = M * p + s
  PROVE  q = p /\ r = s
<1> DEFINE k == q - p
<1>1. k \in Int /\ M * k = s - r /\ s - r < M /\ s - r > -M
  BY SMT
<1>2. q = p + k
  OBVIOUS
<1> HIDE DEF k
<1>3. k < 1
  <2> SUFFICES ASSUME k >= 1 PROVE FALSE
    BY <1>1
  <2>1. M * k >= M
    BY <1>1
  <2> QED BY <2>1, <1>1
<1>4. k > -1
  <2> SUFFICES ASSUME k <= -1 PROVE FALSE
    BY <1>1
  <2>1. M * k <= -M
    BY <1>1
  <2> QED BY <2>1, <1>1
<1>5. k = 0
  BY <1>1, <1>3, <1>4
<1> QED BY <1>1, <1>2, <1>5

\* Adding to a remainder is adding to the number.
LEMMA ModAdd ==
  ASSUME NEW M \in Nat \ {0}, NEW a \in Int, NEW c \in Int
  PROVE  ((a % M) + c) % M = (a + c) % M
<1> DEFINE q == a \div M  x == (a % M) + c  y == a + c
<1> DEFINE p == x \div M  s == x % M  p2 == y \div M  s2 == y % M
<1>1. q \in Int /\ x \in Int /\ y \in Int /\ y = M * q + x
  BY DivMod
<1> HIDE DEF q, x, y
<1>2. p \in Int /\ s \in 0 .. (M - 1) /\ x = M * p + s
  BY <1>1, DivMod
<1>3. p2 \in Int /\ s2 \in 0 .. (M - 1) /\ y = M * p2 + s2
  BY <1>1, DivMod
<1> HIDE DEF p, s, p2, s2
<1> DEFINE n == q + p
<1>4. n \in Int /\ M * n + s = M * p2 + s2
  BY <1>1, <1>2, <1>3
<1> HIDE DEF n
<1>5. s = s2
  BY <1>2, <1>3, <1>4, RemainderUnique
<1> QED BY <1>5 DEF s, s2, x, y

\* Numbers less than M apart have different remainders.
LEMMA ModUnique ==
  ASSUME NEW M \in Nat \ {0}, NEW a \in Int, NEW b \in Int,
         a % M = b % M, b - a < M, a - b < M
  PROVE  a = b
<1> DEFINE q == a \div M  p == b \div M  r == a % M  k == p - q
<1>1. q \in Int /\ r \in 0 .. (M - 1) /\ a = M * q + r
  BY DivMod
<1>2. p \in Int /\ b = M * p + r
  BY DivMod
<1> HIDE DEF q, p, r
<1>3. k \in Int /\ b - a = M * k
  BY <1>1, <1>2
<1> HIDE DEF k
<1>4. k < 1
  <2> SUFFICES ASSUME k >= 1 PROVE FALSE
    BY <1>3
  <2>1. M * k >= M
    BY <1>3
  <2> QED BY <2>1, <1>3
<1>5. k > -1
  <2> SUFFICES ASSUME k <= -1 PROVE FALSE
    BY <1>3
  <2>1. M * k <= -M
    BY <1>3
  <2> QED BY <2>1, <1>3
<1>6. k = 0
  BY <1>3, <1>4, <1>5
<1> QED BY <1>3, <1>6

\* A number below M is its own remainder.
LEMMA SmallMod ==
  ASSUME NEW M \in Nat \ {0}, NEW s \in 0 .. (M - 1)
  PROVE  s % M = s
<1>1. s = M * (s \div M) + (s % M) /\ s % M \in 0 .. (M - 1) /\ s \div M \in Int
  BY DivMod
<1>2. M * 0 + s = M * (s \div M) + (s % M)
  BY <1>1
<1> QED BY <1>1, <1>2, RemainderUnique

\* M itself leaves no remainder, and adding it changes none.
LEMMA FullMod ==
  ASSUME NEW M \in Nat \ {0}
  PROVE  M % M = 0 /\ \A s \in 0 .. (M - 1) : (s + M) % M = s
<1>1. ASSUME NEW s \in 0 .. (M - 1) PROVE (s + M) % M = s
  <2> DEFINE x == s + M
  <2>1. x \in Int /\ x = M * 1 + s
    OBVIOUS
  <2> HIDE DEF x
  <2>2. x = M * (x \div M) + (x % M) /\ x % M \in 0 .. (M - 1) /\ x \div M \in Int
    BY <2>1, DivMod
  <2>3. M * 1 + s = M * (x \div M) + (x % M)
    BY <2>1, <2>2
  <2> QED BY <2>2, <2>3, RemainderUnique DEF x
<1>2. 0 \in 0 .. (M - 1) /\ 0 + M = M
  OBVIOUS
<1> QED BY <1>1, <1>2

\* The distance of numbers less than M apart, from their remainders.
LEMMA ModDistance ==
  ASSUME NEW M \in Nat \ {0}, NEW a \in Int, NEW b \in Int,
         0 <= b - a, b - a < M
  PROVE  b - a = IF b % M < a % M THEN M + (b % M) - (a % M)
                                  ELSE (b % M) - (a % M)
<1> DEFINE d == b - a  r == a % M  s == b % M
           e == IF s < r THEN M + s - r ELSE s - r
<1>1. r \in 0 .. (M - 1) /\ s \in 0 .. (M - 1)
  BY DivMod
<1>2. e \in 0 .. (M - 1)
  BY <1>1
<1>3. (a + e) % M = b % M
  <2>1. (a + e) % M = (r + e) % M
    <3> HIDE DEF e
    <3>1. e \in Int
      BY <1>2
    <3> QED BY <3>1, ModAdd, Zenon
  <2>2. r + e = s \/ r + e = s + M
    BY <1>1
  <2>3. s % M = s /\ (s + M) % M = s
    BY <1>1, SmallMod, FullMod
  <2> QED BY <2>1, <2>2, <2>3
<1>4. a + e = b
  <2> HIDE DEF e
  <2>1. a + e \in Int /\ b - (a + e) < M /\ (a + e) - b < M
    BY <1>2
  <2> QED BY <1>3, <2>1, ModUnique
<1> QED BY <1>2, <1>4

----------------------------------------------------------------------------
(* Sequences and channels.                                                 *)

SN == 0 .. (SNMod - 1)
Message == [from : Nat, size : Sizes]
DtFrame == [sn : SN, ar : BOOLEAN, eom : BOOLEAN, data : Nat]
AkFrame == [sn : SN, rs : BOOLEAN, upto : Nat]

\* What Append does to the elements of a sequence.
LEMMA AppendElements ==
  ASSUME NEW S, NEW s \in Seq(S), NEW e \in S
  PROVE  /\ Append(s, e) \in Seq(S)
         /\ Len(Append(s, e)) = Len(s) + 1
         /\ Append(s, e)[Len(s) + 1] = e
         /\ \A k \in 1 .. Len(s) : Append(s, e)[k] = s[k]
         /\ Append(s, e) # <<>>
OBVIOUS

\* What Tail does to the elements of a sequence.
LEMMA TailElements ==
  ASSUME NEW S, NEW s \in Seq(S), s # <<>>
  PROVE  /\ Tail(s) \in Seq(S)
         /\ Len(s) \in Nat \ {0}
         /\ Len(Tail(s)) = Len(s) - 1
         /\ \A k \in 1 .. Len(Tail(s)) : Tail(s)[k] = s[k + 1] /\ k + 1 \in 1 .. Len(s)
         /\ Head(s) = s[1] /\ Head(s) \in S /\ 1 \in 1 .. Len(s)
OBVIOUS

\* Transmission loses the frame or puts it behind the others.
LEMMA XmitElements ==
  ASSUME NEW S, NEW s \in Seq(S), NEW f \in S, NEW t \in Xmit(s, f)
  PROVE  /\ t \in Seq(S)
         /\ Len(t) = Len(s) \/ (Len(t) = Len(s) + 1 /\ t[Len(s) + 1] = f)
         /\ \A k \in 1 .. Len(s) : t[k] = s[k]
<1>1. t = s \/ t = Append(s, f)
  BY DEF Xmit
<1>2. Append(s, f) \in Seq(S) /\ Len(Append(s, f)) = Len(s) + 1
      /\ Append(s, f)[Len(s) + 1] = f
      /\ \A k \in 1 .. Len(s) : Append(s, f)[k] = s[k]
  BY AppendElements
<1> QED BY <1>1, <1>2

----------------------------------------------------------------------------
(* Types.                                                                  *)

\* The engine has a message in work.
Sending == txState # "TX_IDLE"

\* Sequence numbers stay below the modulus.
LEMMA SnRange ==
  /\ SNMod \in Nat \ {0} /\ bs \in Nat \ {0} /\ bs < SNMod
  /\ \A n \in Int : n % SNMod \in SN
<1>1. SNMod \in Nat \ {0} /\ bs \in Nat \ {0} /\ bs < SNMod
  BY ParmAssumption
<1> QED BY <1>1, DivMod DEF SN

\* The types, in the parts the actions change together.  The engine
\* transmits exactly while tx_queue holds a message.
TxTypes ==
  /\ txState \in {"TX_IDLE", "TX_WAIT_AK", "TX_SENDING"}
  /\ txsn \in SN /\ arsn \in SN
  /\ retrycnt \in 0 .. mnt /\ blkerrcnt \in 0 .. mnbe
  /\ tx_buf_ptr \in Nat /\ txTimer \in BOOLEAN /\ base \in Nat

QueueTypes ==
  /\ accepted \in Seq(Message)
  /\ done \in 0 .. Len(accepted) /\ con \in BOOLEAN
  /\ Sending <=> done < Len(accepted)

RxTypes ==
  /\ rxState \in {"RX_RECEIVE", "RX_BUSY"} /\ rxsn \in SN
  /\ rx_buf \in Seq(Int) /\ rx_buf_size \in Nat \ {0}
  /\ delivered \in Seq(Seq(Int)) /\ got \in Nat

BusTypes == dt \in Seq(DtFrame) /\ ak \in Seq(AkFrame)

TypeInv == TxTypes /\ QueueTypes /\ RxTypes /\ BusTypes

LEMMA TypeInvOK == TypeInv => TypeOK
BY DEF TypeInv, TxTypes, QueueTypes, RxTypes, BusTypes, TypeOK, SN, Message,
       DtFrame, AkFrame

\* Facts about the constants and the current state that every step needs.
LEMMA Basics ==
  /\ mnt \in Nat /\ mnbe \in Nat /\ 0 \in SN /\ SN \subseteq Nat
  /\ \A m \in Message : m.from \in Nat /\ m.size \in Nat \ {0} /\ m.size \in Sizes
  /\ \A sn \in SN : ArSN(sn) \in SN
  /\ \A sn \in SN : (sn + 1) % SNMod \in SN
  /\ \A sn \in SN : (IF sn = 0 THEN SNMod - 1 ELSE sn - 1) \in SN
<1>1. SNMod \in Nat \ {0} /\ bs \in Nat
  BY SnRange
<1>2. \A sn \in SN : sn + bs - 1 \in Int /\ sn + 1 \in Int
  BY <1>1 DEF SN
<1>3. \A sn \in SN : (IF sn = 0 THEN SNMod - 1 ELSE sn - 1) \in SN
  BY <1>1 DEF SN
<1>4. mnt \in Nat /\ mnbe \in Nat /\ 0 \in SN /\ SN \subseteq Nat
  BY <1>1, ParmAssumption DEF SN
<1>5. \A m \in Message : m.from \in Nat /\ m.size \in Nat \ {0} /\ m.size \in Sizes
  BY ParmAssumption DEF Message
<1>6. \A sn \in SN : ArSN(sn) \in SN /\ (sn + 1) % SNMod \in SN
  BY <1>2, SnRange DEF ArSN
<1> QED BY <1>3, <1>4, <1>5, <1>6

LEMMA QueueFacts ==
  ASSUME QueueTypes
  PROVE  /\ Len(accepted) \in Nat /\ done \in Nat /\ done <= Len(accepted)
         /\ \A i \in 1 .. Len(accepted) : accepted[i] \in Message
         /\ Sending => /\ done + 1 \in 1 .. Len(accepted)
                       /\ accepted[done + 1] \in Message
         /\ Total \in Nat
<1>1. Len(accepted) \in Nat /\ done \in Nat /\ done <= Len(accepted)
      /\ \A i \in 1 .. Len(accepted) : accepted[i] \in Message
  BY DEF QueueTypes
<1>2. Sending => done + 1 \in 1 .. Len(accepted)
  BY <1>1 DEF QueueTypes
<1>3. Total \in Nat
  <2>1. CASE accepted = <<>>
    BY <2>1 DEF Total
  <2>2. CASE accepted # <<>>
    <3>1. Len(accepted) \in 1 .. Len(accepted)
      BY <2>2 DEF QueueTypes
    <3>2. accepted[Len(accepted)].from \in Nat /\ accepted[Len(accepted)].size \in Nat
      BY <1>1, <3>1, Basics
    <3> QED BY <2>2, <3>2 DEF Total
  <2> QED BY <2>1, <2>2
<1> QED BY <1>1, <1>2, <1>3

LEMMA SendTypes ==
  ASSUME BusTypes, NEW m \in Message, NEW ptr \in Nat, NEW sn \in SN, NEW a \in SN,
         SendTpData(m, ptr, sn, a)
  PROVE  /\ dt' \in Seq(DtFrame) /\ txsn' \in SN /\ arsn' \in SN
         /\ tx_buf_ptr' \in Nat /\ txTimer' \in BOOLEAN
         /\ txState' \in {"TX_WAIT_AK", "TX_SENDING"} /\ Sending'
<1> DEFINE eom == ptr + 1 >= m.size
           ar == eom \/ sn = a
           f == [sn |-> sn, ar |-> ar, eom |-> eom, data |-> m.from + ptr]
<1>1. m.from + ptr \in Nat
  BY Basics
<1>2. f \in DtFrame
  <2>1. eom \in BOOLEAN /\ ar \in BOOLEAN
    OBVIOUS
  <2> HIDE DEF eom, ar
  <2> QED BY <1>1, <2>1 DEF DtFrame
<1>3. dt' \in Seq(DtFrame)
  <2>1. dt' \in Xmit(dt, f)
    BY DEF SendTpData
  <2> HIDE DEF f
  <2> QED BY <1>2, <2>1, XmitElements DEF BusTypes
<1>4. txsn' \in SN /\ arsn' \in SN /\ tx_buf_ptr' \in Nat
  BY Basics DEF SendTpData
<1>5. txTimer' \in BOOLEAN
  BY DEF SendTpData
<1>6. txState' \in {"TX_WAIT_AK", "TX_SENDING"}
  BY DEF SendTpData
<1> QED BY <1>3, <1>4, <1>5, <1>6 DEF Sending

\* An ACK that asks for sn moves the sender to a segment of the message.
LEMMA AdjustedTypes ==
  ASSUME TxTypes, QueueTypes, Sending, NEW sn \in SN
  PROVE  AdjustedPtr(sn) \in Nat /\ BlockAt(AdjustedPtr(sn)) \in Nat
<1>1. LostSegments(sn) \in Int
  BY SnRange DEF LostSegments, TxTypes, SN
<1>2. AdjustedPtr(sn) \in Nat
  BY <1>1 DEF AdjustedPtr, TxTypes
<1>3. accepted[done + 1].from \in Nat
  BY QueueFacts, Basics
<1> QED BY <1>2, <1>3 DEF BlockAt

LEMMA AkHead ==
  ASSUME BusTypes, ak # <<>>
  PROVE  /\ Head(ak) \in AkFrame /\ Head(ak).sn \in SN
         /\ Tail(ak) \in Seq(AkFrame)
<1>1. Head(ak) \in AkFrame /\ Tail(ak) \in Seq(AkFrame)
  BY TailElements DEF BusTypes
<1> QED BY <1>1 DEF AkFrame

LEMMA DtHead ==
  ASSUME BusTypes, dt # <<>>
  PROVE  /\ Head(dt) \in DtFrame /\ Head(dt).sn \in SN /\ Head(dt).data \in Nat
         /\ Tail(dt) \in Seq(DtFrame)
<1>1. Head(dt) \in DtFrame /\ Tail(dt) \in Seq(DtFrame)
  BY TailElements DEF BusTypes
<1> QED BY <1>1 DEF DtFrame

LEMMA TypeInit == Init => TypeInv
<1> SUFFICES ASSUME Init PROVE TypeInv
  OBVIOUS
<1>1. (bs - 1) % SNMod \in SN
  BY SnRange DEF SN
<1>z. 0 \in 0 .. mnt /\ 0 \in 0 .. mnbe /\ 0 \in SN
  BY Basics
<1>2. TxTypes
  BY <1>1, <1>z DEF Init, TxTypes
<1>3. QueueTypes
  BY DEF Init, QueueTypes, Sending
<1>4. RxTypes
  BY Basics, ParmAssumption DEF Init, RxTypes
<1>5. BusTypes
  BY DEF Init, BusTypes
<1> QED BY <1>2, <1>3, <1>4, <1>5 DEF TypeInv

LEMMA TypeStep == TypeInv /\ [Next]_vars => TypeInv'
<1> SUFFICES ASSUME TypeInv, [Next]_vars PROVE TypeInv'
  OBVIOUS
<1>t. TxTypes /\ QueueTypes /\ RxTypes /\ BusTypes
  BY DEF TypeInv
<1>z. 0 \in 0 .. mnt /\ 0 \in 0 .. mnbe
  BY Basics
<1>q. /\ Len(accepted) \in Nat /\ done \in Nat /\ done <= Len(accepted)
      /\ Sending => done + 1 \in 1 .. Len(accepted) /\ accepted[done + 1] \in Message
      /\ Total \in Nat
  BY <1>t, QueueFacts
<1>s. txsn \in SN /\ arsn \in SN /\ tx_buf_ptr \in Nat /\ tx_buf_ptr + 1 \in Nat
      /\ ArSN(txsn) \in SN
  BY <1>t, Basics DEF TxTypes
<1>1. ASSUME NEW size \in Sizes, SendMsg(size)
      PROVE  TypeInv'
  <2> DEFINE m == [from |-> Total, size |-> size]
  <2>1. m \in Message
    BY <1>q DEF Message
  <2>2. /\ accepted' \in Seq(Message) /\ Len(accepted') = Len(accepted) + 1
        /\ done' = done /\ con' = con /\ ak' = ak /\ UNCHANGED rxVars
    <3>1. accepted' = Append(accepted, m) /\ accepted \in Seq(Message)
      BY <1>1, <1>t DEF SendMsg, QueueTypes
    <3>2. accepted' \in Seq(Message) /\ Len(accepted') = Len(accepted) + 1
      <4> HIDE DEF m
      <4> QED BY <2>1, <3>1, AppendElements
    <3> QED BY <1>1, <3>2 DEF SendMsg
  <2>3. done + 1 \in 1 .. Len(accepted') /\ accepted'[done + 1] \in Message
        /\ done' \in 0 .. Len(accepted')
    BY <1>q, <2>2
  <2>4. RxTypes'
    BY <1>t, <2>2 DEF RxTypes, rxVars
  <2>5. CASE txState = "TX_IDLE"
    <3>1. SendTpData(accepted'[done + 1], 0, txsn, ArSN(txsn)) /\ retrycnt' = 0
          /\ blkerrcnt' = 0 /\ base' = accepted'[done + 1].from
      BY <1>1, <2>5 DEF SendMsg, TxWakeup
    <3>2. /\ dt' \in Seq(DtFrame) /\ txsn' \in SN /\ arsn' \in SN
          /\ tx_buf_ptr' \in Nat /\ txTimer' \in BOOLEAN
          /\ txState' \in {"TX_WAIT_AK", "TX_SENDING"} /\ Sending'
      BY <1>t, <1>s, <2>3, <3>1, SendTypes
    <3>3. base' \in Nat
      BY <2>3, <3>1, Basics
    <3>4. TxTypes'
      BY <1>z, <3>1, <3>2, <3>3 DEF TxTypes
    <3>5. QueueTypes'
      BY <1>t, <2>2, <2>3, <3>2 DEF QueueTypes
    <3>6. BusTypes'
      BY <1>t, <2>2, <3>2 DEF BusTypes
    <3> QED BY <2>4, <3>4, <3>5, <3>6 DEF TypeInv
  <2>6. CASE txState # "TX_IDLE"
    <3>1. UNCHANGED <<txVars, dt>>
      BY <1>1, <2>6 DEF SendMsg
    <3>2. TxTypes'
      BY <1>t, <3>1 DEF TxTypes, txVars
    <3>3. QueueTypes'
      BY <1>t, <1>q, <2>2, <2>3, <2>6, <3>1 DEF QueueTypes, Sending, txVars
    <3>4. BusTypes'
      BY <1>t, <2>2, <3>1 DEF BusTypes
    <3> QED BY <2>4, <3>2, <3>3, <3>4 DEF TypeInv
  <2> QED BY <2>5, <2>6
<1>2. CASE AckIgnored
  <2>1. ak' \in Seq(AkFrame) /\ UNCHANGED <<txVars, accepted, done, con, rxVars, dt>>
    BY <1>2, <1>t, AkHead DEF AckIgnored
  <2> QED BY <1>t, <2>1 DEF TypeInv, TxTypes, QueueTypes, RxTypes, BusTypes, Sending,
                            txVars, rxVars
<1>3. CASE AckNotReady
  <2> DEFINE sn == Head(ak).sn
  <2>1. ak # <<>> /\ Sending /\ ak' = Tail(ak) /\ retrycnt' = 0 /\ txTimer' = TRUE
        /\ UNCHANGED <<txState, accepted, done, rxVars, dt>>
    BY <1>3 DEF AckNotReady, AckArrives, DelayNextDT, Sending
  <2>2. sn \in SN /\ AdjustedPtr(sn) \in Nat /\ ArSN(sn) \in SN
        /\ BlockAt(AdjustedPtr(sn)) \in Nat
    BY <1>t, <2>1, AkHead, AdjustedTypes, Basics
  <2>3. TxTypes' /\ con' \in BOOLEAN
    <3>1. CASE UNCHANGED <<txsn, arsn, tx_buf_ptr, blkerrcnt, base, con>>
      BY <1>t, <1>z, <2>1, <3>1 DEF TxTypes, QueueTypes
    <3>2. CASE TooManyBlockErrors
      <4>1. UNCHANGED <<txsn, arsn, tx_buf_ptr, blkerrcnt, base>> /\ con' = FALSE
        BY <3>2 DEF TooManyBlockErrors, Disconnect
      <4> QED BY <1>t, <1>z, <2>1, <4>1 DEF TxTypes
    <3>3. CASE /\ GoBack(sn) /\ txsn' = sn /\ arsn' = ArSN(sn)
               /\ tx_buf_ptr' = AdjustedPtr(sn) /\ UNCHANGED con
      <4>1. blkerrcnt < mnbe /\ blkerrcnt' = blkerrcnt + 1
            /\ base' = BlockAt(AdjustedPtr(sn))
        BY <3>3 DEF GoBack
      <4>2. blkerrcnt' \in 0 .. mnbe
        BY <1>t, <4>1, Basics DEF TxTypes
      <4> HIDE DEF sn
      <4> QED BY <1>t, <1>z, <2>1, <2>2, <3>3, <4>1, <4>2 DEF TxTypes, QueueTypes
    <3> QED BY <1>3, <3>1, <3>2, <3>3 DEF AckNotReady
  <2>4. QueueTypes'
    BY <1>t, <2>1, <2>3 DEF QueueTypes, Sending
  <2>5. RxTypes' /\ BusTypes'
    BY <1>t, <2>1, AkHead DEF RxTypes, BusTypes, rxVars
  <2> QED BY <2>3, <2>4, <2>5 DEF TypeInv
<1>4. CASE AckNextBlock
  <2>1. ak # <<>> /\ Sending /\ ak' = Tail(ak) /\ retrycnt' = 0 /\ blkerrcnt' = 0
        /\ base' = BlockAt(tx_buf_ptr + 1)
        /\ SendTpData(accepted[done + 1], tx_buf_ptr + 1, txsn, ArSN(txsn))
        /\ UNCHANGED <<accepted, done, con, rxVars>>
    BY <1>4 DEF AckNextBlock, AckArrives, Sending
  <2>2. base' \in Nat
    BY <1>q, <1>s, <2>1, Basics, SMTT(30) DEF BlockAt
  <2>3. /\ dt' \in Seq(DtFrame) /\ txsn' \in SN /\ arsn' \in SN
        /\ tx_buf_ptr' \in Nat /\ txTimer' \in BOOLEAN
        /\ txState' \in {"TX_WAIT_AK", "TX_SENDING"} /\ Sending'
    BY <1>t, <1>q, <1>s, <2>1, SendTypes
  <2>4. TxTypes'
    BY <1>z, <2>1, <2>2, <2>3 DEF TxTypes
  <2>5. QueueTypes' /\ RxTypes' /\ BusTypes'
    BY <1>t, <2>1, <2>3, AkHead DEF QueueTypes, RxTypes, BusTypes, rxVars
  <2> QED BY <2>4, <2>5 DEF TypeInv
<1>5. CASE AckComplete
  <2>1. ak # <<>> /\ Sending /\ ak' = Tail(ak) /\ retrycnt' = 0 /\ done' = done + 1
        /\ UNCHANGED <<accepted, con, rxVars>>
    BY <1>5 DEF AckComplete, AckArrives, Sending
  <2>2. RxTypes' /\ ak' \in Seq(AkFrame) /\ done' \in 0 .. Len(accepted)
    BY <1>t, <1>q, <2>1, AkHead DEF RxTypes, rxVars
  <2>3. CASE ~MoreQueued
    <3>1. txState' = "TX_IDLE" /\ txTimer' = FALSE /\ tx_buf_ptr' = tx_buf_ptr + 1
          /\ arsn' = ArSN(txsn) /\ blkerrcnt' = 0 /\ txsn' = txsn /\ dt' = dt
          /\ base' = accepted[done + 1].from + accepted[done + 1].size
      BY <1>5, <2>3 DEF AckComplete
    <3>2. base' \in Nat
      <4>1. accepted[done + 1].from \in Nat /\ accepted[done + 1].size \in Nat
        BY <1>q, <2>1, Basics
      <4> QED BY <3>1, <4>1
    <3>3. TxTypes'
      BY <1>z, <1>s, <2>1, <3>1, <3>2 DEF TxTypes
    <3>4. QueueTypes'
      BY <1>t, <1>q, <2>1, <2>2, <2>3, <3>1 DEF QueueTypes, Sending, MoreQueued
    <3>5. BusTypes'
      BY <1>t, <2>2, <3>1 DEF BusTypes
    <3> QED BY <2>2, <3>3, <3>4, <3>5 DEF TypeInv
  <2>4. CASE MoreQueued
    <3>1. done' < Len(accepted) /\ accepted[done + 2] \in Message
      BY <1>t, <1>q, <2>1, <2>4 DEF MoreQueued, QueueTypes
    <3>2. SendTpData(accepted[done + 2], 0, txsn, ArSN(txsn))
          /\ blkerrcnt' = 0 /\ base' = accepted[done + 2].from
      BY <1>5, <2>4 DEF AckComplete, TxWakeup
    <3>3. /\ dt' \in Seq(DtFrame) /\ txsn' \in SN /\ arsn' \in SN
          /\ tx_buf_ptr' \in Nat /\ txTimer' \in BOOLEAN
          /\ txState' \in {"TX_WAIT_AK", "TX_SENDING"} /\ Sending'
      BY <1>t, <1>s, <3>1, <3>2, SendTypes
    <3>4. base' \in Nat
      BY <3>1, <3>2, Basics
    <3>5. TxTypes'
      BY <1>z, <2>1, <3>2, <3>3, <3>4 DEF TxTypes
    <3>6. QueueTypes' /\ BusTypes'
      BY <1>t, <2>1, <2>2, <3>1, <3>3 DEF QueueTypes, BusTypes
    <3> QED BY <2>2, <3>5, <3>6 DEF TypeInv
  <2> QED BY <2>3, <2>4
<1>6. CASE AckWrongSN
  <2> DEFINE sn == Head(ak).sn
  <2>1. ak # <<>> /\ Sending /\ ak' = Tail(ak) /\ retrycnt' = 0
        /\ UNCHANGED <<accepted, done, rxVars>>
    BY <1>6 DEF AckWrongSN, AckArrives, Sending
  <2>2. sn \in SN /\ AdjustedPtr(sn) \in Nat /\ ArSN(sn) \in SN
        /\ BlockAt(AdjustedPtr(sn)) \in Nat
    BY <1>t, <2>1, AkHead, AdjustedTypes, Basics
  <2>3. RxTypes' /\ ak' \in Seq(AkFrame)
    BY <1>t, <2>1, AkHead DEF RxTypes, rxVars
  <2>4. CASE TooManyBlockErrors /\ txTimer' = FALSE /\ UNCHANGED <<txState, dt>>
    <3>1. /\ con' = FALSE /\ txTimer' = FALSE
          /\ UNCHANGED <<blkerrcnt, base, txsn, arsn, tx_buf_ptr, txState, dt>>
      BY <2>4 DEF TooManyBlockErrors, Disconnect
    <3>2. TxTypes'
      BY <1>t, <1>z, <2>1, <3>1 DEF TxTypes
    <3>3. QueueTypes' /\ BusTypes'
      BY <1>t, <2>1, <2>3, <3>1 DEF QueueTypes, BusTypes, Sending
    <3> QED BY <2>3, <3>2, <3>3 DEF TypeInv
  <2>5. CASE GoBack(sn) /\ UNCHANGED con
             /\ SendTpData(accepted[done + 1], AdjustedPtr(sn), sn, ArSN(sn))
    <3>1. /\ dt' \in Seq(DtFrame) /\ txsn' \in SN /\ arsn' \in SN
          /\ tx_buf_ptr' \in Nat /\ txTimer' \in BOOLEAN
          /\ txState' \in {"TX_WAIT_AK", "TX_SENDING"} /\ Sending'
      <4> HIDE DEF sn
      <4> QED BY <1>t, <1>q, <2>1, <2>2, <2>5, SendTypes
    <3>2. blkerrcnt < mnbe /\ blkerrcnt' = blkerrcnt + 1
          /\ base' = BlockAt(AdjustedPtr(sn))
      BY <2>5 DEF GoBack
    <3>3. blkerrcnt' \in 0 .. mnbe
      BY <1>t, <3>2, Basics DEF TxTypes
    <3>4. TxTypes'
      <4> HIDE DEF sn
      <4> QED BY <1>z, <2>1, <2>2, <3>1, <3>2, <3>3 DEF TxTypes
    <3>5. QueueTypes' /\ BusTypes'
      BY <1>t, <2>1, <2>3, <2>5, <3>1 DEF QueueTypes, BusTypes
    <3> QED BY <2>3, <3>4, <3>5 DEF TypeInv
  <2> QED BY <1>6, <2>4, <2>5 DEF AckWrongSN
<1>7. CASE TimerResend
  <2> DEFINE sn == IF txsn = 0 THEN SNMod - 1 ELSE txsn - 1
  <2>1. Sending /\ retrycnt' = retrycnt + 1 /\ retrycnt < mnt
        /\ SendTpData(accepted[done + 1], tx_buf_ptr, sn, arsn)
        /\ UNCHANGED <<blkerrcnt, base, accepted, done, con, rxVars, ak>>
    BY <1>7 DEF TimerResend, RetriesLeft, Sending
  <2>2. sn \in SN
    BY <1>s, Basics
  <2>3. /\ dt' \in Seq(DtFrame) /\ txsn' \in SN /\ arsn' \in SN
        /\ tx_buf_ptr' \in Nat /\ txTimer' \in BOOLEAN
        /\ txState' \in {"TX_WAIT_AK", "TX_SENDING"} /\ Sending'
    <3> HIDE DEF sn
    <3> QED BY <1>t, <1>q, <1>s, <2>1, <2>2, SendTypes
  <2>4. retrycnt' \in 0 .. mnt
    BY <1>t, <2>1, Basics DEF TxTypes
  <2>5. TxTypes'
    BY <1>t, <2>1, <2>3, <2>4 DEF TxTypes
  <2>6. QueueTypes' /\ RxTypes' /\ BusTypes'
    BY <1>t, <2>1, <2>3 DEF QueueTypes, RxTypes, BusTypes, rxVars
  <2> QED BY <2>5, <2>6 DEF TypeInv
<1>8. CASE TimerGiveUp
  <2>1. retrycnt' = 0 /\ txTimer' = FALSE /\ con' = FALSE
        /\ UNCHANGED <<txState, txsn, arsn, tx_buf_ptr, blkerrcnt, base,
                       accepted, done, rxVars, dt, ak>>
    BY <1>8 DEF TimerGiveUp, Disconnect
  <2>2. TxTypes'
    BY <1>t, <1>z, <2>1 DEF TxTypes
  <2>3. QueueTypes' /\ RxTypes' /\ BusTypes'
    BY <1>t, <2>1 DEF QueueTypes, RxTypes, BusTypes, rxVars, Sending
  <2> QED BY <2>2, <2>3 DEF TypeInv
<1>9. CASE TimerNextSegment
  <2>1. Sending /\ SendTpData(accepted[done + 1], tx_buf_ptr + 1, txsn, arsn)
        /\ UNCHANGED <<retrycnt, blkerrcnt, base, accepted, done, con, rxVars, ak>>
    BY <1>9 DEF TimerNextSegment, Sending
  <2>2. /\ dt' \in Seq(DtFrame) /\ txsn' \in SN /\ arsn' \in SN
        /\ tx_buf_ptr' \in Nat /\ txTimer' \in BOOLEAN
        /\ txState' \in {"TX_WAIT_AK", "TX_SENDING"} /\ Sending'
    BY <1>t, <1>q, <1>s, <2>1, SendTypes
  <2>3. TxTypes'
    BY <1>t, <2>1, <2>2 DEF TxTypes
  <2>4. QueueTypes' /\ RxTypes' /\ BusTypes'
    BY <1>t, <2>1, <2>2 DEF QueueTypes, RxTypes, BusTypes, rxVars
  <2> QED BY <2>3, <2>4 DEF TypeInv
<1>10. CASE RxExpected
  <2> DEFINE f == Head(dt)
  <2>1. /\ dt # <<>> /\ dt' = Tail(dt)
        /\ (f.ar /\ SendAck(rxsn', TRUE, got')) \/ ak' = ak
        /\ UNCHANGED <<txVars, accepted, done, con, rxState>>
    BY <1>10 DEF RxExpected
  <2>2. PICK st \in RxStoreData(f.data) :
          /\ rx_buf_size' = st.size
          /\ got' = got + st.stored
          /\ rxsn' = (rxsn + st.stored) % SNMod
          /\ IF f.eom THEN rx_buf' = <<>> /\ delivered' = Append(delivered, st.buf)
                      ELSE rx_buf' = st.buf /\ UNCHANGED delivered
    BY <1>10 DEF RxExpected
  <2>3. f.data \in Nat /\ dt' \in Seq(DtFrame)
    BY <1>t, <2>1, DtHead
  <2>4. st.buf \in Seq(Int) /\ st.size \in Nat \ {0} /\ st.stored \in Nat
    <3> DEFINE junk == [k \in 1 .. Len(rx_buf) |-> Junk]
    <3>1. rx_buf \in Seq(Int) /\ rx_buf_size \in Nat \ {0} /\ f.data \in Int
      BY <1>t, <2>3 DEF RxTypes
    <3>2. junk \in Seq(Int)
      BY <3>1 DEF Junk
    <3>3. \/ st = [buf |-> Append(rx_buf, f.data), size |-> rx_buf_size, stored |-> 1]
          \/ st = [buf |-> Append(junk, f.data), size |-> 2 * rx_buf_size, stored |-> 1]
          \/ st = [buf |-> rx_buf, size |-> rx_buf_size, stored |-> 0]
      BY DEF RxStoreData
    <3> HIDE DEF f, junk
    <3>4. Append(rx_buf, f.data) \in Seq(Int) /\ Append(junk, f.data) \in Seq(Int)
      BY <3>1, <3>2, AppendElements
    <3>5. 2 * rx_buf_size \in Nat \ {0}
      BY <3>1
    <3> HIDE DEF RxStoreData
    <3>6. CASE st = [buf |-> Append(rx_buf, f.data), size |-> rx_buf_size, stored |-> 1]
      BY <3>1, <3>4, <3>6
    <3>7. CASE st = [buf |-> Append(junk, f.data), size |-> 2 * rx_buf_size, stored |-> 1]
      BY <3>4, <3>5, <3>7
    <3>8. CASE st = [buf |-> rx_buf, size |-> rx_buf_size, stored |-> 0]
      BY <3>1, <3>8
    <3> QED BY <3>3, <3>6, <3>7, <3>8
  <2>5. rxsn' \in SN /\ got' \in Nat
    <3>1. rxsn \in Int /\ got \in Nat
      BY <1>t, Basics DEF RxTypes
    <3>2. (rxsn + st.stored) % SNMod \in SN
      <4>1. rxsn + st.stored \in Int
        BY <2>4, <3>1
      <4> QED BY <4>1, SnRange
    <3> QED BY <2>2, <2>4, <3>1, <3>2
  <2>6. rx_buf' \in Seq(Int) /\ delivered' \in Seq(Seq(Int))
    <3>1. delivered \in Seq(Seq(Int)) /\ <<>> \in Seq(Int)
      BY <1>t DEF RxTypes
    <3>2. Append(delivered, st.buf) \in Seq(Seq(Int))
      BY <2>4, <3>1, AppendElements
    <3> QED BY <2>2, <2>4, <3>1, <3>2
  <2>7. ak' \in Seq(AkFrame)
    <3> DEFINE g == [sn |-> rxsn', rs |-> TRUE, upto |-> got']
    <3>1. ak \in Seq(AkFrame) /\ g \in AkFrame
      BY <1>t, <2>5 DEF BusTypes, AkFrame
    <3>2. ak' \in Xmit(ak, g) \/ ak' = ak
      BY <2>1 DEF SendAck
    <3> HIDE DEF g
    <3> QED BY <3>1, <3>2, XmitElements
  <2>8. TxTypes' /\ QueueTypes'
    BY <1>t, <2>1 DEF TxTypes, QueueTypes, Sending, txVars
  <2>9. RxTypes'
    BY <1>t, <2>1, <2>2, <2>4, <2>5, <2>6 DEF RxTypes
  <2> QED BY <2>3, <2>7, <2>8, <2>9 DEF TypeInv, BusTypes
<1>11. CASE RxRefused
  <2> DEFINE g == [sn |-> rxsn, rs |-> rxState = "RX_RECEIVE", upto |-> got]
  <2>1. /\ dt # <<>> /\ dt' = Tail(dt)
        /\ ak' \in Xmit(ak, g) \/ ak' = ak
        /\ UNCHANGED <<txVars, accepted, done, con, rxVars>>
    BY <1>11 DEF RxRefused, SendAck
  <2>2. ak' \in Seq(AkFrame)
    <3>1. ak \in Seq(AkFrame) /\ g \in AkFrame
      BY <1>t DEF BusTypes, RxTypes, AkFrame
    <3> HIDE DEF g
    <3> QED BY <2>1, <3>1, XmitElements
  <2>3. dt' \in Seq(DtFrame)
    BY <1>t, <2>1, DtHead
  <2>4. TxTypes' /\ QueueTypes' /\ RxTypes'
    BY <1>t, <2>1 DEF TxTypes, QueueTypes, RxTypes, Sending, txVars, rxVars
  <2> QED BY <2>2, <2>3, <2>4 DEF TypeInv, BusTypes
<1>12. CASE PeerTurns
  BY <1>12, <1>t DEF PeerTurns, TypeInv, TxTypes, QueueTypes, RxTypes, BusTypes,
                     Sending, txVars
<1>13. CASE UNCHANGED vars
  BY <1>13, <1>t DEF vars, txVars, rxVars, TypeInv, TxTypes, QueueTypes, RxTypes,
                     BusTypes, Sending
<1> QED BY <1>1, <1>2, <1>3, <1>4, <1>5, <1>6, <1>7, <1>8, <1>9, <1>10, <1>11,
           <1>12, <1>13 DEF Next, TxData, TxTimer, RxData

\* Type correctness: sequence numbers stay below the modulus, the retry and
\* block error counters within mnt and mnbe, done within tx_queue.
THEOREM TypeCorrect == Spec => []TypeOK
BY TypeInit, TypeStep, TypeInvOK, PTL DEF Spec

----------------------------------------------------------------------------
(* A timer always runs.                                                    *)

\* While the channel is up, an engine that transmits has its timer pending.
Armed == (con /\ Sending) => txTimer = TRUE

LEMMA ArmedStep ==
  ASSUME AckTimeout, TypeInv, Armed, [Next]_vars
  PROVE  Armed'
<1>1. ASSUME NEW m, NEW ptr, NEW sn, NEW a, SendTpData(m, ptr, sn, a)
      PROVE  txTimer' = TRUE
  BY <1>1 DEF SendTpData
<1>2. ASSUME NEW size \in Sizes, SendMsg(size) PROVE Armed'
  <2>1. CASE txState = "TX_IDLE"
    BY <1>1, <1>2, <2>1 DEF SendMsg, TxWakeup, Armed
  <2>2. CASE txState # "TX_IDLE"
    BY <1>2, <2>2 DEF SendMsg, Armed, Sending, txVars
  <2> QED BY <2>1, <2>2
<1>3. CASE TxData
  <2>1. CASE AckIgnored
    BY <2>1 DEF AckIgnored, Armed, Sending, txVars
  <2>2. CASE AckNotReady
    BY <2>2 DEF AckNotReady, DelayNextDT, Armed
  <2>3. CASE AckNextBlock
    BY <1>1, <2>3 DEF AckNextBlock, Armed
  <2>4. CASE AckComplete
    BY <1>1, <2>4 DEF AckComplete, TxWakeup, Armed, Sending
  <2>5. CASE AckWrongSN
    BY <1>1, <2>5 DEF AckWrongSN, TooManyBlockErrors, Disconnect, Armed
  <2> QED BY <1>3, <2>1, <2>2, <2>3, <2>4, <2>5 DEF TxData
<1>4. CASE TxTimer
  BY <1>1, <1>4 DEF TxTimer, TimerResend, TimerGiveUp, TimerNextSegment, Disconnect, Armed
<1>5. CASE RxData \/ PeerTurns \/ UNCHANGED vars
  BY <1>5 DEF RxData, RxExpected, RxRefused, PeerTurns, vars, txVars, Armed, Sending
<1> QED BY <1>2, <1>3, <1>4, <1>5 DEF Next

\* With an acknowledge timeout, no loss can stall the engine: as long as the
\* channel is up, unfinished messages are worked on and a timer is pending.
THEOREM NoStall == ASSUME AckTimeout PROVE Spec => []NeverStalls
<1>1. Init => Armed
  BY DEF Init, Armed, Sending
<1>2. TypeInv /\ Armed /\ [Next]_vars => Armed'
  BY ArmedStep
<1>3. TypeInv /\ Armed => NeverStalls
  BY DEF TypeInv, QueueTypes, Armed, NeverStalls, Sending
<1> QED BY TypeInit, TypeStep, <1>1, <1>2, <1>3, PTL DEF Spec

\* The peer is LLCF, which never enters RX_BUSY, and the longest message
\* fits the buffer allocated at the start.
PlainPeer == ~MayBeBusy /\ \A s \in Sizes : s <= RxSize

----------------------------------------------------------------------------
(* The inductive invariant.                                                *)

End(m) == m.from + m.size

\* Position after the last segment of the block that starts at b in m.
LimitOf(b, m) == IF b + bs < End(m) THEN b + bs ELSE End(m)

Cur == accepted[done + 1]

\* Position after the last segment sent.
Ahead == IF Sending THEN Cur.from + tx_buf_ptr + 1 ELSE base

Limit == IF Sending THEN LimitOf(base, Cur) ELSE base

\* d is the last segment of a message of q.
IsEnd(q, d) == \E i \in 1 .. Len(q) : d = End(q[i]) - 1

\* The messages of q lie behind each other in the stream.
StreamOK(q) ==
  /\ q \in Seq(Message)
  /\ q # <<>> => q[1].from = 0
  /\ \A i \in 1 .. Len(q) : i < Len(q) => q[i + 1].from = End(q[i])
  /\ \A i, j \in 1 .. Len(q) : i < j => End(q[i]) <= q[j].from

StreamInv == StreamOK(accepted)

\* The sender is inside its block, and its block inside its message.
SenderInv ==
  /\ ~Sending => base = Total
  /\ Sending => /\ tx_buf_ptr < Cur.size
                /\ Cur.from <= base /\ base <= Cur.from + tx_buf_ptr
                /\ arsn = ArSN(base)
                /\ Ahead <= Limit
                /\ txState = "TX_WAIT_AK" <=> Ahead = Limit
  /\ txsn = Ahead % SNMod
  /\ base <= got /\ got <= Limit

\* Frames on the bus carry the number of their segment, belong to the
\* current block or the ones before, and are not older than a block.
DtInv ==
  /\ \A k \in 1 .. Len(dt) : /\ dt[k].sn = dt[k].data % SNMod
                             /\ dt[k].eom <=> IsEnd(accepted, dt[k].data)
                             /\ dt[k].data < Limit
                             /\ got <= dt[k].data + bs
  /\ \A j, k \in 1 .. Len(dt) : j < k => dt[j].data + 1 <= dt[k].data + bs

\* ACKs on the bus carry a number between the start of the block and what
\* is stored, and come in order.
AkInv ==
  /\ \A k \in 1 .. Len(ak) : /\ ak[k].sn = ak[k].upto % SNMod
                             /\ ak[k].rs = TRUE
                             /\ base <= ak[k].upto /\ ak[k].upto <= got
  /\ \A j, k \in 1 .. Len(ak) : j < k => ak[j].upto <= ak[k].upto

\* The receiver holds exactly the stream before got.
RxInv ==
  /\ rxState = "RX_RECEIVE" /\ rx_buf_size = RxSize /\ rxsn = got % SNMod
  /\ Len(delivered) <= Len(accepted)
  /\ \A i \in 1 .. Len(delivered) : delivered[i] = Segments(accepted[i])
  /\ Len(delivered) = Len(accepted) => rx_buf = <<>> /\ got = Total
  /\ Len(delivered) < Len(accepted) =>
       LET m == accepted[Len(delivered) + 1] IN
         /\ m.from <= got /\ got < End(m)
         /\ rx_buf = [k \in 1 .. (got - m.from) |-> m.from + k - 1]

IInv == TypeInv /\ StreamInv /\ SenderInv /\ DtInv /\ AkInv /\ RxInv

----------------------------------------------------------------------------
(* Sequence numbers stand for positions in the stream.                     *)

LEMMA SnOfSum ==
  /\ \A n \in Nat : ArSN(n % SNMod) = ArSN(n)
  /\ \A n \in Nat : ((n % SNMod) + 1) % SNMod = (n + 1) % SNMod
<1>1. SNMod \in Nat \ {0} /\ bs \in Nat \ {0}
  BY SnRange
<1>2. ASSUME NEW n \in Nat PROVE ArSN(n % SNMod) = ArSN(n)
  <2> DEFINE c == bs - 1
  <2>1. c \in Int /\ n % SNMod \in Int
    BY <1>1, DivMod
  <2>2. (n % SNMod) + bs - 1 = (n % SNMod) + c /\ n + bs - 1 = n + c
    BY <1>1, <2>1
  <2> HIDE DEF c
  <2>3. SNMod \in Nat \ {0} /\ n \in Int
    BY <1>1
  <2>4. ((n % SNMod) + c) % SNMod = (n + c) % SNMod
    BY <2>1, <2>3, ModAdd, Zenon
  <2>5. ArSN(n % SNMod) = ((n % SNMod) + c) % SNMod /\ ArSN(n) = (n + c) % SNMod
    BY <2>2, Zenon DEF ArSN
  <2> QED BY <2>4, <2>5, Zenon
<1>3. ASSUME NEW n \in Nat PROVE ((n % SNMod) + 1) % SNMod = (n + 1) % SNMod
  <2>1. SNMod \in Nat \ {0} /\ n \in Int /\ 1 \in Int
    BY <1>1
  <2> QED BY <2>1, ModAdd, Zenon
<1> QED BY <1>2, <1>3

\* What tp_tx_timer() does to txsn undoes the increment of sendtpdata.
LEMMA SnBefore ==
  ASSUME NEW n \in Nat, NEW x, x = (n + 1) % SNMod
  PROVE  (IF x = 0 THEN SNMod - 1 ELSE x - 1) = n % SNMod
<1> DEFINE r == n % SNMod
<1>1. SNMod \in Nat \ {0} /\ r \in 0 .. (SNMod - 1)
  BY SnRange, DivMod
<1>2. x = (r + 1) % SNMod
  BY SnOfSum
<1> HIDE DEF r
<1>3. CASE r + 1 < SNMod
  <2>1. (r + 1) % SNMod = r + 1
    BY <1>1, <1>3, SmallMod
  <2> QED BY <1>1, <1>2, <2>1 DEF r
<1>4. CASE r + 1 = SNMod
  <2>1. (r + 1) % SNMod = 0
    BY <1>1, <1>4, FullMod
  <2> QED BY <1>1, <1>2, <1>4, <2>1 DEF r
<1> QED BY <1>1, <1>3, <1>4

\* Positions at most a block apart have different sequence numbers.
LEMMA SnDistinct ==
  ASSUME NEW a \in Nat, NEW b \in Nat, a % SNMod = b % SNMod,
         a <= b + bs, b <= a + bs
  PROVE  a = b
<1>1. SNMod \in Nat \ {0} /\ bs \in Nat /\ bs < SNMod
  BY SnRange
<1>2. SNMod \in Nat \ {0} /\ a \in Int /\ b \in Int
      /\ b - a < SNMod /\ a - b < SNMod
  BY <1>1
<1> QED BY <1>2, ModUnique, Zenon

\* The steps back that tp_tx_adjust_sn() computes from sequence numbers are
\* the ones between the positions.
LEMMA StepsBack ==
  ASSUME NEW a \in Nat, NEW b \in Nat, a < b, b <= a + bs, txsn = b % SNMod
  PROVE  LostSegments(a % SNMod) = b - a - 1
<1>1. SNMod \in Nat \ {0} /\ bs \in Nat /\ bs < SNMod
  BY SnRange
<1>2. SNMod \in Nat \ {0} /\ a \in Int /\ b \in Int
      /\ 0 <= b - a /\ b - a < SNMod
  BY <1>1
<1>3. b - a = IF b % SNMod < a % SNMod THEN SNMod + (b % SNMod) - (a % SNMod)
                                       ELSE (b % SNMod) - (a % SNMod)
  BY <1>2, ModDistance, Zenon
<1>4. a % SNMod \in Int /\ b % SNMod \in Int
  BY <1>1, DivMod
<1> DEFINE x == a % SNMod  y == b % SNMod
<1>5. b - a = IF y < x THEN SNMod + y - x ELSE y - x
  BY <1>3
<1>6. LostSegments(x) = (IF (IF y < x THEN SNMod + y - x ELSE y - x) < 1
                         THEN 1 ELSE IF y < x THEN SNMod + y - x ELSE y - x) - 1
  BY DEF LostSegments
<1> HIDE DEF x, y
<1>7. LostSegments(x) = (IF b - a < 1 THEN 1 ELSE b - a) - 1
  BY <1>5, <1>6
<1> QED BY <1>7 DEF x

----------------------------------------------------------------------------
(* The stream of messages.                                                 *)

LEMMA EndFacts ==
  ASSUME NEW m \in Message
  PROVE  /\ m.from \in Nat /\ m.size \in Nat \ {0} /\ End(m) \in Nat
         /\ m.from < End(m) /\ End(m) = m.from + m.size
BY Basics DEF End

\* The message around a position decides whether it is the last of one.
LEMMA EndUnique ==
  ASSUME NEW q, StreamOK(q), NEW i \in 1 .. Len(q), NEW d \in Nat,
         q[i].from <= d, d < End(q[i])
  PROVE  IsEnd(q, d) <=> d = End(q[i]) - 1
<1>1. ASSUME d = End(q[i]) - 1 PROVE IsEnd(q, d)
  BY <1>1 DEF IsEnd
<1>2. ASSUME IsEnd(q, d) PROVE d = End(q[i]) - 1
  <2>1. PICK j \in 1 .. Len(q) : d = End(q[j]) - 1
    BY <1>2 DEF IsEnd
  <2>2. q[i] \in Message /\ q[j] \in Message
    BY DEF StreamOK
  <2>3. /\ q[i].from \in Nat /\ q[j].from \in Nat
        /\ End(q[i]) \in Nat /\ End(q[j]) \in Nat
        /\ q[i].from < End(q[i]) /\ q[j].from < End(q[j])
    BY <2>2, EndFacts
  <2>4. CASE i < j
    <3>1. End(q[i]) <= q[j].from
      BY <2>4 DEF StreamOK
    <3> QED BY <2>1, <2>3, <3>1
  <2>5. CASE j < i
    <3>1. End(q[j]) <= q[i].from
      BY <2>5 DEF StreamOK
    <3> QED BY <2>1, <2>3, <3>1
  <2>6. CASE i = j
    BY <2>1, <2>6
  <2>7. i \in Int /\ j \in Int
    OBVIOUS
  <2> QED BY <2>4, <2>5, <2>6, <2>7
<1> QED BY <1>1, <1>2

LEMMA TotalFacts ==
  ASSUME StreamInv
  PROVE  /\ Total \in Nat
         /\ \A i \in 1 .. Len(accepted) : End(accepted[i]) <= Total
         /\ accepted # <<>> => End(accepted[Len(accepted)]) = Total
         /\ accepted = <<>> => Total = 0
<1>1. CASE accepted = <<>>
  BY <1>1 DEF Total
<1>2. CASE accepted # <<>>
  <2> DEFINE n == Len(accepted)
  <2>1. n \in Nat \ {0} /\ \A i \in 1 .. n : accepted[i] \in Message
    BY <1>2 DEF StreamInv, StreamOK
  <2>2. Total = End(accepted[n])
    BY <1>2 DEF Total, End
  <2>3. ASSUME NEW i \in 1 .. n PROVE End(accepted[i]) <= Total
    <3>1. accepted[i] \in Message /\ accepted[n] \in Message
      BY <2>1
    <3>2. End(accepted[i]) \in Nat /\ End(accepted[n]) \in Nat
          /\ accepted[n].from < End(accepted[n]) /\ accepted[n].from \in Nat
      BY <3>1, EndFacts
    <3>3. i < n => End(accepted[i]) <= accepted[n].from
      BY <2>1 DEF StreamInv, StreamOK
    <3> QED BY <2>1, <2>2, <3>2, <3>3
  <2>4. Total \in Nat
    BY <2>1, <2>2, EndFacts
  <2> QED BY <1>2, <2>2, <2>3, <2>4
<1> QED BY <1>1, <1>2

\* A submitted message is appended right behind the last one.
LEMMA StreamGrows ==
  ASSUME StreamInv, NEW m \in Message, m.from = Total, NEW q,
         q = Append(accepted, m)
  PROVE  /\ StreamOK(q)
         /\ Len(q) = Len(accepted) + 1 /\ Len(accepted) \in Nat
         /\ q[Len(accepted) + 1] = m
         /\ \A i \in 1 .. Len(accepted) : q[i] = accepted[i]
         /\ \A d \in Nat : d < Total => (IsEnd(q, d) <=> IsEnd(accepted, d))
<1> DEFINE n == Len(accepted)
<1>1. accepted \in Seq(Message) /\ n \in Nat
  BY DEF StreamInv, StreamOK
<1>2. q \in Seq(Message) /\ Len(q) = n + 1 /\ q[n + 1] = m /\ q # <<>>
      /\ \A i \in 1 .. n : q[i] = accepted[i]
  BY <1>1, AppendElements
<1>3. accepted = <<>> <=> n = 0
  BY <1>1
<1>4. /\ Total \in Nat
      /\ \A i \in 1 .. n : End(accepted[i]) <= Total
      /\ accepted # <<>> => End(accepted[n]) = Total
      /\ accepted = <<>> => Total = 0
  BY TotalFacts
<1>5. m.from \in Nat /\ End(m) \in Nat /\ m.from < End(m)
  BY EndFacts
<1> HIDE DEF n
<1>6. q[1].from = 0
  <2>1. CASE n = 0
    BY <1>2, <1>3, <1>4, <2>1
  <2>2. CASE n # 0
    BY <1>1, <1>2, <1>3, <2>2 DEF StreamInv, StreamOK
  <2> QED BY <2>1, <2>2
<1>7. ASSUME NEW i \in 1 .. Len(q), i < Len(q) PROVE q[i + 1].from = End(q[i])
  <2>1. i \in 1 .. n /\ q[i] = accepted[i]
    BY <1>1, <1>2, <1>7
  <2>2. CASE i = n
    BY <1>1, <1>2, <1>3, <1>4, <2>1, <2>2
  <2>3. CASE i < n
    <3>1. i + 1 \in 1 .. n
      BY <1>1, <2>1, <2>3
    <3>2. q[i + 1] = accepted[i + 1]
      BY <1>2, <3>1
    <3>3. accepted[i + 1].from = End(accepted[i])
      BY <2>1, <2>3 DEF StreamInv, StreamOK, n
    <3> QED BY <2>1, <3>2, <3>3
  <2>4. i = n \/ i < n
    BY <1>1, <2>1
  <2> QED BY <2>2, <2>3, <2>4, Zenon
<1>8. ASSUME NEW i \in 1 .. Len(q), NEW j \in 1 .. Len(q), i < j
      PROVE  End(q[i]) <= q[j].from
  <2>1. i \in 1 .. n /\ q[i] = accepted[i]
    BY <1>1, <1>2, <1>8
  <2>2. CASE j = n + 1
    BY <1>2, <1>4, <2>1, <2>2
  <2>3. CASE j \in 1 .. n
    BY <1>2, <1>8, <2>1, <2>3 DEF StreamInv, StreamOK, n
  <2> QED BY <1>1, <1>2, <2>2, <2>3
<1>9. ASSUME NEW d \in Nat, d < Total PROVE IsEnd(q, d) <=> IsEnd(accepted, d)
  <2>1. ASSUME IsEnd(q, d) PROVE IsEnd(accepted, d)
    <3>1. PICK i \in 1 .. Len(q) : d = End(q[i]) - 1
      BY <2>1 DEF IsEnd
    <3>2. i # n + 1
      BY <1>2, <1>4, <1>5, <1>9, <3>1
    <3>3. i \in 1 .. n
      BY <1>1, <1>2, <3>2
    <3> QED BY <1>2, <3>1, <3>3 DEF IsEnd, n
  <2>2. ASSUME IsEnd(accepted, d) PROVE IsEnd(q, d)
    <3>1. PICK i \in 1 .. n : d = End(accepted[i]) - 1
      BY <2>2 DEF IsEnd, n
    <3>2. i \in 1 .. Len(q) /\ q[i] = accepted[i]
      BY <1>1, <1>2
    <3> QED BY <3>1, <3>2 DEF IsEnd
  <2> QED BY <2>1, <2>2
<1> QED BY <1>1, <1>2, <1>6, <1>7, <1>8, <1>9 DEF StreamOK, n

----------------------------------------------------------------------------
(* Positions.                                                              *)

LEMMA LimitFacts ==
  ASSUME NEW b \in Nat, NEW m \in Message
  PROVE  /\ LimitOf(b, m) \in Nat /\ LimitOf(b, m) <= b + bs
         /\ LimitOf(b, m) <= End(m)
         /\ LimitOf(b, m) = b + bs \/ LimitOf(b, m) = End(m)
<1>1. End(m) \in Nat /\ bs \in Nat
  BY EndFacts, SnRange
<1> QED BY <1>1 DEF LimitOf

LEMMA PositionFacts ==
  ASSUME IInv
  PROVE  /\ base \in Nat /\ got \in Nat /\ Ahead \in Nat /\ Limit \in Nat
         /\ bs \in Nat \ {0} /\ Total \in Nat
         /\ base <= Ahead /\ Ahead <= Limit /\ Limit <= base + bs
         /\ Limit <= Total /\ base <= got /\ got <= Limit
         /\ Sending => /\ Cur \in Message /\ done + 1 \in 1 .. Len(accepted)
                       /\ Limit = LimitOf(base, Cur)
                       /\ Ahead = Cur.from + tx_buf_ptr + 1
                       /\ Limit <= End(Cur) /\ End(Cur) <= Total
<1>1. TxTypes /\ QueueTypes /\ RxTypes /\ StreamInv /\ SenderInv
  BY DEF IInv, TypeInv
<1>2. base \in Nat /\ got \in Nat /\ tx_buf_ptr \in Nat /\ bs \in Nat \ {0}
  BY <1>1, SnRange DEF TxTypes, RxTypes
<1>3. base <= got /\ got <= Limit
  BY <1>1 DEF SenderInv
<1>4. Total \in Nat /\ \A i \in 1 .. Len(accepted) : End(accepted[i]) <= Total
  BY <1>1, TotalFacts
<1>5. CASE Sending
  <2>1. Cur \in Message /\ done + 1 \in 1 .. Len(accepted) /\ End(Cur) <= Total
    BY <1>1, <1>4, <1>5, QueueFacts DEF Cur
  <2>2. Limit = LimitOf(base, Cur) /\ Ahead = Cur.from + tx_buf_ptr + 1
    BY <1>5 DEF Limit, Ahead
  <2>3. Cur.from \in Nat /\ End(Cur) \in Nat
    BY <2>1, EndFacts
  <2>4. Limit \in Nat /\ Limit <= base + bs /\ Limit <= End(Cur)
    BY <1>2, <2>1, <2>2, LimitFacts
  <2>5. Ahead \in Nat /\ base <= Ahead /\ Ahead <= Limit
    BY <1>1, <1>2, <1>5, <2>2, <2>3 DEF SenderInv
  <2>6. Limit <= Total
    BY <1>4, <2>1, <2>3, <2>4
  <2> QED BY <1>2, <1>3, <1>4, <2>1, <2>2, <2>4, <2>5, <2>6
<1>6. CASE ~Sending
  <2>1. Limit = base /\ Ahead = base /\ base = Total
    BY <1>1, <1>6 DEF Limit, Ahead, SenderInv
  <2> QED BY <1>2, <1>3, <1>4, <1>6, <2>1
<1> QED BY <1>5, <1>6

----------------------------------------------------------------------------
(* Sending a segment keeps the sender's part of the invariant.             *)

LEMMA BlockEnd ==
  ASSUME NEW d \in Nat, NEW b \in Nat, b <= d, d + 1 <= b + bs
  PROVE  d % SNMod = ArSN(b) <=> d + 1 = b + bs
<1> DEFINE e == b + bs - 1
<1>1. bs \in Nat \ {0}
  BY SnRange
<1>2. e \in Nat /\ d <= e + bs /\ e <= d + bs /\ (d = e <=> d + 1 = b + bs)
  BY <1>1
<1>3. ArSN(b) = e % SNMod
  BY DEF ArSN
<1> HIDE DEF e
<1>4. ASSUME d % SNMod = e % SNMod PROVE d = e
  BY <1>2, <1>4, SnDistinct
<1>5. d = e => d % SNMod = e % SNMod
  OBVIOUS
<1> QED BY <1>2, <1>3, <1>4, <1>5

\* A step sends segment p of message i, at position d of the stream, in the
\* block that starts at b.
SendsAt(i, p, b, d, sn, a) ==
  LET m == accepted'[i] IN
  /\ done' + 1 = i /\ Sending' /\ StreamOK(accepted') /\ got' = got /\ base' = b
  /\ p < m.size /\ d = m.from + p /\ m.from <= b /\ b <= d /\ d + 1 <= b + bs
  /\ sn = d % SNMod /\ a = ArSN(b) /\ SendTpData(m, p, sn, a)
  /\ b <= got /\ got <= LimitOf(b, m) /\ Limit <= LimitOf(b, m)
  /\ \A x \in Nat : x < Limit => (IsEnd(accepted', x) <=> IsEnd(accepted, x))

LEMMA SendStep ==
  ASSUME dt \in Seq(DtFrame), DtInv, Limit \in Nat, got \in Nat,
         NEW i \in 1 .. Len(accepted'), NEW m \in Message, m = accepted'[i],
         NEW p \in Nat, NEW b \in Nat, NEW d \in Nat, NEW sn, NEW a,
         SendsAt(i, p, b, d, sn, a)
  PROVE  SenderInv' /\ DtInv'
<1> DEFINE eom == p + 1 >= m.size
           ar == eom \/ sn = a
           f == [sn |-> sn, ar |-> ar, eom |-> eom, data |-> m.from + p]
           lim == LimitOf(b, m)
<1>1. m.from \in Nat /\ m.size \in Nat \ {0} /\ End(m) \in Nat
      /\ End(m) = m.from + m.size
  BY EndFacts
<1>s. SendTpData(m, p, sn, a) /\ sn = d % SNMod /\ a = ArSN(b)
  BY DEF SendsAt
<1>p. p < m.size /\ d = m.from + p /\ m.from <= b /\ b <= d /\ d + 1 <= b + bs
  BY DEF SendsAt
<1>q. done' + 1 = i /\ Sending' /\ StreamOK(accepted') /\ got' = got /\ base' = b
  BY DEF SendsAt
<1>2. bs \in Nat \ {0} /\ sn \in SN
  BY <1>s, SnRange
<1>3. lim \in Nat /\ lim <= b + bs /\ lim <= End(m) /\ (lim = b + bs \/ lim = End(m))
  BY LimitFacts
<1>4. d < End(m) /\ m.from <= d /\ (eom <=> d = End(m) - 1)
  <2> DEFINE from == m.from  size == m.size
  <2>1. /\ from \in Nat /\ size \in Nat /\ End(m) = from + size
        /\ p < size /\ d = from + p
    BY <1>1, <1>p
  <2>2. d < from + size /\ from <= d /\ (p + 1 >= size <=> d = from + size - 1)
    <3> HIDE DEF from, size
    <3> QED BY <2>1
  <2> QED BY <2>1, <2>2
<1>5. txsn' = (sn + 1) % SNMod /\ tx_buf_ptr' = p /\ arsn' = a
      /\ (txState' = "TX_WAIT_AK" <=> ar) /\ dt' \in Xmit(dt, f)
  BY <1>s DEF SendTpData
<1>6. eom \in BOOLEAN /\ ar \in BOOLEAN /\ (ar <=> eom \/ sn = a)
  OBVIOUS
<1>7. f = [sn |-> sn, ar |-> ar, eom |-> eom, data |-> d]
  BY <1>p
<1>8. Cur' = m
  BY <1>q DEF Cur
<1>9. Limit' = lim
  BY <1>q, <1>8 DEF Limit
<1>10. Ahead' = d + 1
  <2>1. Ahead' = m.from + p + 1
    BY <1>5, <1>8, <1>q DEF Ahead
  <2> QED BY <1>p, <2>1
<1> HIDE DEF eom, ar, f, lim
<1>11. b <= got /\ got <= lim /\ Limit <= lim
       /\ \A x \in Nat : x < Limit => (IsEnd(accepted', x) <=> IsEnd(accepted, x))
  BY DEF lim, SendsAt
<1>12. d + 1 <= lim
  <2>1. d + 1 <= End(m) /\ d + 1 <= b + bs
    BY <1>1, <1>4, <1>p
  <2> QED BY <1>3, <2>1
<1>m. Limit <= lim /\ got <= lim /\ lim \in Nat
  BY <1>3, <1>11
<1>n. lim <= d + bs
  <2>1. b <= d /\ lim <= b + bs /\ lim \in Nat /\ bs \in Nat
    BY <1>2, <1>3, <1>p
  <2> QED BY <2>1
<1>13. ar <=> d + 1 = lim
  <2>1. sn = a <=> d + 1 = b + bs
    BY <1>p, <1>s, BlockEnd
  <2>2. d + 1 = End(m) <=> eom
    BY <1>1, <1>4
  <2>3. d + 1 = lim <=> (d + 1 = End(m) \/ d + 1 = b + bs)
    <3>1. d + 1 <= End(m) /\ d + 1 <= b + bs
      BY <1>1, <1>4, <1>p
    <3>2. bs \in Nat /\ lim \in Nat /\ End(m) \in Nat
      BY <1>1, <1>2, <1>3
    <3> QED BY <1>3, <1>12, <3>1, <3>2
  <2> QED BY <1>6, <2>1, <2>2, <2>3, Zenon
<1>14. SenderInv'
  <2>1. txsn' = Ahead' % SNMod
    BY <1>5, <1>10, <1>s, SnOfSum, Zenon
  <2>2. Cur'.from <= base' /\ base' <= Cur'.from + tx_buf_ptr'
    BY <1>5, <1>8, <1>p, <1>q
  <2>3. Ahead' <= Limit' /\ (txState' = "TX_WAIT_AK" <=> Ahead' = Limit')
    BY <1>5, <1>9, <1>10, <1>12, <1>13
  <2>4. tx_buf_ptr' < Cur'.size /\ arsn' = ArSN(base')
    BY <1>5, <1>8, <1>p, <1>q, <1>s
  <2>5. base' <= got' /\ got' <= Limit'
    BY <1>9, <1>11, <1>q
  <2> QED BY <1>q, <2>1, <2>2, <2>3, <2>4, <2>5 DEF SenderInv
<1>15. DtInv'
  <2>1. f \in DtFrame /\ f.sn = sn /\ f.data = d /\ f.eom = eom
    BY <1>2, <1>6, <1>7 DEF DtFrame
  <2>2. /\ Len(dt) \in Nat
        /\ Len(dt') = Len(dt) \/ (Len(dt') = Len(dt) + 1 /\ dt'[Len(dt) + 1] = f)
        /\ \A k \in 1 .. Len(dt) : dt'[k] = dt[k]
    BY <1>5, <2>1, XmitElements
  <2>3. eom <=> IsEnd(accepted', d)
    <3>1. IsEnd(accepted', d) <=> d = End(m) - 1
      BY <1>4, <1>q, EndUnique
    <3> QED BY <1>4, <3>1
  <2>4. \A k \in 1 .. Len(dt) : dt[k].data \in Nat
    <3>1. \A k \in 1 .. Len(dt) : dt[k] \in DtFrame
      OBVIOUS
    <3> QED BY <3>1 DEF DtFrame
  <2>5. \A k \in 1 .. Len(dt') : k \in 1 .. Len(dt) \/ (k = Len(dt) + 1 /\ dt'[k] = f)
    BY <2>2
  <2>6. ASSUME NEW k \in 1 .. Len(dt')
        PROVE  /\ dt'[k].sn = dt'[k].data % SNMod
               /\ dt'[k].eom <=> IsEnd(accepted', dt'[k].data)
               /\ dt'[k].data < Limit' /\ got' <= dt'[k].data + bs
    <3>1. CASE k \in 1 .. Len(dt)
      <4>1. dt'[k] = dt[k] /\ dt[k].data \in Nat
        BY <2>2, <2>4, <3>1
      <4>2. /\ dt[k].sn = dt[k].data % SNMod /\ dt[k].data < Limit
            /\ dt[k].eom <=> IsEnd(accepted, dt[k].data)
            /\ got <= dt[k].data + bs
        BY <3>1 DEF DtInv
      <4>3. dt[k].data < Limit'
        BY <1>3, <1>9, <1>11, <4>1, <4>2
      <4>4. dt'[k].eom <=> IsEnd(accepted', dt'[k].data)
        BY <1>11, <4>1, <4>2
      <4> QED BY <1>q, <4>1, <4>2, <4>3, <4>4
    <3>2. CASE dt'[k] = f
      <4>1. d < Limit'
        BY <1>3, <1>9, <1>12
      <4>2. got' <= d + bs
        <5>1. got <= d + bs
          BY <1>2, <1>m, <1>n
        <5> QED BY <1>q, <5>1
      <4> QED BY <1>s, <2>1, <2>3, <3>2, <4>1, <4>2
    <3> QED BY <2>5, <3>1, <3>2
  <2>7. ASSUME NEW j \in 1 .. Len(dt'), NEW k \in 1 .. Len(dt'), j < k
        PROVE  dt'[j].data + 1 <= dt'[k].data + bs
    <3>1. j \in 1 .. Len(dt)
      BY <2>2, <2>7
    <3>2. dt'[j] = dt[j] /\ dt[j].data \in Nat
      BY <2>2, <2>4, <3>1
    <3>3. CASE k \in 1 .. Len(dt)
      <4>1. dt'[k] = dt[k]
        BY <2>2, <3>3
      <4> QED BY <2>7, <3>1, <3>2, <3>3, <4>1 DEF DtInv
    <3>4. CASE dt'[k] = f
      <4>1. dt[j].data < Limit
        BY <3>1 DEF DtInv
      <4> DEFINE x == dt[j].data
      <4>2. x \in Nat /\ x < Limit
        BY <3>2, <4>1
      <4> HIDE DEF x
      <4>4. x + 1 <= d + bs
        BY <1>2, <1>m, <1>n, <4>2
      <4> QED BY <2>1, <3>2, <3>4, <4>4 DEF x
    <3> QED BY <2>5, <3>3, <3>4
  <2> QED BY <2>6, <2>7 DEF DtInv
<1> QED BY <1>14, <1>15

----------------------------------------------------------------------------
(* What steps leave alone.                                                 *)

LEMMA ReceiverSame ==
  ASSUME StreamInv, RxInv, UNCHANGED <<accepted, rxVars>>
  PROVE  StreamInv' /\ RxInv'
BY DEF StreamInv, RxInv, rxVars, Total

LEMMA SenderSame ==
  ASSUME SenderInv, DtInv,
         UNCHANGED <<txState, txsn, arsn, tx_buf_ptr, base, accepted, done, got, dt>>
  PROVE  SenderInv' /\ DtInv'
<1>1. (Sending' <=> Sending) /\ Cur' = Cur /\ Total' = Total
  BY DEF Sending, Cur, Total
<1>2. Ahead' = Ahead /\ Limit' = Limit
  BY <1>1 DEF Ahead, Limit
<1> QED BY <1>1, <1>2 DEF SenderInv, DtInv

LEMMA AkSame ==
  ASSUME AkInv, UNCHANGED <<ak, base, got>>
  PROVE  AkInv'
BY DEF AkInv

\* The ACK at the head of the bus.
LEMMA AkHeadFacts ==
  ASSUME IInv, ak # <<>>
  PROVE  /\ Head(ak).upto \in Nat /\ Head(ak).sn = Head(ak).upto % SNMod
         /\ Head(ak).rs = TRUE
         /\ base <= Head(ak).upto /\ Head(ak).upto <= got
<1>1. ak \in Seq(AkFrame) /\ AkInv
  BY DEF IInv, TypeInv, BusTypes
<1>2. Head(ak) = ak[1] /\ Head(ak) \in AkFrame /\ 1 \in 1 .. Len(ak)
  BY <1>1, TailElements
<1> QED BY <1>1, <1>2 DEF AkInv, AkFrame

\* The head leaves the bus and the block does not start behind it.
LEMMA AkTail ==
  ASSUME IInv, ak # <<>>, ak' = Tail(ak), got' = got,
         base' \in Nat, base' <= Head(ak).upto
  PROVE  AkInv'
<1>1. ak \in Seq(AkFrame) /\ AkInv
  BY DEF IInv, TypeInv, BusTypes
<1>2. /\ Len(ak) \in Nat \ {0} /\ Len(ak') = Len(ak) - 1
      /\ \A k \in 1 .. Len(ak') : ak'[k] = ak[k + 1] /\ k + 1 \in 1 .. Len(ak)
      /\ Head(ak) = ak[1] /\ 1 \in 1 .. Len(ak)
  BY <1>1, TailElements
<1>3. \A k \in 1 .. Len(ak) : ak[k].upto \in Nat
  <2>1. \A k \in 1 .. Len(ak) : ak[k] \in AkFrame
    BY <1>1
  <2> QED BY <2>1 DEF AkFrame
<1>4. ASSUME NEW k \in 1 .. Len(ak')
      PROVE  /\ ak'[k].sn = ak'[k].upto % SNMod /\ ak'[k].rs = TRUE
             /\ base' <= ak'[k].upto /\ ak'[k].upto <= got'
  <2>1. ak'[k] = ak[k + 1] /\ k + 1 \in 1 .. Len(ak) /\ 1 < k + 1
    BY <1>2
  <2>2. /\ ak[k + 1].sn = ak[k + 1].upto % SNMod /\ ak[k + 1].rs = TRUE
        /\ ak[k + 1].upto <= got
    BY <1>1, <2>1 DEF AkInv
  <2>3. ak[1].upto <= ak[k + 1].upto
    BY <1>1, <1>2, <2>1 DEF AkInv
  <2>4. base' <= ak[k + 1].upto
    BY <1>2, <1>3, <2>1, <2>3
  <2> QED BY <2>1, <2>2, <2>4
<1>5. ASSUME NEW j \in 1 .. Len(ak'), NEW k \in 1 .. Len(ak'), j < k
      PROVE  ak'[j].upto <= ak'[k].upto
  <2>1. ak'[j] = ak[j + 1] /\ ak'[k] = ak[k + 1] /\ j + 1 < k + 1
        /\ j + 1 \in 1 .. Len(ak) /\ k + 1 \in 1 .. Len(ak)
    BY <1>2, <1>5
  <2> QED BY <1>1, <2>1 DEF AkInv
<1> QED BY <1>4, <1>5 DEF AkInv

----------------------------------------------------------------------------
(* The sender's steps.                                                     *)

\* The ACK that answers the last frame says that everything was stored.
LEMMA AckMeansStored ==
  ASSUME IInv, ak # <<>>, txState = "TX_WAIT_AK"
  PROVE  /\ Sending /\ Ahead = Limit
         /\ AckMatches => Head(ak).upto = Ahead /\ got = Ahead
         /\ ~AckMatches => /\ Head(ak).upto < Ahead
                           /\ LostSegments(Head(ak).sn) = Ahead - Head(ak).upto - 1
<1> DEFINE u == Head(ak).upto
<1>1. Sending
  BY DEF Sending
<1>2. Ahead = Limit /\ txsn = Ahead % SNMod
  BY <1>1 DEF IInv, SenderInv
<1>3. u \in Nat /\ Head(ak).sn = u % SNMod /\ base <= u /\ u <= got
  BY AkHeadFacts
<1>4. /\ Ahead \in Nat /\ got \in Nat /\ base \in Nat /\ bs \in Nat
      /\ got <= Limit /\ Limit <= base + bs
  BY PositionFacts
<1> HIDE DEF u
<1>5. u <= Ahead /\ Ahead <= u + bs /\ u <= Ahead + bs
  BY <1>2, <1>3, <1>4
<1>6. ASSUME AckMatches PROVE u = Ahead /\ got = Ahead
  <2>1. u % SNMod = Ahead % SNMod
    BY <1>2, <1>3, <1>6 DEF AckMatches
  <2>2. u = Ahead
    BY <1>3, <1>4, <1>5, <2>1, SnDistinct
  <2> QED BY <1>2, <1>3, <1>4, <2>2
<1>7. ASSUME ~AckMatches PROVE u < Ahead /\ LostSegments(Head(ak).sn) = Ahead - u - 1
  <2>1. u # Ahead
    BY <1>2, <1>3, <1>7 DEF AckMatches
  <2>2. u < Ahead
    BY <1>3, <1>4, <1>5, <2>1
  <2>3. LostSegments(u % SNMod) = Ahead - u - 1
    BY <1>2, <1>3, <1>4, <1>5, <2>2, StepsBack
  <2> QED BY <1>3, <2>2, <2>3
<1> QED BY <1>1, <1>2, <1>6, <1>7 DEF u

LEMMA StepAckIgnored == IInv /\ AckIgnored => IInv'
<1> SUFFICES ASSUME IInv, AckIgnored PROVE IInv'
  OBVIOUS
<1>1. ak # <<>> /\ ak' = Tail(ak) /\ UNCHANGED <<txVars, accepted, done, rxVars, dt>>
  BY DEF AckIgnored
<1>2. TypeInv'
  BY TypeStep DEF IInv, Next, TxData
<1>3. StreamInv' /\ RxInv'
  BY <1>1, ReceiverSame DEF IInv
<1>4. SenderInv' /\ DtInv'
  BY <1>1, SenderSame DEF IInv, txVars, rxVars
<1>5. AkInv'
  <2>1. base' = base /\ got' = got /\ base \in Nat
    BY <1>1, PositionFacts DEF txVars, rxVars
  <2> QED BY <1>1, <2>1, AkHeadFacts, AkTail
<1> QED BY <1>2, <1>3, <1>4, <1>5 DEF IInv

LEMMA StepAckNotReady == IInv /\ AckNotReady => FALSE
BY AkHeadFacts DEF AckNotReady, AckArrives

LEMMA StepAckNextBlock == IInv /\ AckNextBlock => IInv'
<1> SUFFICES ASSUME IInv, AckNextBlock PROVE IInv'
  OBVIOUS
<1> DEFINE m == Cur  p == tx_buf_ptr + 1  i == done + 1
<1>1. /\ ak # <<>> /\ ak' = Tail(ak) /\ txState = "TX_WAIT_AK" /\ AckMatches
      /\ p < m.size /\ base' = BlockAt(p)
      /\ SendTpData(m, p, txsn, ArSN(txsn))
      /\ UNCHANGED <<accepted, done, con, rxVars>>
  BY DEF AckNextBlock, AckArrives, Cur
<1>2. TypeInv'
  BY TypeStep DEF IInv, Next, TxData
<1>3. StreamInv' /\ RxInv'
  BY <1>1, ReceiverSame DEF IInv
<1>4. Sending /\ Ahead = Limit /\ Head(ak).upto = Ahead /\ got = Ahead
  BY <1>1, AckMeansStored
<1>5. /\ m \in Message /\ i \in 1 .. Len(accepted) /\ Ahead = m.from + p
      /\ Ahead \in Nat /\ bs \in Nat \ {0} /\ p \in Nat /\ m.from \in Nat
      /\ m.size \in Nat /\ End(m) = m.from + m.size
  <2>1. /\ m \in Message /\ i \in 1 .. Len(accepted) /\ Ahead = m.from + tx_buf_ptr + 1
        /\ Ahead \in Nat /\ bs \in Nat \ {0}
    BY <1>4, PositionFacts
  <2>2. tx_buf_ptr \in Nat
    BY DEF IInv, TypeInv, TxTypes
  <2>3. m.from \in Nat /\ m.size \in Nat /\ End(m) = m.from + m.size
    BY <2>1, EndFacts
  <2> HIDE DEF m, i
  <2> QED BY <2>1, <2>2, <2>3
<1>6. base' = Ahead /\ txsn = Ahead % SNMod /\ ArSN(txsn) = ArSN(Ahead)
  <2>1. base' = m.from + p
    BY <1>1 DEF BlockAt, Cur
  <2>2. txsn = Ahead % SNMod
    BY DEF IInv, SenderInv
  <2> QED BY <1>5, <2>1, <2>2, SnOfSum, Zenon
<1>7. AkInv'
  BY <1>1, <1>4, <1>5, <1>6, AkTail DEF rxVars
<1>8. SenderInv' /\ DtInv'
  <2>1. Sending'
    BY <1>1 DEF SendTpData, Sending
  <2>2. StreamOK(accepted') /\ got' = got /\ accepted' = accepted /\ done' + 1 = i
        /\ m = accepted'[i]
    BY <1>1 DEF IInv, StreamInv, rxVars, Cur
  <2>3. Ahead <= LimitOf(Ahead, m)
    <3>1. Ahead <= End(m)
      BY <1>1, <1>5
    <3> QED BY <1>5, <3>1 DEF LimitOf
  <2>4. Ahead <= Ahead /\ Ahead + 1 <= Ahead + bs /\ m.from <= Ahead
    BY <1>5
  <2>5. SendsAt(i, p, Ahead, Ahead, txsn, ArSN(txsn))
    <3> HIDE DEF m, p, i
    <3> QED BY <1>1, <1>4, <1>5, <1>6, <2>1, <2>2, <2>3, <2>4 DEF SendsAt
  <2>6. dt \in Seq(DtFrame) /\ DtInv /\ Limit \in Nat /\ got \in Nat
    BY <1>4, <1>5 DEF IInv, TypeInv, BusTypes
  <2> HIDE DEF m, p, i
  <2> QED BY <1>5, <2>2, <2>5, <2>6, SendStep
<1> QED BY <1>2, <1>3, <1>7, <1>8 DEF IInv

LEMMA StepAckComplete == IInv /\ AckComplete => IInv'
<1> SUFFICES ASSUME IInv, AckComplete PROVE IInv'
  OBVIOUS
<1> DEFINE m == Cur  n == accepted[done + 2]  i == done + 2
<1>1. /\ ak # <<>> /\ ak' = Tail(ak) /\ txState = "TX_WAIT_AK" /\ AckMatches
      /\ tx_buf_ptr + 1 >= m.size /\ done' = done + 1
      /\ UNCHANGED <<accepted, con, rxVars>>
  BY DEF AckComplete, AckArrives, Cur
<1>2. TypeInv'
  BY TypeStep DEF IInv, Next, TxData
<1>3. StreamInv' /\ RxInv' /\ StreamInv
  BY <1>1, ReceiverSame DEF IInv
<1>4. Sending /\ Ahead = Limit /\ Head(ak).upto = Ahead /\ got = Ahead
  BY <1>1, AckMeansStored
<1>5. /\ m \in Message /\ done + 1 \in 1 .. Len(accepted)
      /\ Ahead = m.from + tx_buf_ptr + 1 /\ Ahead \in Nat /\ bs \in Nat \ {0}
      /\ Ahead <= End(m) /\ tx_buf_ptr \in Nat
  BY <1>4, PositionFacts DEF IInv, TypeInv, TxTypes
<1>s. txsn = Ahead % SNMod
  BY DEF IInv, SenderInv
<1>6. m.from \in Nat /\ m.size \in Nat /\ End(m) = m.from + m.size
  BY <1>5, EndFacts
<1>7. Ahead = End(m)
  <2>1. tx_buf_ptr + 1 >= m.size
    BY <1>1
  <2> HIDE DEF m
  <2> QED BY <1>5, <1>6, <2>1
<1>d. done \in Nat /\ Len(accepted) \in Nat
  BY QueueFacts DEF IInv, TypeInv
<1>8. CASE ~MoreQueued
  <2>1. /\ txState' = "TX_IDLE" /\ base' = m.from + m.size /\ txsn' = txsn /\ dt' = dt
    BY <1>8 DEF AckComplete, Cur
  <2>2. ~Sending' /\ base' = Ahead /\ got' = got
    BY <1>1, <1>6, <1>7, <2>1 DEF Sending, rxVars
  <2>3. Total' = Ahead
    <3>1. done + 1 = Len(accepted) /\ accepted # <<>>
      BY <1>5, <1>8, <1>d DEF MoreQueued
    <3>2. End(accepted[Len(accepted)]) = Total
      BY <1>3, <3>1, TotalFacts
    <3>3. Total' = Total
      BY <1>1 DEF Total
    <3> QED BY <1>7, <3>1, <3>2, <3>3 DEF Cur
  <2>4. Ahead' = Ahead /\ Limit' = Ahead
    BY <2>2 DEF Ahead, Limit
  <2>5. SenderInv'
    <3>1. txsn' = Ahead' % SNMod
      BY <1>s, <2>1, <2>4
    <3>2. base' <= got' /\ got' <= Limit' /\ base' = Total'
      <4>1. Ahead <= Ahead
        BY <1>5
      <4> QED BY <1>4, <2>2, <2>3, <2>4, <4>1
    <3> QED BY <2>2, <3>1, <3>2 DEF SenderInv
  <2>6. DtInv'
    BY <1>1, <1>4, <2>1, <2>2, <2>4 DEF IInv, DtInv
  <2>7. AkInv'
    <3>1. base' \in Nat /\ base' <= Head(ak).upto
      BY <1>4, <1>5, <2>2
    <3> QED BY <1>1, <2>2, <3>1, AkTail
  <2> QED BY <1>2, <1>3, <2>5, <2>6, <2>7 DEF IInv
<1>9. CASE MoreQueued
  <2>1. SendTpData(n, 0, txsn, ArSN(txsn)) /\ base' = n.from
    BY <1>9 DEF AckComplete, TxWakeup
  <2>2. i \in 1 .. Len(accepted) /\ n \in Message /\ done' + 1 = i
    <3>1. i \in 1 .. Len(accepted) /\ done' + 1 = i
      BY <1>1, <1>9, <1>d DEF MoreQueued
    <3> QED BY <1>3, <3>1 DEF StreamInv, StreamOK
  <2>3. n.from = Ahead
    <3>1. done + 1 < Len(accepted) /\ (done + 1) + 1 = done + 2
      BY <1>9, <1>d DEF MoreQueued
    <3>2. accepted[(done + 1) + 1].from = End(accepted[done + 1])
      BY <1>3, <1>5, <3>1 DEF StreamInv, StreamOK
    <3> QED BY <1>7, <3>1, <3>2 DEF Cur
  <2>4. n.size \in Nat \ {0} /\ End(n) = Ahead + n.size
    BY <2>2, <2>3, EndFacts
  <2>5. Sending'
    BY <2>1 DEF SendTpData, Sending
  <2>6. ArSN(txsn) = ArSN(Ahead)
    BY <1>5, <1>s, SnOfSum, Zenon
  <2>7. AkInv'
    BY <1>1, <1>4, <1>5, <2>1, <2>3, AkTail DEF rxVars
  <2>8. StreamOK(accepted') /\ got' = got /\ accepted' = accepted
        /\ n = accepted'[i] /\ i \in 1 .. Len(accepted')
    BY <1>1, <1>3, <2>2 DEF StreamInv, rxVars
  <2>9. Ahead <= LimitOf(Ahead, n)
    BY <1>5, <2>4 DEF LimitOf
  <2>10. /\ 0 < n.size /\ Ahead = n.from + 0 /\ n.from <= Ahead
         /\ Ahead <= Ahead /\ Ahead + 1 <= Ahead + bs
    BY <1>5, <2>3, <2>4
  <2>11. SendsAt(i, 0, Ahead, Ahead, txsn, ArSN(txsn))
    <3> HIDE DEF n, i
    <3> QED BY <1>4, <1>5, <1>s, <2>1, <2>2, <2>3, <2>5, <2>6, <2>8, <2>9, <2>10 DEF SendsAt
  <2>12. dt \in Seq(DtFrame) /\ DtInv /\ Limit \in Nat /\ got \in Nat
    BY <1>4, <1>5 DEF IInv, TypeInv, BusTypes
  <2>13. SenderInv' /\ DtInv'
    <3> HIDE DEF n, i
    <3> QED BY <1>5, <2>2, <2>8, <2>11, <2>12, SendStep
  <2> QED BY <1>2, <1>3, <2>7, <2>13 DEF IInv
<1> QED BY <1>8, <1>9

LEMMA StepAckWrongSN == IInv /\ AckWrongSN => IInv'
<1> SUFFICES ASSUME IInv, AckWrongSN PROVE IInv'
  OBVIOUS
<1> DEFINE m == Cur  i == done + 1  u == Head(ak).upto  sn == Head(ak).sn
<1>1. /\ ak # <<>> /\ ak' = Tail(ak) /\ txState = "TX_WAIT_AK" /\ ~AckMatches
      /\ UNCHANGED <<accepted, done, rxVars>>
  BY DEF AckWrongSN, AckArrives
<1>2. TypeInv'
  BY TypeStep DEF IInv, Next, TxData
<1>3. StreamInv' /\ RxInv' /\ got' = got
  BY <1>1, ReceiverSame DEF IInv, rxVars
<1>4. /\ Sending /\ Ahead = Limit /\ u < Ahead
      /\ LostSegments(sn) = Ahead - u - 1
  BY <1>1, AckMeansStored
<1>5. u \in Nat /\ base <= u /\ u <= got
  BY <1>1, AkHeadFacts
<1>s. sn = u % SNMod
  BY <1>1, AkHeadFacts
<1>6. /\ m \in Message /\ i \in 1 .. Len(accepted) /\ base \in Nat /\ got \in Nat
      /\ Ahead = m.from + tx_buf_ptr + 1 /\ Ahead \in Nat /\ bs \in Nat \ {0}
      /\ Limit = LimitOf(base, m) /\ got <= Limit /\ Limit <= base + bs
      /\ Limit <= End(m)
  BY <1>4, PositionFacts
<1>7. tx_buf_ptr \in Nat /\ tx_buf_ptr < m.size /\ m.from <= base
  BY <1>4 DEF IInv, TypeInv, TxTypes, SenderInv
<1>8. CASE TooManyBlockErrors /\ UNCHANGED <<txState, dt>>
  <2>1. UNCHANGED <<base, txsn, arsn, tx_buf_ptr, txState, dt>>
    BY <1>8 DEF TooManyBlockErrors
  <2>2. SenderInv' /\ DtInv'
    BY <1>1, <1>3, <2>1, SenderSame DEF IInv
  <2>3. AkInv'
    <3>1. base' \in Nat /\ base' <= Head(ak).upto
      BY <1>5, <1>6, <2>1
    <3> QED BY <1>1, <1>3, <3>1, AkTail
  <2> QED BY <1>2, <1>3, <2>2, <2>3 DEF IInv
<1>9. CASE GoBack(sn) /\ SendTpData(m, AdjustedPtr(sn), sn, ArSN(sn))
  <2> DEFINE p == AdjustedPtr(sn)  from == m.from  size == m.size
             lost == LostSegments(sn)
  <2>1. from \in Nat /\ size \in Nat /\ End(m) = from + size
    BY <1>6, EndFacts
  <2>2. p = (IF tx_buf_ptr >= lost THEN tx_buf_ptr - lost ELSE 0) /\ base' = from + p
    BY <1>9 DEF AdjustedPtr, GoBack, BlockAt, Cur
  <2>3. p \in Nat /\ u = from + p /\ p <= tx_buf_ptr
    <3>a. Ahead = from + tx_buf_ptr + 1 /\ from <= base
      BY <1>6, <1>7
    <3>b. lost = Ahead - u - 1
      BY <1>4
    <3> HIDE DEF p, from, size, lost, u, sn, m
    <3>1. tx_buf_ptr >= lost /\ tx_buf_ptr - lost = u - from /\ u >= from
          /\ u - from <= tx_buf_ptr
      BY <1>4, <1>5, <1>6, <1>7, <2>1, <3>a, <3>b
    <3>2. p = u - from
      BY <2>2, <3>1
    <3> QED BY <1>5, <2>1, <3>1, <3>2
  <2>4. base' = u /\ p < size /\ from <= u /\ u + 1 <= u + bs
    <3>1. tx_buf_ptr < size /\ tx_buf_ptr \in Nat
      BY <1>7
    <3>2. bs \in Nat \ {0}
      BY <1>6
    <3> HIDE DEF p, from, size, lost, u, sn, m
    <3>3. base' = u
      BY <2>2, <2>3
    <3>4. p < size /\ from <= u /\ u + 1 <= u + bs
      BY <1>5, <2>1, <2>3, <3>1, <3>2
    <3> QED BY <3>3, <3>4
  <2>5. got <= LimitOf(u, m) /\ Limit <= LimitOf(u, m)
    <3>1. LimitOf(u, m) = IF u + bs < End(m) THEN u + bs ELSE End(m)
      BY DEF LimitOf
    <3>2. Limit \in Nat /\ End(m) \in Nat /\ Limit <= End(m) /\ got <= Limit
          /\ Limit <= base + bs /\ base \in Nat /\ bs \in Nat /\ got \in Nat
      BY <1>4, <1>6, EndFacts
    <3> HIDE DEF u, m
    <3>3. Limit <= u + bs
      BY <1>5, <3>2
    <3>4. Limit <= LimitOf(u, m) /\ LimitOf(u, m) \in Nat
      BY <1>5, <3>1, <3>2, <3>3
    <3> QED BY <3>2, <3>4
  <2>6. Sending' /\ ArSN(sn) = ArSN(u)
    <3>1. Sending'
      BY <1>9 DEF SendTpData, Sending
    <3> QED BY <1>5, <1>s, <3>1, SnOfSum, Zenon
  <2>7. StreamOK(accepted') /\ accepted' = accepted /\ done' + 1 = i /\ m = accepted'[i]
    BY <1>1, <1>3 DEF StreamInv, Cur
  <2>8. AkInv'
    <3>1. base' \in Nat /\ base' <= Head(ak).upto
      BY <1>5, <2>4
    <3> QED BY <1>1, <1>3, <3>1, AkTail
  <2>9. SendTpData(m, p, sn, ArSN(sn)) /\ p < m.size /\ u = m.from + p /\ m.from <= u
    BY <1>9, <2>3, <2>4
  <2>10. SendsAt(i, p, u, u, sn, ArSN(sn))
    <3>1. u <= u
      BY <1>5
    <3> HIDE DEF m, p, i, u, sn, from, size, lost
    <3> QED BY <1>3, <1>5, <1>s, <2>4, <2>5, <2>6, <2>7, <2>9, <3>1 DEF SendsAt
  <2>11. dt \in Seq(DtFrame) /\ DtInv /\ Limit \in Nat
    BY <1>4, <1>6 DEF IInv, TypeInv, BusTypes
  <2>12. SenderInv' /\ DtInv'
    <3> HIDE DEF m, p, i, u, sn, from, size, lost
    <3> QED BY <1>5, <1>6, <2>3, <2>7, <2>10, <2>11, SendStep
  <2> QED BY <1>2, <1>3, <2>8, <2>12 DEF IInv
<1> QED BY <1>8, <1>9 DEF AckWrongSN, Cur

LEMMA StepTimerResend == IInv /\ TimerResend => IInv'
<1> SUFFICES ASSUME IInv, TimerResend PROVE IInv'
  OBVIOUS
<1> DEFINE m == Cur  i == done + 1  d == m.from + tx_buf_ptr
           sn == IF txsn = 0 THEN SNMod - 1 ELSE txsn - 1
<1>1. /\ Sending /\ SendTpData(m, tx_buf_ptr, sn, arsn)
      /\ UNCHANGED <<base, accepted, done, con, rxVars, ak>>
  BY DEF TimerResend, Sending, Cur
<1>2. TypeInv'
  BY TypeStep DEF IInv, Next, TxTimer
<1>3. StreamInv' /\ RxInv' /\ got' = got
  BY <1>1, ReceiverSame DEF IInv, rxVars
<1>4. AkInv'
  BY <1>1, <1>3, AkSame DEF IInv
<1>5. /\ m \in Message /\ i \in 1 .. Len(accepted) /\ base \in Nat /\ got \in Nat
      /\ Ahead = m.from + tx_buf_ptr + 1 /\ Ahead \in Nat /\ Limit \in Nat
      /\ Ahead <= Limit /\ Limit = LimitOf(base, m) /\ base <= got /\ got <= Limit
      /\ Limit <= base + bs /\ bs \in Nat
  BY <1>1, PositionFacts
<1>6. /\ tx_buf_ptr \in Nat /\ tx_buf_ptr < m.size /\ m.from <= base
      /\ base <= m.from + tx_buf_ptr /\ arsn = ArSN(base) /\ txsn = Ahead % SNMod
  BY <1>1 DEF IInv, TypeInv, TxTypes, SenderInv
<1>7. d \in Nat /\ Ahead = d + 1 /\ base <= d /\ d + 1 <= base + bs
  <2>1. m.from \in Nat
    BY <1>5, EndFacts
  <2> HIDE DEF m
  <2> QED BY <1>5, <1>6, <2>1
<1>8. sn = d % SNMod
  <2>1. txsn = (d + 1) % SNMod
    BY <1>6, <1>7
  <2> HIDE DEF d
  <2> QED BY <1>7, <2>1, SnBefore
<1>9. Sending' /\ StreamOK(accepted') /\ accepted' = accepted /\ done' + 1 = i
      /\ m = accepted'[i] /\ base' = base /\ Limit <= Limit
  BY <1>1, <1>3, <1>5 DEF StreamInv, Cur, SendTpData, Sending
<1>10. SendsAt(i, tx_buf_ptr, base, d, sn, arsn)
  <2>1. d = m.from + tx_buf_ptr
    OBVIOUS
  <2> HIDE DEF m, i, d, sn
  <2> QED BY <1>1, <1>3, <1>5, <1>6, <1>7, <1>8, <1>9, <2>1 DEF SendsAt
<1>11. dt \in Seq(DtFrame) /\ DtInv
  BY DEF IInv, TypeInv, BusTypes
<1>12. SenderInv' /\ DtInv'
  <2> HIDE DEF m, i, d, sn
  <2> QED BY <1>5, <1>6, <1>7, <1>9, <1>10, <1>11, SendStep
<1> QED BY <1>2, <1>3, <1>4, <1>12 DEF IInv

LEMMA StepTimerGiveUp == IInv /\ TimerGiveUp => IInv'
<1> SUFFICES ASSUME IInv, TimerGiveUp PROVE IInv'
  OBVIOUS
<1>1. UNCHANGED <<txState, txsn, arsn, tx_buf_ptr, base, accepted, done, rxVars, dt, ak>>
  BY DEF TimerGiveUp
<1>2. TypeInv'
  BY TypeStep DEF IInv, Next, TxTimer
<1>3. StreamInv' /\ RxInv' /\ got' = got
  BY <1>1, ReceiverSame DEF IInv, rxVars
<1>4. SenderInv' /\ DtInv'
  BY <1>1, <1>3, SenderSame DEF IInv
<1>5. AkInv'
  BY <1>1, <1>3, AkSame DEF IInv
<1> QED BY <1>2, <1>3, <1>4, <1>5 DEF IInv

LEMMA StepTimerNextSegment == IInv /\ TimerNextSegment => IInv'
<1> SUFFICES ASSUME IInv, TimerNextSegment PROVE IInv'
  OBVIOUS
<1> DEFINE m == Cur  i == done + 1  p == tx_buf_ptr + 1
<1>1. /\ Sending /\ SendTpData(m, p, txsn, arsn) /\ txState # "TX_WAIT_AK"
      /\ UNCHANGED <<base, accepted, done, con, rxVars, ak>>
  BY DEF TimerNextSegment, Sending, Cur
<1>2. TypeInv'
  BY TypeStep DEF IInv, Next, TxTimer
<1>3. StreamInv' /\ RxInv' /\ got' = got
  BY <1>1, ReceiverSame DEF IInv, rxVars
<1>4. AkInv'
  BY <1>1, <1>3, AkSame DEF IInv
<1>5. /\ m \in Message /\ i \in 1 .. Len(accepted) /\ base \in Nat /\ got \in Nat
      /\ Ahead = m.from + tx_buf_ptr + 1 /\ Ahead \in Nat /\ Limit \in Nat
      /\ Ahead <= Limit /\ Limit = LimitOf(base, m) /\ base <= got /\ got <= Limit
      /\ Limit <= base + bs /\ bs \in Nat /\ base <= Ahead /\ Limit <= End(m)
  BY <1>1, PositionFacts
<1>6. /\ tx_buf_ptr \in Nat /\ m.from <= base
      /\ arsn = ArSN(base) /\ Ahead # Limit
  BY <1>1 DEF IInv, TypeInv, TxTypes, SenderInv
<1>s. txsn = Ahead % SNMod
  BY DEF IInv, SenderInv
<1>7. /\ p \in Nat /\ p < m.size /\ Ahead = m.from + p /\ Ahead + 1 <= base + bs
  <2> DEFINE from == m.from  size == m.size
  <2>1. from \in Nat /\ size \in Nat /\ End(m) = from + size
        /\ Ahead = from + tx_buf_ptr + 1 /\ tx_buf_ptr \in Nat
    BY <1>5, <1>6, EndFacts
  <2>2. Ahead < Limit /\ Limit <= base + bs /\ Limit <= End(m)
        /\ Ahead \in Nat /\ Limit \in Nat /\ base \in Nat /\ bs \in Nat
    BY <1>5, <1>6
  <2> HIDE DEF m, from, size
  <2>3. p \in Nat /\ Ahead = from + p
    BY <2>1
  <2>4. p < size
    BY <2>1, <2>2, <2>3
  <2>5. Ahead + 1 <= base + bs
    BY <2>2
  <2> QED BY <2>3, <2>4, <2>5 DEF from, size
<1>9. Sending' /\ StreamOK(accepted') /\ accepted' = accepted /\ done' + 1 = i
      /\ m = accepted'[i] /\ base' = base /\ Limit <= Limit
  BY <1>1, <1>3, <1>5 DEF StreamInv, Cur, SendTpData, Sending
<1>10. SendsAt(i, p, base, Ahead, txsn, arsn)
  <2> HIDE DEF m, i, p
  <2> QED BY <1>1, <1>3, <1>5, <1>6, <1>7, <1>9, <1>s DEF SendsAt
<1>11. dt \in Seq(DtFrame) /\ DtInv
  BY DEF IInv, TypeInv, BusTypes
<1>12. SenderInv' /\ DtInv'
  <2> HIDE DEF m, i, p
  <2> QED BY <1>5, <1>7, <1>9, <1>10, <1>11, SendStep
<1> QED BY <1>2, <1>3, <1>4, <1>12 DEF IInv

LEMMA StepSendMsg ==
  ASSUME IInv, NEW size \in Sizes, SendMsg(size)
  PROVE  IInv'
<1> DEFINE m == [from |-> Total, size |-> size]  n == Len(accepted)
<1>1. /\ accepted' = Append(accepted, m) /\ UNCHANGED <<done, con, rxVars, ak>>
      /\ \/ txState = "TX_IDLE" /\ TxWakeup(accepted'[done + 1], txsn)
         \/ txState # "TX_IDLE" /\ UNCHANGED <<txVars, dt>>
  BY DEF SendMsg
<1>2. TypeInv'
  BY TypeStep DEF IInv, Next
<1>3. StreamInv /\ SenderInv /\ DtInv /\ AkInv /\ RxInv /\ QueueTypes
  BY DEF IInv, TypeInv
<1>4. /\ base \in Nat /\ got \in Nat /\ Ahead \in Nat /\ Limit \in Nat
      /\ Total \in Nat /\ Limit <= Total /\ bs \in Nat \ {0}
      /\ base <= got /\ got <= Limit
  BY PositionFacts
<1>5. m \in Message /\ m.from = Total /\ m.size = size /\ size \in Nat \ {0}
  BY <1>4, ParmAssumption DEF Message
<1>6. done \in Nat /\ n \in Nat /\ done <= n /\ (Sending <=> done < n)
  BY <1>3, QueueFacts DEF QueueTypes
<1> HIDE DEF m
<1>7. /\ StreamOK(accepted')
      /\ Len(accepted') = n + 1 /\ accepted'[n + 1] = m
      /\ \A i \in 1 .. n : accepted'[i] = accepted[i]
      /\ \A d \in Nat : d < Total => (IsEnd(accepted', d) <=> IsEnd(accepted, d))
  <2>1. accepted' = Append(accepted, m)
    BY <1>1
  <2> DEFINE q == accepted'
  <2>2. StreamInv /\ m \in Message /\ m.from = Total /\ q = Append(accepted, m)
    BY <1>3, <1>5, <2>1
  <2> HIDE DEF q
  <2>3. /\ StreamOK(q) /\ Len(q) = Len(accepted) + 1 /\ q[Len(accepted) + 1] = m
        /\ \A i \in 1 .. Len(accepted) : q[i] = accepted[i]
        /\ \A d \in Nat : d < Total => (IsEnd(q, d) <=> IsEnd(accepted, d))
    BY <2>2, StreamGrows
  <2> QED BY <2>3 DEF q
<1> HIDE DEF n
<1>8. StreamInv'
  BY <1>7 DEF StreamInv
<1>9. RxInv'
  <2> DEFINE k == Len(delivered)
  <2>1. UNCHANGED <<rxState, rx_buf, rx_buf_size, rxsn, got, delivered>>
    BY <1>1 DEF rxVars
  <2>2. /\ rxState = "RX_RECEIVE" /\ rx_buf_size = RxSize /\ rxsn = got % SNMod
        /\ k <= n /\ \A i \in 1 .. k : delivered[i] = Segments(accepted[i])
    BY <1>3 DEF RxInv, n
  <2>3. k \in Nat
    BY DEF IInv, TypeInv, RxTypes
  <2>4. \A i \in 1 .. k : delivered[i] = Segments(accepted'[i])
    <3>1. \A i \in 1 .. k : i \in 1 .. n
      BY <1>6, <2>2, <2>3
    <3> QED BY <1>7, <2>2, <3>1
  <2>5. k < n + 1 /\ k # n + 1
    BY <1>6, <2>2, <2>3
  <2>6. LET a == accepted'[k + 1] IN
          /\ a.from <= got /\ got < End(a)
          /\ rx_buf = [j \in 1 .. (got - a.from) |-> a.from + j - 1]
    <3>1. CASE k = n
      <4>1. rx_buf = <<>> /\ got = Total
        BY <1>3, <3>1 DEF RxInv, n
      <4>2. accepted'[k + 1] = m /\ End(m) = Total + size
        BY <1>5, <1>7, <3>1 DEF End
      <4>3. m.from = got /\ got - m.from = 0 /\ got < End(m) /\ m.from <= got
        BY <1>4, <1>5, <4>1, <4>2
      <4>4. <<>> = [j \in 1 .. 0 |-> m.from + j - 1]
        OBVIOUS
      <4>5. rx_buf = [j \in 1 .. (got - m.from) |-> m.from + j - 1]
        BY <4>1, <4>3, <4>4
      <4> QED BY <4>2, <4>3, <4>5
    <3>2. CASE k < n
      <4>1. accepted'[k + 1] = accepted[k + 1]
        BY <1>6, <1>7, <2>3, <3>2
      <4>2. LET a == accepted[k + 1] IN
              /\ a.from <= got /\ got < End(a)
              /\ rx_buf = [j \in 1 .. (got - a.from) |-> a.from + j - 1]
        BY <1>3, <3>2 DEF RxInv, n
      <4> QED BY <4>1, <4>2
    <3>3. k = n \/ k < n
      BY <1>6, <2>2, <2>3
    <3> QED BY <3>1, <3>2, <3>3
  <2> HIDE DEF k
  <2>7. k' = k /\ k' = Len(delivered')
    BY <2>1 DEF k
  <2>8. Len(delivered') <= Len(accepted') /\ Len(delivered') # Len(accepted')
    BY <1>6, <1>7, <2>3, <2>5, <2>7
  <2>9. \A i \in 1 .. Len(delivered') : delivered'[i] = Segments(accepted'[i])
    BY <2>1, <2>4 DEF k
  <2>10. LET a == accepted'[Len(delivered') + 1] IN
          /\ a.from <= got' /\ got' < End(a)
          /\ rx_buf' = [j \in 1 .. (got' - a.from) |-> a.from + j - 1]
    BY <2>1, <2>6, <2>7
  <2>11. rxState' = "RX_RECEIVE" /\ rx_buf_size' = RxSize /\ rxsn' = got' % SNMod
    BY <2>1, <2>2
  <2> QED BY <2>8, <2>9, <2>10, <2>11 DEF RxInv
<1>10. CASE txState = "TX_IDLE" /\ TxWakeup(accepted'[done + 1], txsn)
  <2>1. done = n /\ base = Total /\ Limit = Total /\ Ahead = Total /\ ~Sending
    <3>1. ~Sending
      BY <1>10 DEF Sending
    <3> QED BY <1>3, <1>6, <3>1 DEF SenderInv, Limit, Ahead
  <2>2. /\ accepted'[done + 1] = m /\ SendTpData(m, 0, txsn, ArSN(txsn))
        /\ base' = Total
    BY <1>5, <1>7, <1>10, <2>1 DEF TxWakeup
  <2>3. Sending'
    BY <2>2 DEF SendTpData, Sending
  <2>4. txsn = Total % SNMod /\ ArSN(txsn) = ArSN(Total)
    <3>1. txsn = Total % SNMod
      BY <1>3, <2>1 DEF SenderInv
    <3> QED BY <1>4, <3>1, SnOfSum, Zenon
  <2>5. got = Total
    BY <1>4, <2>1
  <2>6. Total <= LimitOf(Total, m) /\ Total <= Total /\ Total + 1 <= Total + bs
        /\ 0 < m.size /\ Total = Total + 0
    <3>1. End(m) = Total + size
      BY <1>5 DEF End
    <3> QED BY <1>4, <1>5, <3>1 DEF LimitOf
  <2>7. n + 1 \in 1 .. Len(accepted') /\ done' + 1 = n + 1 /\ got' = got
    BY <1>1, <1>6, <1>7, <2>1 DEF rxVars
  <2>8. SendsAt(n + 1, 0, Total, Total, txsn, ArSN(txsn))
    BY <1>5, <1>7, <2>1, <2>2, <2>3, <2>4, <2>5, <2>6, <2>7 DEF SendsAt
  <2>9. dt \in Seq(DtFrame)
    BY DEF IInv, TypeInv, BusTypes
  <2>10. SenderInv' /\ DtInv'
    BY <1>3, <1>4, <1>5, <1>7, <2>7, <2>8, <2>9, SendStep
  <2>11. AkInv'
    <3>1. UNCHANGED <<ak, base, got>>
      BY <1>1, <2>1, <2>2, <2>7
    <3> QED BY <1>3, <3>1, AkSame
  <2> QED BY <1>2, <1>8, <1>9, <2>10, <2>11 DEF IInv
<1>11. CASE txState # "TX_IDLE" /\ UNCHANGED <<txVars, dt>>
  <2>1. Sending /\ UNCHANGED <<txState, txsn, arsn, tx_buf_ptr, base, done, got, dt, ak>>
    BY <1>1, <1>11 DEF Sending, txVars, rxVars
  <2>2. done + 1 \in 1 .. n /\ Cur' = Cur /\ (Sending' <=> Sending)
    <3>1. done + 1 \in 1 .. n
      BY <1>6, <2>1
    <3> QED BY <1>7, <2>1, <3>1 DEF Cur, Sending
  <2>3. Ahead' = Ahead /\ Limit' = Limit
    BY <2>1, <2>2 DEF Ahead, Limit
  <2>4. SenderInv'
    BY <1>3, <2>1, <2>2, <2>3 DEF SenderInv
  <2>5. DtInv'
    <3>1. ASSUME NEW k \in 1 .. Len(dt)
          PROVE  dt[k].eom <=> IsEnd(accepted', dt[k].data)
      <4>1. dt[k].data \in Nat
        <5>1. dt[k] \in DtFrame
          BY DEF IInv, TypeInv, BusTypes
        <5> QED BY <5>1 DEF DtFrame
      <4>2. dt[k].data < Limit /\ (dt[k].eom <=> IsEnd(accepted, dt[k].data))
        BY <1>3 DEF DtInv
      <4>3. dt[k].data < Total
        BY <1>4, <4>1, <4>2
      <4> QED BY <1>7, <4>1, <4>2, <4>3
    <3> QED BY <1>3, <2>1, <2>3, <3>1 DEF DtInv
  <2>6. AkInv'
    BY <1>3, <2>1, AkSame
  <2> QED BY <1>2, <1>8, <1>9, <2>4, <2>5, <2>6 DEF IInv
<1> QED BY <1>1, <1>10, <1>11

----------------------------------------------------------------------------
(* The receiver's steps.                                                   *)

\* The frame at the head of the bus.
LEMMA DtHeadFacts ==
  ASSUME IInv, dt # <<>>
  PROVE  /\ Head(dt).data \in Nat /\ Head(dt).sn = Head(dt).data % SNMod
         /\ Head(dt).eom <=> IsEnd(accepted, Head(dt).data)
         /\ Head(dt).data < Limit /\ got <= Head(dt).data + bs
         /\ \A k \in 1 .. Len(Tail(dt)) : Head(dt).data + 1 <= Tail(dt)[k].data + bs
<1>1. dt \in Seq(DtFrame) /\ DtInv
  BY DEF IInv, TypeInv, BusTypes
<1>2. /\ Head(dt) = dt[1] /\ Head(dt) \in DtFrame /\ 1 \in 1 .. Len(dt)
      /\ \A k \in 1 .. Len(Tail(dt)) : Tail(dt)[k] = dt[k + 1] /\ k + 1 \in 1 .. Len(dt)
  BY <1>1, TailElements
<1>3. ASSUME NEW k \in 1 .. Len(Tail(dt))
      PROVE  Head(dt).data + 1 <= Tail(dt)[k].data + bs
  <2>1. Tail(dt)[k] = dt[k + 1] /\ k + 1 \in 1 .. Len(dt) /\ 1 < k + 1
    BY <1>2
  <2> QED BY <1>1, <1>2, <2>1 DEF DtInv
<1> QED BY <1>1, <1>2, <1>3 DEF DtInv, DtFrame

\* The head leaves the bus and nothing older than a block is left on it.
LEMMA DtTail ==
  ASSUME IInv, dt # <<>>, dt' = Tail(dt), UNCHANGED <<accepted, Limit>>,
         \A k \in 1 .. Len(Tail(dt)) : got' <= Tail(dt)[k].data + bs
  PROVE  DtInv'
<1>1. dt \in Seq(DtFrame) /\ DtInv
  BY DEF IInv, TypeInv, BusTypes
<1>2. \A k \in 1 .. Len(dt') : dt'[k] = dt[k + 1] /\ k + 1 \in 1 .. Len(dt)
  BY <1>1, TailElements
<1>3. ASSUME NEW k \in 1 .. Len(dt')
      PROVE  /\ dt'[k].sn = dt'[k].data % SNMod
             /\ dt'[k].eom <=> IsEnd(accepted', dt'[k].data)
             /\ dt'[k].data < Limit' /\ got' <= dt'[k].data + bs
  <2>1. dt'[k] = dt[k + 1] /\ k + 1 \in 1 .. Len(dt)
    BY <1>2
  <2> QED BY <1>1, <2>1 DEF DtInv
<1>4. ASSUME NEW j \in 1 .. Len(dt'), NEW k \in 1 .. Len(dt'), j < k
      PROVE  dt'[j].data + 1 <= dt'[k].data + bs
  <2>1. /\ dt'[j] = dt[j + 1] /\ j + 1 \in 1 .. Len(dt)
        /\ dt'[k] = dt[k + 1] /\ k + 1 \in 1 .. Len(dt) /\ j + 1 < k + 1
    BY <1>2, <1>4
  <2> QED BY <1>1, <2>1 DEF DtInv
<1> QED BY <1>3, <1>4 DEF DtInv

\* The receiver answers with what it has stored.
LEMMA AkSent ==
  ASSUME IInv, base' = base, got <= got', got' \in Nat, NEW sn, sn = got' % SNMod,
         SendAck(sn, TRUE, got') \/ ak' = ak
  PROVE  AkInv'
<1> DEFINE f == [sn |-> sn, rs |-> TRUE, upto |-> got']
<1>1. ak \in Seq(AkFrame) /\ AkInv /\ base \in Nat /\ got \in Nat /\ base <= got
  BY PositionFacts DEF IInv, TypeInv, BusTypes
<1>2. f \in AkFrame /\ f.sn = sn /\ f.rs = TRUE /\ f.upto = got'
  BY SnRange DEF AkFrame
<1>3. ak' \in Xmit(ak, f) \/ ak' = ak
  BY DEF SendAck
<1> HIDE DEF f
<1>4. /\ Len(ak) \in Nat
      /\ Len(ak') = Len(ak) \/ (Len(ak') = Len(ak) + 1 /\ ak'[Len(ak) + 1] = f)
      /\ \A k \in 1 .. Len(ak) : ak'[k] = ak[k]
  BY <1>1, <1>2, <1>3, XmitElements
<1>5. \A k \in 1 .. Len(ak') : k \in 1 .. Len(ak) \/ (k = Len(ak) + 1 /\ ak'[k] = f)
  BY <1>4
<1>6. \A k \in 1 .. Len(ak) : ak[k].upto \in Nat
  <2>1. \A k \in 1 .. Len(ak) : ak[k] \in AkFrame
    BY <1>1
  <2> QED BY <2>1 DEF AkFrame
<1>7. ASSUME NEW k \in 1 .. Len(ak')
      PROVE  /\ ak'[k].sn = ak'[k].upto % SNMod /\ ak'[k].rs = TRUE
             /\ base' <= ak'[k].upto /\ ak'[k].upto <= got'
  <2>1. CASE k \in 1 .. Len(ak)
    <3>1. ak'[k] = ak[k] /\ ak[k].upto \in Nat
      BY <1>4, <1>6, <2>1
    <3>2. /\ ak[k].sn = ak[k].upto % SNMod /\ ak[k].rs = TRUE
          /\ base <= ak[k].upto /\ ak[k].upto <= got
      BY <1>1, <2>1 DEF AkInv
    <3>3. ak[k].upto <= got'
      BY <1>1, <3>1, <3>2
    <3> QED BY <3>1, <3>2, <3>3
  <2>2. CASE ak'[k] = f
    <3>1. base' <= got' /\ got' <= got'
      BY <1>1
    <3> QED BY <1>2, <2>2, <3>1
  <2> QED BY <1>5, <2>1, <2>2
<1>8. ASSUME NEW j \in 1 .. Len(ak'), NEW k \in 1 .. Len(ak'), j < k
      PROVE  ak'[j].upto <= ak'[k].upto
  <2>1. j \in 1 .. Len(ak)
    BY <1>4, <1>8
  <2>2. ak'[j] = ak[j] /\ ak[j].upto \in Nat
    BY <1>4, <1>6, <2>1
  <2>3. CASE k \in 1 .. Len(ak)
    <3>1. ak'[k] = ak[k]
      BY <1>4, <2>3
    <3> QED BY <1>1, <1>8, <2>1, <2>2, <2>3, <3>1 DEF AkInv
  <2>4. CASE ak'[k] = f
    <3>1. ak[j].upto <= got
      BY <1>1, <2>1 DEF AkInv
    <3>2. ak[j].upto <= got'
      BY <1>1, <2>2, <3>1
    <3> QED BY <1>2, <2>2, <2>4, <3>2
  <2> QED BY <1>5, <2>3, <2>4
<1> QED BY <1>7, <1>8 DEF AkInv

LEMMA StepRxRefused == IInv /\ RxRefused => IInv'
<1> SUFFICES ASSUME IInv, RxRefused PROVE IInv'
  OBVIOUS
<1>1. /\ dt # <<>> /\ dt' = Tail(dt)
      /\ UNCHANGED <<txVars, accepted, done, con, rxVars>>
      /\ SendAck(rxsn, rxState = "RX_RECEIVE", got) \/ ak' = ak
  BY DEF RxRefused
<1>2. TypeInv'
  BY TypeStep DEF IInv, Next, RxData
<1>3. StreamInv' /\ RxInv'
  BY <1>1, ReceiverSame DEF IInv
<1>4. UNCHANGED <<txState, txsn, arsn, tx_buf_ptr, base, got>>
  BY <1>1 DEF txVars, rxVars
<1>5. (Sending' <=> Sending) /\ Cur' = Cur /\ Total' = Total
  BY <1>1, <1>4 DEF Sending, Cur, Total
<1>6. Ahead' = Ahead /\ Limit' = Limit
  BY <1>4, <1>5 DEF Ahead, Limit
<1>7. SenderInv'
  BY <1>1, <1>4, <1>5, <1>6 DEF IInv, SenderInv
<1>8. DtInv'
  <2>1. ASSUME NEW k \in 1 .. Len(Tail(dt)) PROVE got <= Tail(dt)[k].data + bs
    <3>1. dt \in Seq(DtFrame) /\ DtInv
      BY DEF IInv, TypeInv, BusTypes
    <3>2. Tail(dt)[k] = dt[k + 1] /\ k + 1 \in 1 .. Len(dt)
      BY <1>1, <3>1, TailElements
    <3> QED BY <3>1, <3>2 DEF DtInv
  <2> QED BY <1>1, <1>4, <1>6, <2>1, DtTail
<1>9. AkInv'
  <2>1. rxState = "RX_RECEIVE" /\ rxsn = got % SNMod
    BY DEF IInv, RxInv
  <2>2. got \in Nat /\ got <= got
    BY PositionFacts
  <2>3. SendAck(rxsn, TRUE, got') \/ ak' = ak
    BY <1>1, <1>4, <2>1
  <2> QED BY <1>4, <2>1, <2>2, <2>3, AkSent
<1> QED BY <1>2, <1>3, <1>7, <1>8, <1>9 DEF IInv

\* What a receiver that got the stream up to g holds of message m.
Held(g, m) == [j \in 1 .. (g - m.from) |-> m.from + j - 1]

LEMMA HeldGrows ==
  ASSUME NEW m \in Message, NEW g \in Nat, m.from <= g
  PROVE  /\ Held(g, m) \in Seq(Int) /\ Len(Held(g, m)) = g - m.from
         /\ Append(Held(g, m), g) = Held(g + 1, m)
         /\ g + 1 = End(m) => Held(g + 1, m) = Segments(m)
         /\ g = m.from => Held(g, m) = <<>>
<1> DEFINE n == g - m.from
<1>1. m.from \in Nat /\ m.size \in Nat /\ End(m) = m.from + m.size
  BY EndFacts
<1>2. n \in Nat /\ (g + 1) - m.from = n + 1 /\ g = m.from + n
  BY <1>1
<1> HIDE DEF n
<1>3. Held(g, m) = [j \in 1 .. n |-> m.from + j - 1]
  BY DEF Held, n
<1>4. Held(g + 1, m) = [j \in 1 .. (n + 1) |-> m.from + j - 1]
  BY <1>2 DEF Held
<1>5. Held(g, m) \in Seq(Int) /\ Len(Held(g, m)) = n
  BY <1>1, <1>2, <1>3
<1>6. Append(Held(g, m), g) = Held(g + 1, m)
  <2> DEFINE a == Append(Held(g, m), g)  h == Held(g + 1, m)
  <2>1. /\ a \in Seq(Int) /\ Len(a) = n + 1 /\ a[n + 1] = g
        /\ \A j \in 1 .. n : a[j] = Held(g, m)[j]
    BY <1>5, AppendElements
  <2>2. h \in Seq(Int) /\ Len(h) = n + 1
    <3>1. h = [j \in 1 .. (n + 1) |-> m.from + j - 1] /\ n + 1 \in Nat
      BY <1>2, <1>4
    <3> HIDE DEF h
    <3> QED BY <1>1, <3>1
  <2>3. \A j \in 1 .. (n + 1) : a[j] = h[j]
    <3> SUFFICES ASSUME NEW j \in 1 .. (n + 1) PROVE a[j] = h[j]
      OBVIOUS
    <3>1. h[j] = m.from + j - 1
      BY <1>4
    <3>2. CASE j = n + 1
      BY <1>1, <1>2, <2>1, <3>1, <3>2
    <3>3. CASE j \in 1 .. n
      <4>1. a[j] = Held(g, m)[j]
        BY <2>1, <3>3
      <4>2. Held(g, m)[j] = m.from + j - 1
        BY <1>3, <3>3
      <4> QED BY <3>1, <4>1, <4>2
    <3>4. j = n + 1 \/ j \in 1 .. n
      BY <1>2
    <3> QED BY <3>2, <3>3, <3>4, Zenon
  <2> HIDE DEF a, h
  <2>4. a = h
    BY <2>1, <2>2, <2>3
  <2> QED BY <2>4 DEF a, h
<1>7. ASSUME g + 1 = End(m) PROVE Held(g + 1, m) = Segments(m)
  <2>1. n + 1 = m.size
    BY <1>1, <1>2, <1>7
  <2> QED BY <1>4, <2>1 DEF Segments
<1>8. ASSUME g = m.from PROVE Held(g, m) = <<>>
  <2>1. n = 0
    BY <1>1, <1>2, <1>8
  <2> QED BY <1>3, <2>1
<1> QED BY <1>2, <1>5, <1>6, <1>7, <1>8 DEF n

\* The expected segment is the next one of the stream, and there is room.
LEMMA ExpectedIsNext ==
  ASSUME PlainPeer, IInv, dt # <<>>, Head(dt).sn = rxsn
  PROVE  /\ Head(dt).data = got /\ got < Limit
         /\ Len(delivered) \in Nat /\ Len(delivered) + 1 \in 1 .. Len(accepted)
         /\ LET m == accepted[Len(delivered) + 1] IN
              /\ m \in Message /\ m.from <= got /\ got < End(m)
              /\ rx_buf = Held(got, m) /\ Len(rx_buf) < rx_buf_size
              /\ Head(dt).eom <=> got + 1 = End(m)
<1> DEFINE x == Head(dt).data  k == Len(delivered)  m == accepted[k + 1]
<1>1. /\ x \in Nat /\ x < Limit /\ got <= x + bs
      /\ Head(dt).eom <=> IsEnd(accepted, x)
  BY DtHeadFacts
<1>2. x % SNMod = got % SNMod
  BY DtHeadFacts DEF IInv, RxInv
<1>3. /\ got \in Nat /\ base \in Nat /\ Limit \in Nat /\ Total \in Nat /\ bs \in Nat
      /\ Limit <= base + bs /\ base <= got /\ Limit <= Total
  BY PositionFacts
<1> HIDE DEF x
<1>4. x <= got + bs
  BY <1>1, <1>3
<1>5. x = got
  BY <1>1, <1>2, <1>3, <1>4, SnDistinct
<1>6. got < Limit /\ got # Total
  BY <1>1, <1>3, <1>5
<1>7. k \in Nat /\ k <= Len(accepted) /\ k # Len(accepted) /\ Len(accepted) \in Nat
  <2>1. k \in Nat /\ Len(accepted) \in Nat
    BY QueueFacts DEF IInv, TypeInv, RxTypes
  <2> QED BY <1>6, <2>1 DEF IInv, RxInv
<1>8. k < Len(accepted) /\ k + 1 \in 1 .. Len(accepted)
  <2> HIDE DEF k
  <2> QED BY <1>7
<1>9. m \in Message
  BY <1>8 DEF IInv, StreamInv, StreamOK
<1>10. m.from <= got /\ got < End(m) /\ rx_buf = Held(got, m)
  BY <1>8 DEF IInv, RxInv, Held
<1>11. Len(rx_buf) < rx_buf_size
  <2>1. Len(rx_buf) = got - m.from
    <3> HIDE DEF m
    <3> QED BY <1>3, <1>9, <1>10, HeldGrows
  <2>2. m.from \in Nat /\ m.size \in Nat /\ End(m) = m.from + m.size /\ m.size <= RxSize
    BY <1>9, EndFacts DEF Message, PlainPeer
  <2>3. rx_buf_size = RxSize /\ RxSize \in Nat
    BY ParmAssumption DEF IInv, RxInv
  <2> HIDE DEF m
  <2> QED BY <1>3, <1>10, <2>1, <2>2, <2>3
<1>12. Head(dt).eom <=> got + 1 = End(m)
  <2>1. IsEnd(accepted, got) <=> got = End(m) - 1
    BY <1>3, <1>8, <1>10, EndUnique DEF IInv, StreamInv
  <2>2. End(m) \in Nat
    BY <1>9, EndFacts
  <2>3. got = End(m) - 1 <=> got + 1 = End(m)
    BY <1>3, <2>2
  <2> QED BY <1>1, <1>5, <2>1, <2>3
<1> QED BY <1>5, <1>6, <1>7, <1>8, <1>9, <1>10, <1>11, <1>12 DEF x

LEMMA StepRxExpected == PlainPeer /\ IInv /\ RxExpected => IInv'
<1> SUFFICES ASSUME PlainPeer, IInv, RxExpected PROVE IInv'
  OBVIOUS
<1> DEFINE k == Len(delivered)  m == accepted[k + 1]  full == Held(got + 1, m)
<1>1. /\ dt # <<>> /\ dt' = Tail(dt) /\ Head(dt).sn = rxsn
      /\ UNCHANGED <<txVars, accepted, done, con, rxState>>
      /\ SendAck(rxsn', TRUE, got') \/ ak' = ak
  BY DEF RxExpected
<1>2. TypeInv'
  BY TypeStep DEF IInv, Next, RxData
<1>3. /\ Head(dt).data = got /\ got < Limit /\ k \in Nat /\ k + 1 \in 1 .. Len(accepted)
      /\ m \in Message /\ m.from <= got /\ got < End(m)
      /\ rx_buf = Held(got, m) /\ Len(rx_buf) < rx_buf_size
      /\ Head(dt).eom <=> got + 1 = End(m)
  BY <1>1, ExpectedIsNext
<1>4. /\ got \in Nat /\ Limit \in Nat /\ base <= got /\ base \in Nat /\ bs \in Nat \ {0}
      /\ rxsn = got % SNMod /\ rx_buf_size = RxSize /\ rxState = "RX_RECEIVE"
      /\ StreamInv /\ delivered \in Seq(Seq(Int)) /\ Len(accepted) \in Nat
  BY PositionFacts, QueueFacts DEF IInv, RxInv, TypeInv, RxTypes
<1>5. Append(rx_buf, got) = full
  BY <1>3, <1>4, HeldGrows
<1>6. /\ rx_buf_size' = RxSize /\ got' = got + 1 /\ rxsn' = (rxsn + 1) % SNMod
      /\ IF Head(dt).eom THEN rx_buf' = <<>> /\ delivered' = Append(delivered, full)
                         ELSE rx_buf' = full /\ delivered' = delivered
  <2>1. RxStoreData(got) = {[buf |-> full, size |-> RxSize, stored |-> 1]}
    <3> HIDE DEF full
    <3> QED BY <1>3, <1>4, <1>5 DEF RxStoreData
  <2>2. PICK st \in RxStoreData(got) :
          /\ rx_buf_size' = st.size
          /\ got' = got + st.stored
          /\ rxsn' = (rxsn + st.stored) % SNMod
          /\ IF Head(dt).eom THEN rx_buf' = <<>> /\ delivered' = Append(delivered, st.buf)
                             ELSE rx_buf' = st.buf /\ UNCHANGED delivered
    BY <1>3 DEF RxExpected
  <2> HIDE DEF full, RxStoreData
  <2>3. st.buf = full /\ st.size = RxSize /\ st.stored = 1
    BY <2>1, <2>2
  <2> QED BY <2>2, <2>3
<1>7. rxsn' = got' % SNMod
  BY <1>4, <1>6, SnOfSum, Zenon
<1>8. UNCHANGED <<txState, txsn, arsn, tx_buf_ptr, base>>
  BY <1>1 DEF txVars
<1>9. (Sending' <=> Sending) /\ Cur' = Cur /\ Total' = Total
  BY <1>1, <1>8 DEF Sending, Cur, Total
<1>10. Ahead' = Ahead /\ Limit' = Limit
  BY <1>8, <1>9 DEF Ahead, Limit
<1>11. got' \in Nat /\ got <= got' /\ base <= got' /\ got' <= Limit
  BY <1>3, <1>4, <1>6
<1>12. SenderInv'
  BY <1>1, <1>8, <1>9, <1>10, <1>11 DEF IInv, SenderInv
<1>13. DtInv'
  <2>1. \A j \in 1 .. Len(Tail(dt)) : got' <= Tail(dt)[j].data + bs
    BY <1>1, <1>3, <1>6, DtHeadFacts
  <2> QED BY <1>1, <1>10, <2>1, DtTail
<1>14. AkInv'
  BY <1>1, <1>7, <1>8, <1>11, AkSent
<1>15. StreamInv'
  BY <1>1, <1>4 DEF StreamInv
<1>16. /\ m.from \in Nat /\ End(m) \in Nat
       /\ got + 1 = End(m) => full = Segments(m)
  BY <1>3, <1>4, EndFacts, HeldGrows
<1>17. \A i \in 1 .. k : delivered[i] = Segments(accepted[i])
  BY DEF IInv, RxInv
<1>18. RxInv'
  <2>1. CASE ~Head(dt).eom
    <3>1. rx_buf' = full /\ delivered' = delivered
      BY <1>6, <2>1
    <3>2. m.from <= got' /\ got' < End(m)
      <4> HIDE DEF m, k
      <4> QED BY <1>3, <1>4, <1>6, <1>16, <2>1
    <3>3. rx_buf' = [j \in 1 .. (got' - m.from) |-> m.from + j - 1]
      BY <1>6, <3>1 DEF Held
    <3>4. Len(delivered') < Len(accepted') /\ Len(delivered') # Len(accepted')
          /\ Len(delivered') <= Len(accepted')
      BY <1>1, <1>3, <1>4, <3>1
    <3>5. m = accepted'[Len(delivered') + 1]
      BY <1>1, <3>1
    <3>6. \A i \in 1 .. Len(delivered') : delivered'[i] = Segments(accepted'[i])
      BY <1>1, <1>17, <3>1
    <3>7. rxState' = "RX_RECEIVE" /\ rx_buf_size' = RxSize
      BY <1>1, <1>4, <1>6
    <3> HIDE DEF m
    <3> QED BY <1>7, <3>2, <3>3, <3>4, <3>5, <3>6, <3>7 DEF RxInv
  <2>2. CASE Head(dt).eom
    <3>1. /\ rx_buf' = <<>> /\ delivered' = Append(delivered, Segments(m))
          /\ got' = End(m)
      BY <1>3, <1>6, <1>16, <2>2
    <3>2. Segments(m) \in Seq(Int)
      <4>1. full \in Seq(Int)
        <5>1. got + 1 \in Nat /\ m.from <= got + 1
          <6> HIDE DEF m
          <6> QED BY <1>3, <1>4, <1>16
        <5> HIDE DEF m
        <5> QED BY <1>3, <5>1, HeldGrows
      <4> QED BY <1>3, <1>16, <2>2, <4>1
    <3>3. /\ Len(delivered') = k + 1 /\ delivered'[k + 1] = Segments(m)
          /\ \A i \in 1 .. k : delivered'[i] = delivered[i]
      <4> HIDE DEF m
      <4> QED BY <1>4, <3>1, <3>2, AppendElements
    <3>4. \A i \in 1 .. Len(delivered') : delivered'[i] = Segments(accepted'[i])
      <4>1. \A i \in 1 .. (k + 1) : i \in 1 .. k \/ i = k + 1
        BY <1>3
      <4> QED BY <1>1, <1>17, <3>3, <4>1
    <3>5. Len(delivered') <= Len(accepted')
      BY <1>1, <1>3, <3>3
    <3>6. ASSUME Len(delivered') = Len(accepted') PROVE got' = Total'
      <4>1. k + 1 = Len(accepted) /\ accepted # <<>>
        BY <1>1, <1>3, <3>3, <3>6
      <4>2. End(accepted[Len(accepted)]) = Total
        BY <1>4, <4>1, TotalFacts
      <4> QED BY <1>9, <3>1, <4>1, <4>2
    <3>7. ASSUME Len(delivered') < Len(accepted')
          PROVE  LET a == accepted'[Len(delivered') + 1] IN
                   /\ a.from <= got' /\ got' < End(a)
                   /\ rx_buf' = [j \in 1 .. (got' - a.from) |-> a.from + j - 1]
      <4> DEFINE a == accepted[(k + 1) + 1]
      <4>1. k + 1 < Len(accepted) /\ (k + 1) + 1 \in 1 .. Len(accepted)
        BY <1>1, <1>3, <3>3, <3>7
      <4>2. a.from = End(m)
        BY <1>3, <1>4, <4>1 DEF StreamInv, StreamOK
      <4>3. a \in Message
        BY <1>4, <4>1 DEF StreamInv, StreamOK
      <4>4. a = accepted'[Len(delivered') + 1]
        BY <1>1, <3>3
      <4> HIDE DEF a, m
      <4>5. a.from = got' /\ a.from \in Nat /\ got' < End(a) /\ a.from <= got'
        BY <3>1, <4>2, <4>3, EndFacts
      <4>6. Held(got', a) = <<>>
        BY <1>11, <4>3, <4>5, HeldGrows
      <4> QED BY <3>1, <4>4, <4>5, <4>6 DEF Held
    <3>8. rxState' = "RX_RECEIVE" /\ rx_buf_size' = RxSize
      BY <1>1, <1>4, <1>6
    <3> QED BY <1>7, <3>1, <3>4, <3>5, <3>6, <3>7, <3>8 DEF RxInv
  <2> QED BY <2>1, <2>2
<1> QED BY <1>2, <1>12, <1>13, <1>14, <1>15, <1>18 DEF IInv

----------------------------------------------------------------------------
(* The theorems.                                                           *)

LEMMA IInit == Init => IInv
<1> SUFFICES ASSUME Init PROVE IInv
  OBVIOUS
<1>1. accepted = <<>> /\ delivered = <<>> /\ dt = <<>> /\ ak = <<>> /\ rx_buf = <<>>
      /\ base = 0 /\ got = 0 /\ done = 0 /\ txsn = 0 /\ rxsn = 0 /\ txState = "TX_IDLE"
      /\ rxState = "RX_RECEIVE" /\ rx_buf_size = RxSize
  BY DEF Init
<1>2. 0 % SNMod = 0
  BY SnRange, SmallMod
<1>3. Total = 0 /\ ~Sending
  BY <1>1 DEF Total, Sending
<1>4. Ahead = 0 /\ Limit = 0
  BY <1>1, <1>3 DEF Ahead, Limit
<1>5. StreamInv
  BY <1>1 DEF StreamInv, StreamOK
<1>6. SenderInv
  BY <1>1, <1>2, <1>3, <1>4 DEF SenderInv
<1>7. DtInv /\ AkInv
  BY <1>1 DEF DtInv, AkInv
<1>8. RxInv
  BY <1>1, <1>2, <1>3 DEF RxInv
<1> QED BY <1>5, <1>6, <1>7, <1>8, TypeInit DEF IInv

LEMMA IStep == PlainPeer /\ IInv /\ [Next]_vars => IInv'
<1> SUFFICES ASSUME PlainPeer, IInv, [Next]_vars PROVE IInv'
  OBVIOUS
<1>1. CASE \E size \in Sizes : SendMsg(size)
  BY <1>1, StepSendMsg
<1>2. CASE TxData
  BY <1>2, StepAckIgnored, StepAckNotReady, StepAckNextBlock, StepAckComplete,
     StepAckWrongSN DEF TxData
<1>3. CASE TxTimer
  BY <1>3, StepTimerResend, StepTimerGiveUp, StepTimerNextSegment DEF TxTimer
<1>4. CASE RxData
  BY <1>4, StepRxExpected, StepRxRefused DEF RxData
<1>5. CASE PeerTurns
  BY <1>5 DEF PeerTurns, PlainPeer
<1>6. CASE UNCHANGED vars
  <2>1. UNCHANGED <<txVars, accepted, done, con, rxVars, dt, ak>>
    BY <1>6 DEF vars
  <2>2. UNCHANGED <<txState, txsn, arsn, tx_buf_ptr, base, got>>
    BY <2>1 DEF txVars, rxVars
  <2>3. TypeInv'
    BY TypeStep DEF IInv
  <2>4. StreamInv' /\ RxInv'
    BY <2>1, ReceiverSame DEF IInv
  <2>5. SenderInv' /\ DtInv'
    BY <2>1, <2>2, SenderSame DEF IInv
  <2>6. AkInv'
    BY <2>1, <2>2, AkSame DEF IInv
  <2> QED BY <2>3, <2>4, <2>5, <2>6 DEF IInv
<1> QED BY <1>1, <1>2, <1>3, <1>4, <1>5, <1>6 DEF Next

LEMMA Invariance == ASSUME PlainPeer PROVE Spec => []IInv
<1>1. IInv /\ [Next]_vars => IInv'
  BY IStep
<1> QED BY IInit, <1>1, PTL DEF Spec

LEMMA InvImpliesDelivery ==
  IInv => InOrderDelivery /\ CompleteMeansDelivered /\ NoBadAdjust /\ SnAlreadyIncreased
<1> SUFFICES ASSUME IInv
             PROVE  InOrderDelivery /\ CompleteMeansDelivered /\ NoBadAdjust
                    /\ SnAlreadyIncreased
  OBVIOUS
<1>1. InOrderDelivery
  BY DEF IInv, RxInv, InOrderDelivery
<1> DEFINE k == Len(delivered)
<1>2. /\ k \in Nat /\ done \in Nat /\ Len(accepted) \in Nat /\ k <= Len(accepted)
      /\ done <= Len(accepted) /\ base \in Nat /\ got \in Nat /\ base <= got
      /\ Total \in Nat
  BY PositionFacts, QueueFacts DEF IInv, TypeInv, RxTypes, RxInv
<1>3. CompleteMeansDelivered
  <2> SUFFICES ASSUME k < done PROVE FALSE
    BY <1>2 DEF CompleteMeansDelivered
  <2>1. k + 1 \in 1 .. Len(accepted) /\ k < Len(accepted) /\ k + 1 < done + 1
    BY <1>2
  <2>2. got < End(accepted[k + 1])
    BY <2>1 DEF IInv, RxInv
  <2>3. End(accepted[k + 1]) \in Nat
    BY <2>1, EndFacts DEF IInv, StreamInv, StreamOK
  <2>4. CASE Sending
    <3>1. done + 1 \in 1 .. Len(accepted) /\ Cur \in Message
      BY <2>4, PositionFacts
    <3>2. End(accepted[k + 1]) <= Cur.from
      BY <2>1, <3>1 DEF IInv, StreamInv, StreamOK, Cur
    <3>3. Cur.from <= base /\ Cur.from \in Nat
      BY <2>4, <3>1, EndFacts DEF IInv, SenderInv
    <3> HIDE DEF k
    <3> QED BY <1>2, <2>2, <2>3, <3>2, <3>3
  <2>5. CASE ~Sending
    <3>1. base = Total
      BY <2>5 DEF IInv, SenderInv
    <3>2. End(accepted[k + 1]) <= Total
      BY <2>1, TotalFacts DEF IInv
    <3> HIDE DEF k
    <3> QED BY <1>2, <2>2, <2>3, <3>1, <3>2
  <2> QED BY <2>4, <2>5
<1>4. NoBadAdjust
  <2> SUFFICES ASSUME txState = "TX_WAIT_AK", ak # <<>>, Head(ak).sn # txsn
               PROVE  LostSegments(Head(ak).sn) <= tx_buf_ptr
    BY DEF NoBadAdjust
  <2> DEFINE u == Head(ak).upto
  <2>1. Sending /\ LostSegments(Head(ak).sn) = Ahead - u - 1
    BY AckMeansStored DEF AckMatches
  <2>2. /\ Ahead = Cur.from + tx_buf_ptr + 1 /\ Cur \in Message /\ Ahead \in Nat
        /\ tx_buf_ptr \in Nat /\ Cur.from <= base
    BY <2>1, PositionFacts DEF IInv, SenderInv, TypeInv, TxTypes
  <2> DEFINE from == Cur.from
  <2>3. u \in Nat /\ from \in Nat /\ from <= u
    <3>1. u \in Nat /\ base <= u /\ from \in Nat
      BY <2>2, AkHeadFacts, EndFacts
    <3> HIDE DEF u, from
    <3>2. from <= base
      BY <2>2 DEF from
    <3> QED BY <1>2, <3>1, <3>2
  <2>4. Ahead = from + tx_buf_ptr + 1
    BY <2>2
  <2> HIDE DEF u, from
  <2>5. Ahead - u - 1 <= tx_buf_ptr
    BY <2>2, <2>3, <2>4
  <2> QED BY <2>1, <2>5 DEF u
<1>5. SnAlreadyIncreased
  <2> SUFFICES ASSUME txState = "TX_WAIT_AK"
               PROVE  txsn = (BlockAt(tx_buf_ptr) + 1) % SNMod
    BY DEF SnAlreadyIncreased
  <2>1. Sending /\ txsn = Ahead % SNMod
    BY DEF Sending, IInv, SenderInv
  <2>2. Ahead = BlockAt(tx_buf_ptr) + 1
    BY <2>1 DEF Ahead, BlockAt, Cur
  <2> QED BY <2>1, <2>2
<1> QED BY <1>1, <1>3, <1>4, <1>5

\* The receiving socket gets exactly the submitted messages, whole and in
\* order, whatever is lost or repeated (tp_tx_data against tp_rx_data).
THEOREM DeliveryInOrder == ASSUME PlainPeer PROVE Spec => []InOrderDelivery
BY Invariance, InvImpliesDelivery, PTL

\* No message leaves tx_queue before the receiving socket has it: an old
\* ACK never passes for the awaited one (tp_tx_data).
THEOREM CompletionIsDelivery ==
  ASSUME PlainPeer PROVE Spec => []CompleteMeansDelivered
BY Invariance, InvImpliesDelivery, PTL

\* tp_tx_adjust_sn() always finds the segment the receiver asks for in the
\* message it is sending.
THEOREM AdjustInRange == ASSUME PlainPeer PROVE Spec => []NoBadAdjust
BY Invariance, InvImpliesDelivery, PTL

\* tp_tx_timer() repeats the segment before txsn, as its comment says.
THEOREM ResendsLast == ASSUME PlainPeer PROVE Spec => []SnAlreadyIncreased
BY Invariance, InvImpliesDelivery, PTL

----------------------------------------------------------------------------
(* The engine implements ReliableTransfer.                                 *)

\* Both sides of the refinement in terms of the four shared variables.
LEMMA TransferSteps ==
  /\ Transfer!Init <=> accepted = <<>> /\ delivered = <<>> /\ done = 0 /\ con = TRUE
  /\ Transfer!NextFree = Total
  /\ \A m : Transfer!Content(m) = Segments(m)
BY DEF Transfer!Init, Transfer!NextFree, Transfer!Content, Total, Segments

\* sendmsg submits.
LEMMA SendMsgSubmits ==
  ASSUME NEW size \in Sizes, SendMsg(size)
  PROVE  Transfer!Submit(size)
<1>1. /\ con /\ Len(accepted) < MaxMsgs
      /\ accepted' = Append(accepted, [from |-> Total, size |-> size])
      /\ UNCHANGED <<done, con, delivered>>
  BY DEF SendMsg, rxVars
<1> QED BY <1>1, TransferSteps DEF Transfer!Submit

\* An ACK that completes a message confirms one that is delivered.
LEMMA AckCompleteConfirms ==
  ASSUME IInv, CompleteMeansDelivered', AckComplete
  PROVE  Transfer!Confirm
<1>1. done' = done + 1 /\ UNCHANGED <<accepted, delivered, con>>
  BY DEF AckComplete, rxVars
<1>2. done' <= Len(delivered')
  BY DEF CompleteMeansDelivered
<1>3. done \in Nat /\ Len(delivered) \in Nat
  BY QueueFacts DEF IInv, TypeInv, RxTypes
<1>4. done < Len(delivered)
  BY <1>1, <1>2, <1>3
<1> QED BY <1>1, <1>4 DEF Transfer!Confirm

\* The engine gives a channel up only while it awaits an ACK.
LEMMA GivingUpBreaks ==
  ASSUME IInv, txState = "TX_WAIT_AK", con' = FALSE, UNCHANGED <<accepted, delivered, done>>
  PROVE  Transfer!Break \/ UNCHANGED con
<1>1. done < Len(accepted) /\ con \in BOOLEAN
  <2>1. done + 1 \in 1 .. Len(accepted)
    BY PositionFacts DEF Sending
  <2> QED BY <2>1, QueueFacts DEF IInv, TypeInv, QueueTypes
<1>2. CASE con = TRUE
  BY <1>1, <1>2 DEF Transfer!Break
<1>3. CASE con = FALSE
  BY <1>3
<1> QED BY <1>1, <1>2, <1>3

\* The last segment of a message delivers it.
LEMMA ExpectedDelivers ==
  ASSUME IInv, IInv', RxExpected, ~UNCHANGED delivered
  PROVE  Transfer!Deliver
<1>1. PICK buf : delivered' = Append(delivered, buf)
  BY DEF RxExpected
<1>2. UNCHANGED <<accepted, done, con>>
  BY DEF RxExpected
<1>3. delivered \in Seq(Seq(Int)) /\ Len(delivered) \in Nat /\ Len(accepted) \in Nat
  BY QueueFacts DEF IInv, TypeInv, RxTypes
<1> DEFINE k == Len(delivered)
<1>4. Len(delivered') = k + 1 /\ delivered'[k + 1] = buf
  BY <1>1, <1>3
<1>5. k + 1 <= Len(accepted) /\ delivered'[k + 1] = Segments(accepted[k + 1])
  <2>1. /\ Len(delivered') <= Len(accepted)
        /\ \A i \in 1 .. Len(delivered') : delivered'[i] = Segments(accepted'[i])
    BY <1>2 DEF IInv, RxInv
  <2> QED BY <1>2, <1>3, <1>4, <2>1
<1>6. buf = Transfer!Content(accepted[k + 1])
  BY <1>4, <1>5, TransferSteps
<1> QED BY <1>1, <1>2, <1>3, <1>5, <1>6 DEF Transfer!Deliver

\* Every step of the engine is a step of ReliableTransfer, or changes nothing
\* there.
LEMMA StepRefines ==
  ASSUME PlainPeer, IInv, IInv', CompleteMeansDelivered', [Next]_vars
  PROVE  Transfer!Next \/ UNCHANGED <<accepted, delivered, done, con>>
<1>1. CASE \E size \in Sizes : SendMsg(size)
  BY <1>1, SendMsgSubmits DEF Transfer!Next
<1>2. CASE TxData
  <2>1. CASE AckIgnored
    BY <2>1 DEF AckIgnored, rxVars
  <2>2. CASE AckNotReady
    BY <2>2, StepAckNotReady
  <2>3. CASE AckNextBlock
    BY <2>3 DEF AckNextBlock, rxVars
  <2>4. CASE AckComplete
    BY <2>4, AckCompleteConfirms DEF Transfer!Next
  <2>5. CASE AckWrongSN
    <3>1. txState = "TX_WAIT_AK" /\ UNCHANGED <<accepted, delivered, done>>
          /\ (con' = FALSE \/ UNCHANGED con)
      BY <2>5 DEF AckWrongSN, AckArrives, TooManyBlockErrors, Disconnect, rxVars
    <3>2. Transfer!Break \/ UNCHANGED con
      BY <3>1, GivingUpBreaks
    <3> QED BY <3>1, <3>2 DEF Transfer!Next
  <2> QED BY <1>2, <2>1, <2>2, <2>3, <2>4, <2>5 DEF TxData
<1>3. CASE TxTimer
  <2>1. CASE TimerResend
    BY <2>1 DEF TimerResend, rxVars
  <2>2. CASE TimerGiveUp
    <3>1. txState = "TX_WAIT_AK" /\ UNCHANGED <<accepted, delivered, done>> /\ con' = FALSE
      BY <2>2 DEF TimerGiveUp, Disconnect, rxVars
    <3>2. Transfer!Break \/ UNCHANGED con
      BY <3>1, GivingUpBreaks
    <3> QED BY <3>1, <3>2 DEF Transfer!Next
  <2>3. CASE TimerNextSegment
    BY <2>3 DEF TimerNextSegment, rxVars
  <2> QED BY <1>3, <2>1, <2>2, <2>3 DEF TxTimer
<1>4. CASE RxData
  <2>1. CASE RxExpected
    <3>1. UNCHANGED <<accepted, done, con>>
      BY <2>1 DEF RxExpected
    <3>2. CASE UNCHANGED delivered
      BY <3>1, <3>2
    <3>3. CASE ~UNCHANGED delivered
      BY <2>1, <3>3, ExpectedDelivers DEF Transfer!Next
    <3> QED BY <3>2, <3>3
  <2>2. CASE RxRefused
    BY <2>2 DEF RxRefused, rxVars
  <2> QED BY <1>4, <2>1, <2>2 DEF RxData
<1>5. CASE PeerTurns
  BY <1>5 DEF PeerTurns, PlainPeer
<1>6. CASE UNCHANGED vars
  BY <1>6 DEF vars, rxVars
<1> QED BY <1>1, <1>2, <1>3, <1>4, <1>5, <1>6 DEF Next

\* Whatever the bus loses and the timers do, the two state machines of
\* tp_gen.c together are a reliable transfer: messages arrive whole, once and
\* in order, none is complete before it has arrived, and the channel breaks
\* only with messages pending.
THEOREM EngineRefines == ASSUME PlainPeer PROVE Spec => ImplementsTransferSafely
<1>1. Init => Transfer!Init
  BY TransferSteps DEF Init
<1>2. IInv /\ IInv' /\ CompleteMeansDelivered' /\ [Next]_vars => [Transfer!Next]_(Transfer!vars)
  BY StepRefines DEF Transfer!vars
<1>3. Spec => []IInv /\ []CompleteMeansDelivered
  BY Invariance, CompletionIsDelivery
<1> QED BY <1>1, <1>2, <1>3, PTL DEF Spec, ImplementsTransferSafely, Transfer!Spec
=============================================================================
