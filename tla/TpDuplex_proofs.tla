--------------------------- MODULE TpDuplex_proofs ---------------------------
(***************************************************************************)
(* Two nodes that both send over one channel get each other's messages in  *)
(* order and once, alternate when they are half duplex, and their idle     *)
(* timer runs only when the channel is idle: for any modulus of at least   *)
(* two, any retries and error limits, and any number of messages.          *)
(***************************************************************************)
EXTENDS TpDuplex, Integers, TLAPS

----------------------------------------------------------------------------
(* The inductive invariant.                                                *)

Waits(n) == txState[n] = "TX_WAIT_AK"

\* Messages of n that were sent, and of these, those that its peer has.
Given(n) == IF Waits(n) THEN completed[n] + 1 ELSE completed[n]
Had(n) == Len(delivered[Peer(n)])

IsDT(f) == f.type = "DT"
IsAK(f) == f.type = "AK"

\* The DT frames on a channel are for messages lo .. hi in this order, and carry
\* their numbers.
DtOK(ch, lo, hi) ==
  /\ \A k \in 1 .. Len(ch) :
       IsDT(ch[k]) => ch[k].sn = (ch[k].msg - 1) % SNMod /\ ch[k].msg \in lo .. hi
  /\ \A j, k \in 1 .. Len(ch) :
       j < k /\ IsDT(ch[j]) /\ IsDT(ch[k]) => ch[j].msg <= ch[k].msg

\* The ACKs on a channel ask for the message after the c complete ones or, from
\* some place on and if had says so, for the one after that.
AkOK(ch, c, had) ==
  /\ \A k \in 1 .. Len(ch) :
       IsAK(ch[k]) => ch[k].sn = c % SNMod \/ (ch[k].sn = (c + 1) % SNMod /\ had = c + 1)
  /\ \A j, k \in 1 .. Len(ch) :
       j < k /\ IsAK(ch[j]) /\ IsAK(ch[k]) /\ ch[j].sn = (c + 1) % SNMod
         => ch[k].sn = (c + 1) % SNMod

\* The messages of n on their way to its peer.
Direction(n) ==
  /\ completed[n] <= Had(n) /\ Had(n) <= Given(n)
  /\ txsn[n] = Given(n) % SNMod
  /\ rxsn[Peer(n)] = Had(n) % SNMod
  /\ \A i \in 1 .. Had(n) : delivered[Peer(n)][i] = i
  /\ DtOK(net[Peer(n)], Had(n), Given(n))
  /\ AkOK(net[n], completed[n], Had(n))

\* A node that may send has received as much as it has sent.
Alternates(n) ==
  HALF_DUPLEX =>
    completed[n] <= IF txState[n] = "TX_BLOCKED" THEN Len(delivered[n]) + 1 ELSE Len(delivered[n])

IdleTimer(n) ==
  /\ conTimer[n] => AUTO_DISCONNECT
  /\ HALF_DUPLEX => (con[n] /\ Waits(n) => ~conTimer[n]) /\ ~addedTwice

NodeInv(n) == Alternates(n) /\ IdleTimer(n)

IInv == TypeOK /\ \A n \in Nodes : Direction(n) /\ NodeInv(n)

Frame == [type : {"DT"}, sn : Numbers, msg : Nat]
         \cup [type : {"AK"}, sn : Numbers] \cup {DC}

----------------------------------------------------------------------------
(* The two nodes and their numbers.                                        *)

LEMMA PeerFacts ==
  ASSUME NEW n \in Nodes
  PROVE  Peer(n) \in Nodes /\ Peer(n) # n /\ Peer(Peer(n)) = n /\ Nodes = {n, Peer(n)}
<1>1. PICK a \in Nodes, b \in Nodes : a # b /\ Nodes = {a, b}
  BY ParmAssumption
<1>2. \A m \in Nodes : Peer(m) \in Nodes /\ Peer(m) # m
  BY <1>1, Zenon DEF Peer
<1> QED BY <1>1, <1>2

LEMMA ModulusFact == SNMod \in Nat \ {0} /\ SNMod > 1
BY ParmAssumption

\* A remainder below SNMod is unique.
LEMMA RemainderUnique ==
  ASSUME NEW q \in Int, NEW p \in Int,
         NEW r \in 0 .. (SNMod - 1), NEW s \in 0 .. (SNMod - 1),
         SNMod * q + r = SNMod * p + s
  PROVE  q = p /\ r = s
<1> DEFINE k == q - p
<1>1. k \in Int /\ SNMod * k = s - r /\ s - r < SNMod /\ s - r > -SNMod
  BY ModulusFact
<1>2. q = p + k
  OBVIOUS
<1> HIDE DEF k
<1>3. k < 1
  <2> SUFFICES ASSUME k >= 1 PROVE FALSE
    BY <1>1, ModulusFact
  <2>1. SNMod * k >= SNMod
    BY <1>1, ModulusFact
  <2> QED BY <2>1, <1>1, ModulusFact
<1>4. k > -1
  <2> SUFFICES ASSUME k <= -1 PROVE FALSE
    BY <1>1, ModulusFact
  <2>1. SNMod * k <= -SNMod
    BY <1>1, ModulusFact
  <2> QED BY <2>1, <1>1, ModulusFact
<1>5. k = 0
  BY <1>1, <1>3, <1>4
<1> QED BY <1>1, <1>2, <1>5, ModulusFact

\* Division with remainder.
LEMMA DivMod ==
  ASSUME NEW M \in Nat \ {0}, NEW c \in Int
  PROVE  /\ c % M \in 0 .. (M - 1)
         /\ c \div M \in Int
         /\ c = M * (c \div M) + (c % M)
BY SMT

LEMMA SnRange ==
  ASSUME NEW c \in Int
  PROVE  c % SNMod \in Numbers
<1>1. c % SNMod \in 0 .. (SNMod - 1)
  BY ModulusFact, DivMod
<1> QED BY <1>1 DEF Numbers

\* A number below the modulus is its own.
LEMMA SnSmall ==
  ASSUME NEW s \in 0 .. (SNMod - 1)
  PROVE  s % SNMod = s
<1>1. /\ s % SNMod \in 0 .. (SNMod - 1) /\ s \div SNMod \in Int
      /\ s = SNMod * (s \div SNMod) + (s % SNMod)
  BY ModulusFact, DivMod
<1>2. SNMod * 0 + s = SNMod * (s \div SNMod) + (s % SNMod)
  BY <1>1, ModulusFact
<1> QED BY <1>1, <1>2, RemainderUnique

\* The number after that of c, which starts again at the modulus.
LEMMA SnOfNext ==
  ASSUME NEW c \in Int
  PROVE  (c + 1) % SNMod = IF c % SNMod = SNMod - 1 THEN 0 ELSE (c % SNMod) + 1
<1> DEFINE q == c \div SNMod  r == c % SNMod  d == c + 1  p == d \div SNMod  s == d % SNMod
           t == IF r = SNMod - 1 THEN 0 ELSE r + 1
           u == IF r = SNMod - 1 THEN q + 1 ELSE q
<1>1. q \in Int /\ r \in 0 .. (SNMod - 1) /\ c = SNMod * q + r
  BY ModulusFact, DivMod
<1>2. p \in Int /\ s \in 0 .. (SNMod - 1) /\ d = SNMod * p + s
  <2>1. d \in Int
    OBVIOUS
  <2> HIDE DEF d
  <2> QED BY <2>1, ModulusFact, DivMod
<1>3. t \in 0 .. (SNMod - 1) /\ u \in Int /\ d = SNMod * u + t
  <2>1. CASE r = SNMod - 1
    <3>1. t = 0 /\ u = q + 1 /\ d = c + 1
      BY <2>1
    <3> HIDE DEF q, r, d, t, u
    <3> QED BY <1>1, <2>1, <3>1, ModulusFact
  <2>2. CASE r # SNMod - 1
    <3>1. t = r + 1 /\ u = q /\ d = c + 1
      BY <2>2
    <3> HIDE DEF q, r, d, t, u
    <3> QED BY <1>1, <2>2, <3>1, ModulusFact
  <2> QED BY <2>1, <2>2
<1>4. s = t
  <2> HIDE DEF p, s, t, u, d
  <2> QED BY <1>2, <1>3, RemainderUnique
<1> QED BY <1>4

\* A number and the next one differ.
LEMMA SnDiffer ==
  ASSUME NEW c \in Int
  PROVE  c % SNMod # (c + 1) % SNMod
<1> DEFINE r == c % SNMod
<1>1. r \in 0 .. (SNMod - 1)
  BY ModulusFact, DivMod
<1>2. (c + 1) % SNMod = IF r = SNMod - 1 THEN 0 ELSE r + 1
  BY SnOfNext
<1> HIDE DEF r
<1>3. r # IF r = SNMod - 1 THEN 0 ELSE r + 1
  BY <1>1, ModulusFact
<1> QED BY <1>2, <1>3 DEF r

\* The number after the one of c is that of c + 1.
LEMMA SnNext ==
  ASSUME NEW c \in Int
  PROVE  ((c % SNMod) + 1) % SNMod = (c + 1) % SNMod
<1> DEFINE r == c % SNMod
<1>1. r \in 0 .. (SNMod - 1) /\ r \in Int
  BY ModulusFact, DivMod
<1>2. (c + 1) % SNMod = IF r = SNMod - 1 THEN 0 ELSE r + 1
  BY SnOfNext
<1> HIDE DEF r
<1>3. (r + 1) % SNMod = IF r = SNMod - 1 THEN 0 ELSE r + 1
  BY <1>1, SnOfNext, SnSmall
<1> QED BY <1>2, <1>3 DEF r

\* tp_tx_timer() finds the number of c from that of c + 1.
LEMMA SnBefore ==
  ASSUME NEW c \in Int
  PROVE  c % SNMod = IF (c + 1) % SNMod = 0 THEN SNMod - 1 ELSE ((c + 1) % SNMod) - 1
<1> DEFINE r == c % SNMod  s == (c + 1) % SNMod
<1>1. r \in 0 .. (SNMod - 1)
  BY ModulusFact, DivMod
<1>2. s = IF r = SNMod - 1 THEN 0 ELSE r + 1
  BY SnOfNext
<1> HIDE DEF r, s
<1>3. r = IF s = 0 THEN SNMod - 1 ELSE s - 1
  BY <1>1, <1>2, ModulusFact
<1> QED BY <1>3 DEF r, s

----------------------------------------------------------------------------
(* What channels go through.                                               *)

LEMMA FrameFacts ==
  /\ DC \in Frame /\ ~IsDT(DC) /\ ~IsAK(DC)
  /\ \A f \in Frame : /\ IsDT(f) => f.sn \in Numbers /\ f.msg \in Nat /\ ~IsAK(f)
                      /\ IsAK(f) => f.sn \in Numbers
  /\ \A sn \in Numbers : AK(sn) \in Frame /\ IsAK(AK(sn)) /\ ~IsDT(AK(sn)) /\ AK(sn).sn = sn
  /\ \A sn \in Numbers, m \in Nat :
       DT(sn, m) \in Frame /\ IsDT(DT(sn, m)) /\ ~IsAK(DT(sn, m))
       /\ DT(sn, m).sn = sn /\ DT(sn, m).msg = m
BY DEF Frame, IsDT, IsAK, DC, AK, DT

LEMMA TailFacts ==
  ASSUME NEW ch \in Seq(Frame), ch # <<>>
  PROVE  /\ Tail(ch) \in Seq(Frame) /\ Head(ch) = ch[1] /\ Head(ch) \in Frame
         /\ 1 \in 1 .. Len(ch)
         /\ \A k \in 1 .. Len(Tail(ch)) : k + 1 \in 1 .. Len(ch) /\ Tail(ch)[k] = ch[k + 1]
OBVIOUS

LEMMA AppendFacts ==
  ASSUME NEW ch \in Seq(Frame), NEW f \in Frame
  PROVE  /\ Append(ch, f) \in Seq(Frame)
         /\ \A k \in 1 .. Len(Append(ch, f)) :
              \/ k \in 1 .. Len(ch) /\ Append(ch, f)[k] = ch[k]
              \/ k = Len(ch) + 1 /\ Append(ch, f)[k] = f
OBVIOUS

\* A channel that loses its first frame.
LEMMA TailKeeps ==
  ASSUME NEW ch \in Seq(Frame), ch # <<>>, NEW lo, NEW hi
  PROVE  /\ DtOK(ch, lo, hi) => DtOK(Tail(ch), lo, hi)
         /\ AkOK(ch, lo, hi) => AkOK(Tail(ch), lo, hi)
<1>1. \A k \in 1 .. Len(Tail(ch)) : k + 1 \in 1 .. Len(ch) /\ Tail(ch)[k] = ch[k + 1]
  BY TailFacts
<1>2. \A j, k \in 1 .. Len(Tail(ch)) : j < k => j + 1 < k + 1
  OBVIOUS
<1> QED BY <1>1, <1>2 DEF DtOK, AkOK

\* The expected frame is received.
LEMMA DtAccepted ==
  ASSUME NEW ch \in Seq(Frame), ch # <<>>, NEW lo \in Nat, NEW hi \in Nat,
         DtOK(ch, lo, hi), IsDT(Head(ch)), Head(ch).msg = lo + 1
  PROVE  lo + 1 <= hi /\ DtOK(Tail(ch), lo + 1, hi)
<1>1. \A k \in 1 .. Len(Tail(ch)) :
        IsDT(Tail(ch)[k]) => /\ Tail(ch)[k].sn = (Tail(ch)[k].msg - 1) % SNMod
                             /\ Tail(ch)[k].msg \in (lo + 1) .. hi
  <2> SUFFICES ASSUME NEW k \in 1 .. Len(Tail(ch)), IsDT(Tail(ch)[k])
               PROVE  /\ Tail(ch)[k].sn = (Tail(ch)[k].msg - 1) % SNMod
                      /\ Tail(ch)[k].msg \in (lo + 1) .. hi
    OBVIOUS
  <2>1. k + 1 \in 1 .. Len(ch) /\ Tail(ch)[k] = ch[k + 1] /\ 1 \in 1 .. Len(ch) /\ ch[1] = Head(ch)
    BY TailFacts
  <2>2. ch[k + 1].msg \in lo .. hi /\ ch[k + 1].sn = (ch[k + 1].msg - 1) % SNMod
    BY <2>1 DEF DtOK
  <2>3. ch[1].msg <= ch[k + 1].msg
    BY <2>1 DEF DtOK
  <2> QED BY <2>1, <2>2, <2>3
<1>2. DtOK(Tail(ch), lo, hi)
  BY TailKeeps
<1>3. Head(ch).msg \in lo .. hi
  BY TailFacts DEF DtOK
<1>4. \A j, k \in 1 .. Len(Tail(ch)) :
        j < k /\ IsDT(Tail(ch)[j]) /\ IsDT(Tail(ch)[k]) => Tail(ch)[j].msg <= Tail(ch)[k].msg
  BY <1>2 DEF DtOK
<1>5. DtOK(Tail(ch), lo + 1, hi)
  BY <1>1, <1>4, Zenon DEF DtOK
<1> QED BY <1>3, <1>5

\* More messages are sent.
LEMMA DtRaise ==
  ASSUME NEW ch \in Seq(Frame), NEW lo \in Nat, NEW hi \in Nat, NEW top \in Nat,
         DtOK(ch, lo, hi), hi <= top
  PROVE  DtOK(ch, lo, top)
BY DEF DtOK

\* A frame for the last message sent, or no DT frame, is added.
LEMMA DtAppend ==
  ASSUME NEW ch \in Seq(Frame), NEW lo \in Nat, NEW hi \in Nat, lo <= hi,
         DtOK(ch, lo, hi), NEW f \in Frame,
         IsDT(f) => f.sn = (f.msg - 1) % SNMod /\ f.msg = hi
  PROVE  DtOK(Append(ch, f), lo, hi)
<1> DEFINE ch2 == Append(ch, f)
<1>1. \A k \in 1 .. Len(ch2) :
        \/ k \in 1 .. Len(ch) /\ ch2[k] = ch[k]
        \/ k = Len(ch) + 1 /\ ch2[k] = f
  OBVIOUS
<1>2. Len(ch) \in Nat
  OBVIOUS
<1> HIDE DEF ch2
<1>3. \A k \in 1 .. Len(ch2) :
        IsDT(ch2[k]) => ch2[k].sn = (ch2[k].msg - 1) % SNMod /\ ch2[k].msg \in lo .. hi
  BY <1>1 DEF DtOK
<1>4. \A j, k \in 1 .. Len(ch2) :
        j < k /\ IsDT(ch2[j]) /\ IsDT(ch2[k]) => ch2[j].msg <= ch2[k].msg
  <2> SUFFICES ASSUME NEW j \in 1 .. Len(ch2), NEW k \in 1 .. Len(ch2),
                      j < k, IsDT(ch2[j]), IsDT(ch2[k])
               PROVE  ch2[j].msg <= ch2[k].msg
    OBVIOUS
  <2>1. CASE k = Len(ch) + 1 /\ ch2[k] = f
    BY <1>3, <2>1
  <2>2. CASE k \in 1 .. Len(ch) /\ ch2[k] = ch[k]
    <3>1. j \in 1 .. Len(ch) /\ ch2[j] = ch[j]
      BY <1>1, <1>2, <2>2
    <3> QED BY <2>2, <3>1 DEF DtOK
  <2> QED BY <1>1, <2>1, <2>2
<1>5. DtOK(ch2, lo, hi)
  BY <1>3, <1>4 DEF DtOK
<1> QED BY <1>5 DEF ch2

\* An ACK that says what has been received, or no ACK, is added.
LEMMA AkAppend ==
  ASSUME NEW ch \in Seq(Frame), NEW c \in Nat, NEW had \in {c, c + 1},
         AkOK(ch, c, had), NEW f \in Frame, IsAK(f) => f.sn = had % SNMod
  PROVE  AkOK(Append(ch, f), c, had)
<1> DEFINE ch2 == Append(ch, f)
<1>1. \A k \in 1 .. Len(ch2) :
        \/ k \in 1 .. Len(ch) /\ ch2[k] = ch[k]
        \/ k = Len(ch) + 1 /\ ch2[k] = f
  OBVIOUS
<1>2. Len(ch) \in Nat
  OBVIOUS
<1> HIDE DEF ch2
<1>3. c % SNMod # (c + 1) % SNMod
  BY SnDiffer
<1>4. \A k \in 1 .. Len(ch2) :
        IsAK(ch2[k]) => \/ ch2[k].sn = c % SNMod
                        \/ ch2[k].sn = (c + 1) % SNMod /\ had = c + 1
  BY <1>1 DEF AkOK
<1>5. \A j, k \in 1 .. Len(ch2) :
        j < k /\ IsAK(ch2[j]) /\ IsAK(ch2[k]) /\ ch2[j].sn = (c + 1) % SNMod
          => ch2[k].sn = (c + 1) % SNMod
  <2> SUFFICES ASSUME NEW j \in 1 .. Len(ch2), NEW k \in 1 .. Len(ch2), j < k,
                      IsAK(ch2[j]), IsAK(ch2[k]), ch2[j].sn = (c + 1) % SNMod
               PROVE  ch2[k].sn = (c + 1) % SNMod
    OBVIOUS
  <2>1. CASE k = Len(ch) + 1 /\ ch2[k] = f
    <3>1. had = c + 1
      BY <1>3, <1>4
    <3> QED BY <2>1, <3>1
  <2>2. CASE k \in 1 .. Len(ch) /\ ch2[k] = ch[k]
    <3>1. j \in 1 .. Len(ch) /\ ch2[j] = ch[j]
      BY <1>1, <1>2, <2>2
    <3> QED BY <2>2, <3>1 DEF AkOK
  <2> QED BY <1>1, <2>1, <2>2
<1>6. AkOK(ch2, c, had)
  BY <1>4, <1>5 DEF AkOK
<1> QED BY <1>6 DEF ch2

\* The peer receives the message that is not complete.
LEMMA AkRaise ==
  ASSUME NEW ch, NEW c \in Nat, AkOK(ch, c, c)
  PROVE  AkOK(ch, c, c + 1)
BY DEF AkOK

\* The ACK that completes a message: it has been received, and all ACKs behind
\* this one say so.
LEMMA AkCompletes ==
  ASSUME NEW ch \in Seq(Frame), ch # <<>>, NEW c \in Nat, NEW had \in Nat,
         AkOK(ch, c, had), IsAK(Head(ch)), Head(ch).sn = (c + 1) % SNMod
  PROVE  had = c + 1 /\ AkOK(Tail(ch), c + 1, had)
<1>1. c % SNMod # (c + 1) % SNMod
  BY SnDiffer
<1>2. Head(ch) = ch[1] /\ 1 \in 1 .. Len(ch)
  BY TailFacts
<1>3. had = c + 1
  BY <1>1, <1>2 DEF AkOK
<1>4. \A k \in 1 .. Len(Tail(ch)) : IsAK(Tail(ch)[k]) => Tail(ch)[k].sn = (c + 1) % SNMod
  <2> SUFFICES ASSUME NEW k \in 1 .. Len(Tail(ch)), IsAK(Tail(ch)[k])
               PROVE  Tail(ch)[k].sn = (c + 1) % SNMod
    OBVIOUS
  <2>1. k + 1 \in 1 .. Len(ch) /\ Tail(ch)[k] = ch[k + 1] /\ 1 < k + 1
    BY TailFacts
  <2> QED BY <1>2, <2>1 DEF AkOK
<1>5. (c + 1) % SNMod # ((c + 1) + 1) % SNMod
  BY SnDiffer
<1> QED BY <1>3, <1>4, <1>5 DEF AkOK

----------------------------------------------------------------------------
(* What sending does to the channels.                                      *)

LEMMA XmitEffect ==
  ASSUME NEW n \in Nodes, NEW f \in Frame, NEW rest \in [Nodes -> Seq(Frame)],
         Xmit(n, f, rest)
  PROVE  /\ net' \in [Nodes -> Seq(Frame)]
         /\ net'[n] = rest[n]
         /\ net'[Peer(n)] \in {rest[Peer(n)], Append(rest[Peer(n)], f)}
<1>1. Peer(n) \in Nodes /\ Peer(n) # n
  BY PeerFacts
<1>2. PICK ch \in Sent(rest[Peer(n)], f) : net' = [rest EXCEPT ![Peer(n)] = ch]
  BY DEF Xmit
<1>3. ch \in {rest[Peer(n)], Append(rest[Peer(n)], f)}
  BY DEF Sent
<1>4. ch \in Seq(Frame)
  BY <1>1, <1>3, SMTT(30)
<1> QED BY <1>1, <1>2, <1>3, <1>4

LEMMA XmitBothEffect ==
  ASSUME NEW n \in Nodes, NEW f \in Frame, NEW g \in Frame,
         NEW rest \in [Nodes -> Seq(Frame)], XmitBoth(n, f, g, rest)
  PROVE  /\ net' \in [Nodes -> Seq(Frame)]
         /\ net'[n] = rest[n]
         /\ \E ch \in {rest[Peer(n)], Append(rest[Peer(n)], f)} :
              net'[Peer(n)] \in {ch, Append(ch, g)}
<1>1. Peer(n) \in Nodes /\ Peer(n) # n
  BY PeerFacts
<1>2. PICK ch \in Sent(rest[Peer(n)], f) : Xmit(n, g, [rest EXCEPT ![Peer(n)] = ch])
  BY DEF XmitBoth
<1>3. ch \in {rest[Peer(n)], Append(rest[Peer(n)], f)}
  BY DEF Sent
<1>4. ch \in Seq(Frame)
  BY <1>1, <1>3, SMTT(30)
<1> DEFINE mid == [rest EXCEPT ![Peer(n)] = ch]
<1>5. mid \in [Nodes -> Seq(Frame)] /\ mid[n] = rest[n] /\ mid[Peer(n)] = ch
  BY <1>1, <1>4
<1>6. Xmit(n, g, mid)
  BY <1>2
<1> HIDE DEF mid
<1>7. /\ net' \in [Nodes -> Seq(Frame)] /\ net'[n] = mid[n]
      /\ net'[Peer(n)] \in {mid[Peer(n)], Append(mid[Peer(n)], g)}
  BY <1>5, <1>6, XmitEffect
<1> QED BY <1>3, <1>5, <1>7

LEMMA FarewellEffect ==
  ASSUME NEW n \in Nodes, NEW rest \in [Nodes -> Seq(Frame)], Farewell(n, rest)
  PROVE  /\ net' \in [Nodes -> Seq(Frame)]
         /\ net'[n] = rest[n]
         /\ net'[Peer(n)] \in {rest[Peer(n)], Append(rest[Peer(n)], DC)}
<1>1. CASE con[n]
  BY <1>1, FrameFacts, XmitEffect DEF Farewell
<1>2. CASE ~con[n]
  BY <1>2 DEF Farewell
<1> QED BY <1>1, <1>2

\* The frame that arrived leaves its channel.
LEMMA ReceivedEffect ==
  ASSUME NEW n \in Nodes, net \in [Nodes -> Seq(Frame)], net[n] # <<>>
  PROVE  /\ Received(n) \in [Nodes -> Seq(Frame)]
         /\ Received(n)[n] = Tail(net[n]) /\ Received(n)[Peer(n)] = net[Peer(n)]
<1>1. Peer(n) \in Nodes /\ Peer(n) # n
  BY PeerFacts
<1>2. Tail(net[n]) \in Seq(Frame)
  BY TailFacts
<1> QED BY <1>1, <1>2 DEF Received


----------------------------------------------------------------------------
(* What a step of one node leaves alone.                                   *)

LEMMA Typed ==
  ASSUME TypeOK, NEW n \in Nodes
  PROVE  /\ net \in [Nodes -> Seq(Frame)] /\ net[n] \in Seq(Frame)
         /\ completed[n] \in Nat /\ Given(n) \in Nat
         /\ delivered[n] \in Seq(Nat) /\ Len(delivered[n]) \in Nat
         /\ Had(n) \in Nat /\ txsn[n] \in Numbers /\ rxsn[n] \in Numbers
<1>1. net \in [Nodes -> Seq(Frame)]
  BY DEF TypeOK, Frame
<1>2. Peer(n) \in Nodes
  BY PeerFacts
<1> QED BY <1>1, <1>2 DEF TypeOK, Given, Had

\* Both directions and both nodes make the invariant.
LEMMA Together ==
  ASSUME NEW n \in Nodes, TypeOK', Direction(n)', Direction(Peer(n))',
         NodeInv(n)', NodeInv(Peer(n))'
  PROVE  IInv'
<1>1. Nodes = {n, Peer(n)}
  BY PeerFacts
<1> QED BY <1>1 DEF IInv

LEMMA DirectionKept ==
  ASSUME NEW n \in Nodes, Direction(n),
         completed'[n] = completed[n], txState'[n] = txState[n], txsn'[n] = txsn[n],
         rxsn'[Peer(n)] = rxsn[Peer(n)], delivered'[Peer(n)] = delivered[Peer(n)],
         DtOK(net'[Peer(n)], Had(n), Given(n)), AkOK(net'[n], completed[n], Had(n))
  PROVE  Direction(n)'
<1>1. Given(n)' = Given(n) /\ Had(n)' = Had(n)
  BY DEF Given, Had, Waits
<1> QED BY <1>1 DEF Direction

\* What n does as a sender leaves the direction to it alone: it may take a frame
\* and send one that is no ACK.
LEMMA OtherKept ==
  ASSUME IInv, NEW n \in Nodes, NEW f \in Frame, ~IsAK(f),
         net'[n] = net[n] \/ (net[n] # <<>> /\ net'[n] = Tail(net[n])),
         net'[Peer(n)] \in {net[Peer(n)], Append(net[Peer(n)], f)},
         completed'[Peer(n)] = completed[Peer(n)], txState'[Peer(n)] = txState[Peer(n)],
         txsn'[Peer(n)] = txsn[Peer(n)], rxsn'[n] = rxsn[n], delivered'[n] = delivered[n]
  PROVE  Direction(Peer(n))'
<1>1. Peer(n) \in Nodes /\ Peer(Peer(n)) = n
  BY PeerFacts
<1>2. TypeOK /\ Direction(Peer(n))
  BY <1>1 DEF IInv
<1>3. net[n] \in Seq(Frame)
  BY <1>2, Typed
<1>4. /\ net[Peer(n)] \in Seq(Frame) /\ completed[Peer(n)] \in Nat
      /\ Given(Peer(n)) \in Nat /\ Had(Peer(n)) \in Nat
  BY <1>1, <1>2, Typed
<1>5. /\ DtOK(net[n], Had(Peer(n)), Given(Peer(n)))
      /\ AkOK(net[Peer(n)], completed[Peer(n)], Had(Peer(n)))
      /\ Had(Peer(n)) \in {completed[Peer(n)], completed[Peer(n)] + 1}
  BY <1>1, <1>2, <1>4 DEF Direction, Given
<1>6. DtOK(net'[n], Had(Peer(n)), Given(Peer(n)))
  BY <1>3, <1>5, TailKeeps
<1>7. AkOK(net'[Peer(n)], completed[Peer(n)], Had(Peer(n)))
  BY <1>4, <1>5, AkAppend
<1> QED BY <1>1, <1>2, <1>6, <1>7, DirectionKept

\* The direction from n, when n may take a frame and send DC.
LEMMA OwnKept ==
  ASSUME IInv, NEW n \in Nodes,
         net'[n] = net[n] \/ (net[n] # <<>> /\ net'[n] = Tail(net[n])),
         net'[Peer(n)] \in {net[Peer(n)], Append(net[Peer(n)], DC)},
         completed'[n] = completed[n], txState'[n] = txState[n], txsn'[n] = txsn[n],
         rxsn'[Peer(n)] = rxsn[Peer(n)], delivered'[Peer(n)] = delivered[Peer(n)]
  PROVE  Direction(n)'
<1>1. Peer(n) \in Nodes /\ TypeOK /\ Direction(n)
  BY PeerFacts DEF IInv
<1>2. /\ net[n] \in Seq(Frame) /\ net[Peer(n)] \in Seq(Frame)
      /\ Given(n) \in Nat /\ Had(n) \in Nat
  BY <1>1, Typed
<1>3. /\ DtOK(net[Peer(n)], Had(n), Given(n)) /\ Had(n) <= Given(n)
      /\ AkOK(net[n], completed[n], Had(n))
  BY <1>1 DEF Direction
<1>4. AkOK(net'[n], completed[n], Had(n))
  BY <1>2, <1>3, TailKeeps
<1>5. DtOK(net'[Peer(n)], Had(n), Given(n))
  <2>1. DC \in Frame /\ ~IsDT(DC)
    BY FrameFacts
  <2>2. DtOK(Append(net[Peer(n)], DC), Had(n), Given(n))
    BY <1>2, <1>3, <2>1, DtAppend
  <2> QED BY <1>3, <2>2
<1> QED BY <1>1, <1>4, <1>5, DirectionKept

\* The other node's part of the invariant, when nothing of it changes.
LEMMA NodeKept ==
  ASSUME NEW n \in Nodes, NodeInv(n), conf' = conf,
         completed'[n] = completed[n], txState'[n] = txState[n], con'[n] = con[n],
         conTimer'[n] = conTimer[n], delivered'[n] = delivered[n],
         HALF_DUPLEX => ~addedTwice'
  PROVE  NodeInv(n)'
BY DEF NodeInv, Alternates, IdleTimer, Waits, HALF_DUPLEX, AUTO_DISCONNECT

\* A node that does not wait has no message under way: the next one is new.
LEMMA Starts ==
  ASSUME TypeOK, NEW n \in Nodes, Direction(n), ~Waits(n)
  PROVE  /\ DT(txsn[n], completed[n] + 1) \in Frame
         /\ Had(n) = completed[n] /\ txsn[n] = completed[n] % SNMod
         /\ \A ch \in {net[Peer(n)], Append(net[Peer(n)], AK(rxsn[n])),
                       Append(net[Peer(n)], AK((rxsn[n] + 1) % SNMod))} :
              /\ DtOK(ch, completed[n], completed[n])
              /\ DtOK(ch, completed[n], completed[n] + 1)
              /\ DtOK(Append(ch, DT(txsn[n], completed[n] + 1)), completed[n], completed[n] + 1)
<1> DEFINE c == completed[n]  d == completed[n] + 1  f == DT(txsn[n], completed[n] + 1)
<1>1. /\ Peer(n) \in Nodes /\ net[Peer(n)] \in Seq(Frame) /\ c \in Nat /\ d \in Nat /\ c <= d
      /\ txsn[n] \in Numbers /\ rxsn[n] \in Numbers /\ Had(n) \in Nat /\ d - 1 = c
  BY PeerFacts, Typed
<1>2. Had(n) = c /\ txsn[n] = c % SNMod /\ DtOK(net[Peer(n)], c, c)
  BY <1>1 DEF Direction, Given
<1>3. f \in Frame /\ IsDT(f) /\ f.sn = c % SNMod /\ f.msg = d
  BY <1>1, <1>2, FrameFacts
<1>4. (rxsn[n] + 1) % SNMod \in Numbers
  <2>1. rxsn[n] + 1 \in Int
    BY <1>1, ModulusFact DEF Numbers
  <2> QED BY <2>1, SnRange
<1> HIDE DEF c, d, f
<1>5. ASSUME NEW ch \in {net[Peer(n)], Append(net[Peer(n)], AK(rxsn[n])),
                         Append(net[Peer(n)], AK((rxsn[n] + 1) % SNMod))}
      PROVE  DtOK(ch, c, c) /\ DtOK(ch, c, d) /\ DtOK(Append(ch, f), c, d)
  <2>1. ch \in Seq(Frame) /\ DtOK(ch, c, c)
    <3>1. CASE ch = net[Peer(n)]
      BY <1>1, <1>2, <3>1
    <3>2. ASSUME NEW sn \in Numbers, ch = Append(net[Peer(n)], AK(sn))
          PROVE  ch \in Seq(Frame) /\ DtOK(ch, c, c)
      <4>1. AK(sn) \in Frame /\ ~IsDT(AK(sn))
        BY FrameFacts
      <4>2. DtOK(Append(net[Peer(n)], AK(sn)), c, c)
        BY <1>1, <1>2, <4>1, DtAppend
      <4> QED BY <1>1, <3>2, <4>1, <4>2, AppendFacts
    <3> QED BY <1>1, <1>4, <3>1, <3>2
  <2>2. DtOK(ch, c, d)
    BY <1>1, <2>1, DtRaise
  <2>3. DtOK(Append(ch, f), c, d)
    <3>1. f.sn = (f.msg - 1) % SNMod
      BY <1>1, <1>3
    <3> QED BY <1>1, <1>3, <2>1, <2>2, <3>1, DtAppend
  <2> QED BY <2>1, <2>2, <2>3
<1> QED BY <1>2, <1>3, <1>5 DEF c, d, f

\* A node that waits repeats the message that is under way.
LEMMA Repeats ==
  ASSUME TypeOK, NEW n \in Nodes, Direction(n), Waits(n)
  PROVE  /\ DT(completed[n] % SNMod, completed[n] + 1) \in Frame
         /\ txsn[n] = (completed[n] + 1) % SNMod
         /\ DtOK(Append(net[Peer(n)], DT(completed[n] % SNMod, completed[n] + 1)), Had(n), Given(n))
<1> DEFINE c == completed[n]  d == completed[n] + 1
           f == DT(completed[n] % SNMod, completed[n] + 1)
<1>1. /\ Peer(n) \in Nodes /\ net[Peer(n)] \in Seq(Frame) /\ c \in Nat /\ d \in Nat
      /\ Had(n) \in Nat /\ d - 1 = c
  BY PeerFacts, Typed
<1>2. /\ Given(n) = d /\ Had(n) <= d /\ txsn[n] = d % SNMod
      /\ DtOK(net[Peer(n)], Had(n), d)
  BY <1>1 DEF Direction, Given
<1>3. c % SNMod \in Numbers
  BY <1>1, SnRange
<1>4. f \in Frame /\ IsDT(f) /\ f.sn = c % SNMod /\ f.msg = d
  BY <1>1, <1>3, FrameFacts
<1> HIDE DEF c, d, f
<1>5. f.sn = (f.msg - 1) % SNMod
  BY <1>1, <1>4
<1>6. DtOK(Append(net[Peer(n)], f), Had(n), d)
  BY <1>1, <1>2, <1>4, <1>5, DtAppend
<1> QED BY <1>2, <1>4, <1>6 DEF c, d, f

----------------------------------------------------------------------------
(* What the parts of the actions do.                                       *)

LEMMA CountsUp ==
  ASSUME NEW b \in Nat, NEW count \in [Nodes -> 0 .. b], NEW n \in Nodes, count[n] < b
  PROVE  [count EXCEPT ![n] = @ + 1] \in [Nodes -> 0 .. b]
<1>1. count[n] + 1 \in 0 .. b
  OBVIOUS
<1> QED BY <1>1

LEMMA CountersReset ==
  ASSUME TypeOK, NEW n \in Nodes,
         retrycnt' = [retrycnt EXCEPT ![n] = 0], blkerrcnt' = [blkerrcnt EXCEPT ![n] = 0]
  PROVE  retrycnt' \in [Nodes -> 0 .. mnt] /\ blkerrcnt' \in [Nodes -> 0 .. mnbe]
<1>1. retrycnt \in [Nodes -> 0 .. mnt] /\ blkerrcnt \in [Nodes -> 0 .. mnbe]
  BY DEF TypeOK
<1>2. 0 \in 0 .. mnt /\ 0 \in 0 .. mnbe
  BY ParmAssumption
<1> QED BY <1>1, <1>2

LEMMA TrafficEffect ==
  ASSUME TypeOK, NEW n \in Nodes, Traffic(n)
  PROVE  /\ conTimer' \in [Nodes -> BOOLEAN]
         /\ conTimer'[Peer(n)] = conTimer[Peer(n)]
         /\ conTimer'[n] => conTimer[n] /\ ~(AUTO_DISCONNECT /\ con[n])
<1>1. Peer(n) \in Nodes /\ Peer(n) # n /\ conTimer \in [Nodes -> BOOLEAN]
  BY PeerFacts DEF TypeOK
<1> DEFINE b == conTimer[n] /\ ~(AUTO_DISCONNECT /\ con[n])
<1>2. conTimer' = [conTimer EXCEPT ![n] = b]
  BY Zenon DEF Traffic
<1>3. b \in BOOLEAN
  OBVIOUS
<1> HIDE DEF b
<1>4. conTimer'[n] = b
  BY <1>1, <1>2
<1> QED BY <1>1, <1>2, <1>3, <1>4 DEF b

\* The DT frame after the one of message c is sent.
LEMMA SendEffect ==
  ASSUME TypeOK, NEW n \in Nodes, NEW c \in Nat, SendTpData(n, c % SNMod)
  PROVE  /\ txState' \in [Nodes -> {"TX_IDLE", "TX_WAIT_AK", "TX_BLOCKED"}]
         /\ txsn' \in [Nodes -> Numbers] /\ txTimer' \in [Nodes -> BOOLEAN]
         /\ Waits(n)' /\ txState'[n] = "TX_WAIT_AK" /\ txsn'[n] = (c + 1) % SNMod
         /\ txState'[Peer(n)] = txState[Peer(n)] /\ txsn'[Peer(n)] = txsn[Peer(n)]
<1>1. Peer(n) \in Nodes /\ Peer(n) # n
  BY PeerFacts
<1>2. ((c % SNMod) + 1) % SNMod = (c + 1) % SNMod /\ (c + 1) % SNMod \in Numbers
  BY SnNext, SnRange
<1>3. txTimer' \in [Nodes -> BOOLEAN]
  BY Zenon DEF TypeOK, SendTpData
<1> QED BY <1>1, <1>2, <1>3 DEF TypeOK, SendTpData, Waits

----------------------------------------------------------------------------
(* The invariant holds at the start.                                       *)

LEMMA InitIInv == Init => IInv
<1> SUFFICES ASSUME Init PROVE IInv
  OBVIOUS
<1>1. 0 % SNMod = 0 /\ 0 \in Numbers
  <2>1. 0 \in 0 .. (SNMod - 1)
    BY ModulusFact
  <2> QED BY <2>1, SnSmall DEF Numbers
<1>2. TypeOK
  <2>1. /\ 0 \in 0 .. mnt /\ 0 \in 0 .. mnbe
    BY ParmAssumption
  <2>2. conTimer \in [Nodes -> BOOLEAN] /\ txTimer \in [Nodes -> BOOLEAN] /\ con \in [Nodes -> BOOLEAN]
    BY Zenon DEF Init
  <2>3. net \in [Nodes -> Seq(Frame)] /\ delivered \in [Nodes -> Seq(Nat)]
    BY DEF Init
  <2>4. addedTwice \in BOOLEAN /\ conf \in Confs
    BY DEF Init
  <2> QED BY <1>1, <2>1, <2>2, <2>3, <2>4 DEF Init, TypeOK, Frame
<1>3. ASSUME NEW n \in Nodes PROVE Direction(n) /\ NodeInv(n)
  <2>1. Peer(n) \in Nodes
    BY PeerFacts
  <2>2. Given(n) = 0 /\ Had(n) = 0
    BY <2>1 DEF Init, Given, Had, Waits
  <2>3. Direction(n)
    BY <1>1, <2>1, <2>2 DEF Init, Direction, DtOK, AkOK
  <2>4. NodeInv(n)
    BY DEF Init, NodeInv, Alternates, IdleTimer
  <2> QED BY <2>3, <2>4
<1> QED BY <1>2, <1>3 DEF IInv

----------------------------------------------------------------------------
(* Every step keeps the invariant.                                         *)

LEMMA StepSendMsg ==
  ASSUME IInv, NEW n \in Nodes, SendMsg(n), conf' = conf
  PROVE  IInv'
<1>1. /\ Peer(n) \in Nodes /\ Peer(n) # n /\ TypeOK /\ Direction(n) /\ NodeInv(n)
      /\ NodeInv(Peer(n)) /\ (HALF_DUPLEX => ~addedTwice)
  BY PeerFacts DEF IInv, NodeInv, IdleTimer
<1>2. /\ net \in [Nodes -> Seq(Frame)] /\ completed[n] \in Nat
      /\ Had(n) \in Nat /\ txsn[n] \in Numbers
  BY <1>1, Typed
<1>3. UNCHANGED <<completed, rxsn, delivered, con, addedTwice>>
  BY DEF SendMsg
<1>4. CASE txState[n] = "TX_IDLE"
  <2> DEFINE f == DT(txsn[n], completed[n] + 1)
  <2>1. TxWakeup(n) /\ Traffic(n) /\ Xmit(n, f, net)
    BY <1>4 DEF SendMsg
  <2>2. ~Waits(n)
    BY <1>4 DEF Waits
  <2>3. /\ f \in Frame /\ Had(n) = completed[n] /\ txsn[n] = completed[n] % SNMod
        /\ DtOK(net[Peer(n)], completed[n], completed[n] + 1)
        /\ DtOK(Append(net[Peer(n)], f), completed[n], completed[n] + 1)
    BY <1>1, <2>2, Starts
  <2>4. ~IsAK(f)
    BY <1>2, FrameFacts
  <2> HIDE DEF f
  <2>5. /\ net' \in [Nodes -> Seq(Frame)] /\ net'[n] = net[n]
        /\ net'[Peer(n)] \in {net[Peer(n)], Append(net[Peer(n)], f)}
    BY <1>2, <2>1, <2>3, XmitEffect
  <2>6. /\ txState' \in [Nodes -> {"TX_IDLE", "TX_WAIT_AK", "TX_BLOCKED"}]
        /\ txsn' \in [Nodes -> Numbers] /\ txTimer' \in [Nodes -> BOOLEAN]
        /\ Waits(n)' /\ txState'[n] = "TX_WAIT_AK" /\ txsn'[n] = (completed[n] + 1) % SNMod
        /\ txState'[Peer(n)] = txState[Peer(n)] /\ txsn'[Peer(n)] = txsn[Peer(n)]
    BY <1>1, <1>2, <2>1, <2>3, SendEffect DEF TxWakeup
  <2>7. /\ conTimer' \in [Nodes -> BOOLEAN]
        /\ conTimer'[Peer(n)] = conTimer[Peer(n)]
        /\ conTimer'[n] => conTimer[n] /\ ~(AUTO_DISCONNECT /\ con[n])
    BY <1>1, <2>1, TrafficEffect
  <2>8. TypeOK'
    <3>1. submitted' \in [Nodes -> Nat]
      BY <1>1, SMTT(30) DEF TypeOK, SendMsg
    <3>2. retrycnt' \in [Nodes -> 0 .. mnt] /\ blkerrcnt' \in [Nodes -> 0 .. mnbe]
      BY <1>1, <2>1, CountersReset DEF TxWakeup
    <3> QED BY <1>1, <1>3, <2>5, <2>6, <2>7, <3>1, <3>2 DEF TypeOK, Frame
  <2>9. Direction(n)'
    <3>1. Given(n)' = completed[n] + 1 /\ Had(n)' = completed[n] /\ completed'[n] = completed[n]
      BY <1>1, <1>3, <2>3, <2>6 DEF Given, Had
    <3>2. DtOK(net'[Peer(n)], completed[n], completed[n] + 1)
      BY <2>3, <2>5
    <3>3. AkOK(net'[n], completed[n], completed[n])
      BY <1>1, <2>3, <2>5 DEF Direction
    <3> QED BY <1>1, <1>2, <1>3, <2>3, <2>6, <3>1, <3>2, <3>3 DEF Direction
  <2>10. Direction(Peer(n))'
    BY <1>3, <2>3, <2>4, <2>5, <2>6, OtherKept
  <2>11. NodeInv(n)'
    BY <1>1, <1>3, <1>4, <2>6, <2>7
       DEF NodeInv, Alternates, IdleTimer, Waits, HALF_DUPLEX, AUTO_DISCONNECT
  <2>12. NodeInv(Peer(n))'
    BY <1>1, <1>3, <2>6, <2>7, NodeKept
  <2> QED BY <2>8, <2>9, <2>10, <2>11, <2>12, Together
<1>5. CASE txState[n] # "TX_IDLE"
  <2>1. UNCHANGED <<txVars, conTimer, net>>
    BY <1>5 DEF SendMsg
  <2>2. TypeOK'
    <3>1. submitted' \in [Nodes -> Nat]
      BY <1>1, SMTT(30) DEF TypeOK, SendMsg
    <3> QED BY <1>1, <1>3, <2>1, <3>1 DEF TypeOK, txVars
  <2>3. Direction(n)'
    BY <1>1, <1>3, <2>1, DirectionKept DEF txVars, Direction
  <2>4. Direction(Peer(n))'
    BY <1>3, <2>1, FrameFacts, OtherKept DEF txVars
  <2>5. NodeInv(n)' /\ NodeInv(Peer(n))'
    BY <1>1, <1>3, <2>1, NodeKept DEF txVars
  <2> QED BY <2>2, <2>3, <2>4, <2>5, Together
<1> QED BY <1>4, <1>5


\* The facts each step starts from.
LEMMA Actor ==
  ASSUME IInv, NEW n \in Nodes
  PROVE  /\ Peer(n) \in Nodes /\ Peer(n) # n /\ TypeOK /\ Direction(n) /\ NodeInv(n)
         /\ NodeInv(Peer(n)) /\ (HALF_DUPLEX => ~addedTwice)
         /\ net \in [Nodes -> Seq(Frame)] /\ net[n] \in Seq(Frame) /\ net[Peer(n)] \in Seq(Frame)
         /\ completed[n] \in Nat /\ Had(n) \in Nat /\ Given(n) \in Nat /\ txsn[n] \in Numbers
<1>1. /\ Peer(n) \in Nodes /\ Peer(n) # n /\ TypeOK /\ Direction(n) /\ NodeInv(n)
      /\ NodeInv(Peer(n)) /\ (HALF_DUPLEX => ~addedTwice)
  BY PeerFacts DEF IInv, NodeInv, IdleTimer
<1> QED BY <1>1, Typed

\* A node ends its connection, and may say so.
LEMMA Disconnects ==
  ASSUME IInv, NEW n \in Nodes, conf' = conf, Disconnect(n),
         NEW rest, rest = net \/ (net[n] # <<>> /\ rest = Received(n)), Farewell(n, rest),
         UNCHANGED <<submitted, completed, txState, txsn, rxsn, delivered, addedTwice>>,
         retrycnt' \in [Nodes -> 0 .. mnt], blkerrcnt' \in [Nodes -> 0 .. mnbe],
         txTimer' \in [Nodes -> BOOLEAN], conTimer' \in [Nodes -> BOOLEAN],
         conTimer'[Peer(n)] = conTimer[Peer(n)], conTimer'[n] => conTimer[n]
  PROVE  IInv'
<1>1. /\ Peer(n) \in Nodes /\ Peer(n) # n /\ TypeOK /\ Direction(n) /\ NodeInv(n)
      /\ NodeInv(Peer(n)) /\ (HALF_DUPLEX => ~addedTwice)
      /\ net \in [Nodes -> Seq(Frame)]
  BY Actor
<1>2. con' \in [Nodes -> BOOLEAN] /\ con'[n] = FALSE /\ con'[Peer(n)] = con[Peer(n)]
  BY <1>1 DEF TypeOK, Disconnect
<1>3. /\ rest \in [Nodes -> Seq(Frame)] /\ rest[Peer(n)] = net[Peer(n)]
      /\ rest[n] = net[n] \/ (net[n] # <<>> /\ rest[n] = Tail(net[n]))
  BY <1>1, ReceivedEffect
<1>4. /\ net' \in [Nodes -> Seq(Frame)]
      /\ net'[n] = net[n] \/ (net[n] # <<>> /\ net'[n] = Tail(net[n]))
      /\ net'[Peer(n)] \in {net[Peer(n)], Append(net[Peer(n)], DC)}
  BY <1>3, FarewellEffect
<1>5. TypeOK'
  BY <1>1, <1>2, <1>4 DEF TypeOK, Frame
<1>6. Direction(n)'
  BY <1>4, OwnKept
<1>7. Direction(Peer(n))'
  BY <1>4, FrameFacts, OtherKept
<1>8. NodeInv(n)'
  BY <1>1, <1>2 DEF NodeInv, Alternates, IdleTimer, Waits, HALF_DUPLEX, AUTO_DISCONNECT
<1>9. NodeInv(Peer(n))'
  BY <1>1, <1>2, NodeKept
<1> QED BY <1>5, <1>6, <1>7, <1>8, <1>9, Together

LEMMA StepTimerGiveUp ==
  ASSUME IInv, NEW n \in Nodes, TimerGiveUp(n), conf' = conf
  PROVE  IInv'
<1>1. /\ Disconnect(n) /\ Farewell(n, net) /\ conTimer' = conTimer
      /\ UNCHANGED <<submitted, completed, txState, txsn, rxsn, delivered, addedTwice>>
  BY DEF TimerGiveUp
<1>2. TypeOK
  BY Actor
<1>3. /\ retrycnt' \in [Nodes -> 0 .. mnt] /\ blkerrcnt' \in [Nodes -> 0 .. mnbe]
      /\ conTimer' \in [Nodes -> BOOLEAN]
  BY <1>2, ParmAssumption, SMTT(30) DEF TypeOK, TimerGiveUp
<1>4. txTimer' \in [Nodes -> BOOLEAN]
  BY <1>2, Zenon DEF TypeOK, TimerGiveUp
<1> QED BY <1>1, <1>3, <1>4, Disconnects

LEMMA StepRxDC ==
  ASSUME IInv, NEW n \in Nodes, RxDC(n), conf' = conf
  PROVE  IInv'
<1>1. /\ Disconnect(n) /\ Farewell(n, Received(n)) /\ net[n] # <<>>
      /\ UNCHANGED <<submitted, completed, txVars, rxsn, delivered, conTimer, addedTwice>>
  BY DEF RxDC, Arrives
<1>2. TypeOK
  BY Actor
<1>3. /\ retrycnt' \in [Nodes -> 0 .. mnt] /\ blkerrcnt' \in [Nodes -> 0 .. mnbe]
      /\ conTimer' \in [Nodes -> BOOLEAN] /\ txTimer' \in [Nodes -> BOOLEAN]
      /\ UNCHANGED <<txState, txsn>>
  BY <1>1, <1>2 DEF TypeOK, txVars
<1> QED BY <1>1, <1>3, Disconnects

LEMMA StepConTimer ==
  ASSUME IInv, NEW n \in Nodes, ConTimer(n), conf' = conf
  PROVE  IInv'
<1>1. /\ Disconnect(n) /\ Farewell(n, net)
      /\ UNCHANGED <<submitted, completed, txVars, rxsn, delivered, addedTwice>>
  BY DEF ConTimer
<1>2. TypeOK /\ Peer(n) # n /\ Peer(n) \in Nodes
  BY Actor
<1>3. /\ retrycnt' \in [Nodes -> 0 .. mnt] /\ blkerrcnt' \in [Nodes -> 0 .. mnbe]
      /\ txTimer' \in [Nodes -> BOOLEAN] /\ UNCHANGED <<txState, txsn>>
  BY <1>1, <1>2 DEF TypeOK, txVars
<1>4. conTimer' = [conTimer EXCEPT ![n] = FALSE] /\ conTimer \in [Nodes -> BOOLEAN]
  BY <1>2 DEF TypeOK, ConTimer
<1>5. /\ conTimer' \in [Nodes -> BOOLEAN] /\ conTimer'[n] = FALSE
      /\ conTimer'[Peer(n)] = conTimer[Peer(n)]
  BY <1>2, <1>4
<1> QED BY <1>1, <1>3, <1>5, Disconnects

LEMMA StepAckIgnored ==
  ASSUME IInv, NEW n \in Nodes, AckIgnored(n), conf' = conf
  PROVE  IInv'
<1>1. /\ net[n] # <<>> /\ net' = Received(n)
      /\ UNCHANGED <<submitted, completed, txVars, rxsn, delivered, con, conTimer, addedTwice>>
  BY DEF AckIgnored, Arrives
<1>2. /\ Peer(n) \in Nodes /\ TypeOK /\ NodeInv(n) /\ NodeInv(Peer(n))
      /\ (HALF_DUPLEX => ~addedTwice) /\ net \in [Nodes -> Seq(Frame)]
  BY Actor
<1>3. /\ net' \in [Nodes -> Seq(Frame)]
      /\ net'[n] = Tail(net[n]) /\ net'[Peer(n)] = net[Peer(n)]
  BY <1>1, <1>2, ReceivedEffect
<1>4. TypeOK'
  BY <1>1, <1>2, <1>3 DEF TypeOK, Frame, txVars
<1>5. Direction(n)'
  BY <1>1, <1>3, OwnKept DEF txVars
<1>6. Direction(Peer(n))'
  BY <1>1, <1>3, FrameFacts, OtherKept DEF txVars
<1>7. NodeInv(n)' /\ NodeInv(Peer(n))'
  BY <1>1, <1>2, NodeKept DEF txVars
<1> QED BY <1>4, <1>5, <1>6, <1>7, Together

\* The message that is under way is sent again, whatever made it necessary.
LEMMA SentAgain ==
  ASSUME IInv, NEW n \in Nodes, conf' = conf, Waits(n),
         NEW rest, rest = net \/ (net[n] # <<>> /\ rest = Received(n)),
         SendTpData(n, completed[n] % SNMod), Traffic(n),
         Xmit(n, DT(completed[n] % SNMod, completed[n] + 1), rest),
         UNCHANGED <<submitted, completed, rxsn, delivered, con, addedTwice>>,
         retrycnt' \in [Nodes -> 0 .. mnt], blkerrcnt' \in [Nodes -> 0 .. mnbe]
  PROVE  IInv'
<1> DEFINE f == DT(completed[n] % SNMod, completed[n] + 1)
<1>1. /\ Peer(n) \in Nodes /\ Peer(n) # n /\ TypeOK /\ Direction(n) /\ NodeInv(n)
      /\ NodeInv(Peer(n)) /\ (HALF_DUPLEX => ~addedTwice)
      /\ net \in [Nodes -> Seq(Frame)] /\ net[n] \in Seq(Frame) /\ net[Peer(n)] \in Seq(Frame)
      /\ completed[n] \in Nat /\ Given(n) \in Nat /\ Had(n) \in Nat
  BY Actor
<1>2. /\ f \in Frame /\ txsn[n] = (completed[n] + 1) % SNMod
      /\ DtOK(Append(net[Peer(n)], f), Had(n), Given(n))
  BY <1>1, Repeats
<1>3. ~IsAK(f)
  <2>1. completed[n] % SNMod \in Numbers /\ completed[n] + 1 \in Nat
    BY <1>1, SnRange
  <2> QED BY <2>1, FrameFacts
<1>4. Xmit(n, f, rest)
  OBVIOUS
<1> HIDE DEF f
<1>5. /\ rest \in [Nodes -> Seq(Frame)] /\ rest[Peer(n)] = net[Peer(n)]
      /\ rest[n] = net[n] \/ (net[n] # <<>> /\ rest[n] = Tail(net[n]))
  BY <1>1, ReceivedEffect
<1>6. /\ net' \in [Nodes -> Seq(Frame)]
      /\ net'[n] = net[n] \/ (net[n] # <<>> /\ net'[n] = Tail(net[n]))
      /\ net'[Peer(n)] \in {net[Peer(n)], Append(net[Peer(n)], f)}
  BY <1>2, <1>4, <1>5, XmitEffect
<1>7. /\ txState' \in [Nodes -> {"TX_IDLE", "TX_WAIT_AK", "TX_BLOCKED"}]
      /\ txsn' \in [Nodes -> Numbers] /\ txTimer' \in [Nodes -> BOOLEAN]
      /\ Waits(n)' /\ txState'[n] = "TX_WAIT_AK" /\ txsn'[n] = (completed[n] + 1) % SNMod
      /\ txState'[Peer(n)] = txState[Peer(n)] /\ txsn'[Peer(n)] = txsn[Peer(n)]
  BY <1>1, SendEffect
<1>8. /\ conTimer' \in [Nodes -> BOOLEAN]
      /\ conTimer'[Peer(n)] = conTimer[Peer(n)]
      /\ conTimer'[n] => conTimer[n] /\ ~(AUTO_DISCONNECT /\ con[n])
  BY <1>1, TrafficEffect
<1>9. TypeOK'
  BY <1>1, <1>6, <1>7, <1>8 DEF TypeOK, Frame
<1>10. Direction(n)'
  <2>1. AkOK(net[n], completed[n], Had(n)) /\ DtOK(net[Peer(n)], Had(n), Given(n))
    BY <1>1 DEF Direction
  <2>2. AkOK(net'[n], completed[n], Had(n))
    BY <1>1, <1>6, <2>1, TailKeeps
  <2>3. DtOK(net'[Peer(n)], Had(n), Given(n))
    BY <1>2, <1>6, <2>1
  <2>4. txState'[n] = txState[n] /\ txsn'[n] = txsn[n]
    BY <1>2, <1>7 DEF Waits
  <2> QED BY <1>1, <2>2, <2>3, <2>4, DirectionKept
<1>11. Direction(Peer(n))'
  BY <1>2, <1>3, <1>6, <1>7, OtherKept
<1>12. NodeInv(n)'
  BY <1>1, <1>7, <1>8 DEF NodeInv, Alternates, IdleTimer, Waits, HALF_DUPLEX, AUTO_DISCONNECT
<1>13. NodeInv(Peer(n))'
  BY <1>1, <1>7, <1>8, NodeKept
<1> QED BY <1>9, <1>10, <1>11, <1>12, <1>13, Together

LEMMA StepTimerResend ==
  ASSUME IInv, NEW n \in Nodes, TimerResend(n), conf' = conf
  PROVE  IInv'
<1> DEFINE sn == IF txsn[n] = 0 THEN SNMod - 1 ELSE txsn[n] - 1
<1>1. /\ SendTpData(n, sn) /\ Traffic(n) /\ Xmit(n, DT(sn, completed[n] + 1), net)
      /\ Waits(n) /\ retrycnt[n] < mnt
      /\ UNCHANGED <<submitted, completed, blkerrcnt, rxsn, delivered, con, addedTwice>>
      /\ retrycnt' = [retrycnt EXCEPT ![n] = @ + 1]
  BY DEF TimerResend, RetriesLeft, Waits
<1>2. TypeOK /\ Direction(n) /\ completed[n] \in Nat
  BY Actor
<1>3. txsn[n] = (completed[n] + 1) % SNMod
  BY <1>1, <1>2, Repeats
<1>4. sn = completed[n] % SNMod
  BY <1>2, <1>3, SnBefore
<1>5. retrycnt' \in [Nodes -> 0 .. mnt] /\ blkerrcnt' \in [Nodes -> 0 .. mnbe]
  <2>1. retrycnt \in [Nodes -> 0 .. mnt] /\ blkerrcnt \in [Nodes -> 0 .. mnbe] /\ mnt \in Nat
    BY <1>2, ParmAssumption DEF TypeOK
  <2>2. [retrycnt EXCEPT ![n] = @ + 1] \in [Nodes -> 0 .. mnt]
    BY <1>1, <2>1, CountsUp
  <2> QED BY <1>1, <2>1, <2>2
<1> HIDE DEF sn
<1> QED BY <1>1, <1>4, <1>5, SentAgain

LEMMA StepAckWrongSN ==
  ASSUME IInv, NEW n \in Nodes, AckWrongSN(n), conf' = conf
  PROVE  IInv'
<1> DEFINE sn == Head(net[n]).sn
<1>1. /\ net[n] # <<>> /\ IsAK(Head(net[n])) /\ Waits(n) /\ sn # txsn[n]
      /\ retrycnt' = [retrycnt EXCEPT ![n] = 0]
      /\ UNCHANGED <<submitted, completed, rxsn, delivered, addedTwice>>
  BY DEF AckWrongSN, Arrives, IsAK, Waits
<1>2. TypeOK /\ Direction(n) /\ completed[n] \in Nat /\ net[n] \in Seq(Frame)
  BY Actor
<1>3. txsn[n] = (completed[n] + 1) % SNMod
  BY <1>1, <1>2, Repeats
<1>4. retrycnt' \in [Nodes -> 0 .. mnt]
  BY <1>1, <1>2, ParmAssumption, SMTT(30) DEF TypeOK
<1>5. CASE blkerrcnt[n] < mnbe
  <2>1. /\ blkerrcnt' = [blkerrcnt EXCEPT ![n] = @ + 1]
        /\ SendTpData(n, sn) /\ Traffic(n)
        /\ Xmit(n, DT(sn, completed[n] + 1), Received(n))
        /\ con' = con
    BY <1>5 DEF AckWrongSN
  <2>2. sn = completed[n] % SNMod
    <3>1. Head(net[n]) = net[n][1] /\ 1 \in 1 .. Len(net[n])
      BY <1>1, <1>2, TailFacts
    <3> QED BY <1>1, <1>2, <1>3, <3>1 DEF Direction, AkOK
  <2>3. blkerrcnt' \in [Nodes -> 0 .. mnbe]
    <3>1. blkerrcnt \in [Nodes -> 0 .. mnbe] /\ mnbe \in Nat
      BY <1>2, ParmAssumption DEF TypeOK
    <3> QED BY <1>5, <2>1, <3>1, CountsUp
  <2> HIDE DEF sn
  <2> QED BY <1>1, <1>4, <2>1, <2>2, <2>3, SentAgain
<1>6. CASE ~(blkerrcnt[n] < mnbe)
  <2>1. /\ Disconnect(n) /\ Farewell(n, Received(n))
        /\ UNCHANGED <<blkerrcnt, txsn, txState, conTimer>>
        /\ txTimer' = [txTimer EXCEPT ![n] = FALSE]
    BY <1>6 DEF AckWrongSN
  <2>2. txTimer' \in [Nodes -> BOOLEAN]
    BY <1>2, <2>1, Zenon DEF TypeOK
  <2>3. conTimer' \in [Nodes -> BOOLEAN] /\ blkerrcnt' \in [Nodes -> 0 .. mnbe]
    BY <1>2, <2>1 DEF TypeOK
  <2> QED BY <1>1, <1>4, <2>1, <2>2, <2>3, Disconnects
<1> QED BY <1>5, <1>6

LEMMA StepAckComplete ==
  ASSUME IInv, NEW n \in Nodes, AckComplete(n), conf' = conf
  PROVE  IInv'
<1> DEFINE c == completed[n]  d == completed[n] + 1
           timed == AUTO_DISCONNECT /\ con[n]
           next == ~Blocks /\ Queued(n, completed[n] + 1)
           f == DT(txsn[n], completed[n] + 1 + 1)
<1>1. /\ Peer(n) \in Nodes /\ Peer(n) # n /\ TypeOK /\ Direction(n) /\ NodeInv(n)
      /\ NodeInv(Peer(n)) /\ (HALF_DUPLEX => ~addedTwice)
      /\ net \in [Nodes -> Seq(Frame)] /\ net[n] \in Seq(Frame) /\ net[Peer(n)] \in Seq(Frame)
      /\ c \in Nat /\ d \in Nat /\ Had(n) \in Nat /\ txsn[n] \in Numbers
  BY Actor
<1>2. /\ net[n] # <<>> /\ IsAK(Head(net[n])) /\ Waits(n) /\ Head(net[n]).sn = txsn[n]
      /\ completed' = [completed EXCEPT ![n] = d]
      /\ conTimer' = [conTimer EXCEPT ![n] = @ \/ timed]
      /\ addedTwice' = (addedTwice \/ (timed /\ ~next /\ conTimer[n]))
      /\ UNCHANGED <<submitted, rxsn, delivered, con>>
  BY DEF AckComplete, Arrives, IsAK, Waits
<1>3. /\ next => TxWakeup(n) /\ Xmit(n, f, Received(n))
      /\ ~next => /\ txState' = [txState EXCEPT ![n] = IF Blocks THEN "TX_BLOCKED" ELSE "TX_IDLE"]
                  /\ txTimer' = [txTimer EXCEPT ![n] = FALSE]
                  /\ retrycnt' = [retrycnt EXCEPT ![n] = 0]
                  /\ blkerrcnt' = [blkerrcnt EXCEPT ![n] = 0]
                  /\ net' = Received(n)
                  /\ txsn' = txsn
  BY DEF AckComplete
<1>4. txsn[n] = d % SNMod /\ Given(n) = d
  BY <1>1, <1>2 DEF Direction, Given
<1>5. Had(n) = d /\ AkOK(Tail(net[n]), d, d)
  <2>1. AkOK(net[n], c, Had(n)) /\ Head(net[n]).sn = (c + 1) % SNMod
    BY <1>1, <1>2, <1>4 DEF Direction
  <2>2. Had(n) = c + 1 /\ AkOK(Tail(net[n]), c + 1, Had(n))
    BY <1>1, <1>2, <2>1, AkCompletes
  <2> QED BY <2>2
<1>6. DtOK(net[Peer(n)], d, d)
  BY <1>1, <1>4, <1>5 DEF Direction
<1>7. /\ Received(n) \in [Nodes -> Seq(Frame)]
      /\ Received(n)[n] = Tail(net[n]) /\ Received(n)[Peer(n)] = net[Peer(n)]
  BY <1>1, <1>2, ReceivedEffect
<1>8. /\ conTimer' \in [Nodes -> BOOLEAN] /\ conTimer'[Peer(n)] = conTimer[Peer(n)]
      /\ conTimer'[n] => conTimer[n] \/ timed
  <2> DEFINE b == conTimer[n] \/ timed
  <2>1. conTimer' = [conTimer EXCEPT ![n] = b] /\ b \in BOOLEAN
    BY <1>2, Zenon
  <2>2. conTimer \in [Nodes -> BOOLEAN]
    BY <1>1 DEF TypeOK
  <2> HIDE DEF b
  <2>3. conTimer' \in [Nodes -> BOOLEAN] /\ conTimer'[Peer(n)] = conTimer[Peer(n)] /\ conTimer'[n] = b
    BY <1>1, <2>1, <2>2
  <2> QED BY <2>3 DEF b
<1>9. addedTwice' \in BOOLEAN
  BY <1>2, Zenon
<1>10. completed' \in [Nodes -> Nat] /\ completed'[n] = d /\ completed'[Peer(n)] = completed[Peer(n)]
  BY <1>1, <1>2 DEF TypeOK
<1>11. retrycnt' \in [Nodes -> 0 .. mnt] /\ blkerrcnt' \in [Nodes -> 0 .. mnbe]
  <2>1. retrycnt' = [retrycnt EXCEPT ![n] = 0] /\ blkerrcnt' = [blkerrcnt EXCEPT ![n] = 0]
    BY <1>3 DEF TxWakeup
  <2> QED BY <1>1, <2>1, CountersReset
<1>12. HALF_DUPLEX => ~addedTwice'
  BY <1>1, <1>2 DEF NodeInv, IdleTimer
<1>13. Had(n)' = d
  BY <1>2, <1>5 DEF Had
<1>14. CASE next
  <2>1. TxWakeup(n) /\ Xmit(n, f, Received(n))
    BY <1>3, <1>14
  <2>2. /\ txState' \in [Nodes -> {"TX_IDLE", "TX_WAIT_AK", "TX_BLOCKED"}]
        /\ txsn' \in [Nodes -> Numbers] /\ txTimer' \in [Nodes -> BOOLEAN]
        /\ Waits(n)' /\ txState'[n] = "TX_WAIT_AK" /\ txsn'[n] = (d + 1) % SNMod
        /\ txState'[Peer(n)] = txState[Peer(n)] /\ txsn'[Peer(n)] = txsn[Peer(n)]
    <3>1. SendTpData(n, d % SNMod)
      BY <1>4, <2>1 DEF TxWakeup
    <3> HIDE DEF d
    <3> QED BY <1>1, <3>1, SendEffect
  <2>3. f \in Frame /\ IsDT(f) /\ ~IsAK(f) /\ f.sn = d % SNMod /\ f.msg = d + 1
    BY <1>1, <1>4, FrameFacts
  <2> HIDE DEF f, d
  <2>4. /\ net' \in [Nodes -> Seq(Frame)] /\ net'[n] = Tail(net[n])
        /\ net'[Peer(n)] \in {net[Peer(n)], Append(net[Peer(n)], f)}
    BY <1>7, <2>1, <2>3, XmitEffect
  <2>5. TypeOK'
    BY <1>1, <1>2, <1>8, <1>9, <1>10, <1>11, <2>2, <2>4 DEF TypeOK, Frame
  <2>6. Direction(n)'
    <3>1. Given(n)' = d + 1
      BY <1>10, <2>2 DEF Given
    <3>2. DtOK(net'[Peer(n)], d, d + 1)
      <4>1. d <= d + 1 /\ d + 1 \in Nat /\ f.sn = (f.msg - 1) % SNMod
        BY <1>1, <2>3
      <4>2. DtOK(net[Peer(n)], d, d + 1)
        BY <1>1, <1>6, <4>1, DtRaise
      <4>3. DtOK(Append(net[Peer(n)], f), d, d + 1)
        BY <1>1, <2>3, <4>1, <4>2, DtAppend
      <4> QED BY <2>4, <4>2, <4>3
    <3>3. /\ rxsn'[Peer(n)] = d % SNMod
          /\ \A i \in 1 .. d : delivered'[Peer(n)][i] = i
      BY <1>1, <1>2, <1>5 DEF Direction
    <3> QED BY <1>1, <1>5, <1>10, <1>13, <2>2, <2>4, <3>1, <3>2, <3>3 DEF Direction
  <2>7. Direction(Peer(n))'
    BY <1>2, <1>10, <2>2, <2>3, <2>4, OtherKept
  <2>8. NodeInv(n)'
    <3>1. ~HALF_DUPLEX
      BY <1>14 DEF Blocks
    <3> QED BY <1>1, <1>8, <3>1 DEF NodeInv, Alternates, IdleTimer, HALF_DUPLEX, AUTO_DISCONNECT
  <2>9. NodeInv(Peer(n))'
    BY <1>1, <1>2, <1>8, <1>10, <1>12, <2>2, NodeKept
  <2> QED BY <2>5, <2>6, <2>7, <2>8, <2>9, Together
<1>15. CASE ~next
  <2>1. /\ txState' = [txState EXCEPT ![n] = IF Blocks THEN "TX_BLOCKED" ELSE "TX_IDLE"]
        /\ txTimer' = [txTimer EXCEPT ![n] = FALSE]
        /\ net' = Received(n) /\ txsn' = txsn
    BY <1>3, <1>15
  <2>2. /\ txState' \in [Nodes -> {"TX_IDLE", "TX_WAIT_AK", "TX_BLOCKED"}]
        /\ txState'[n] = (IF Blocks THEN "TX_BLOCKED" ELSE "TX_IDLE")
        /\ txState'[Peer(n)] = txState[Peer(n)]
    BY <1>1, <2>1 DEF TypeOK
  <2>3. txTimer' \in [Nodes -> BOOLEAN]
    BY <1>1, <2>1, Zenon DEF TypeOK
  <2> HIDE DEF d
  <2>4. TypeOK'
    BY <1>1, <1>2, <1>7, <1>8, <1>9, <1>10, <1>11, <2>1, <2>2, <2>3 DEF TypeOK, Frame
  <2>5. ~Waits(n)'
    BY <2>2 DEF Waits
  <2>6. Direction(n)'
    <3>1. Given(n)' = d
      BY <1>10, <2>5 DEF Given
    <3>2. /\ rxsn'[Peer(n)] = d % SNMod
          /\ \A i \in 1 .. d : delivered'[Peer(n)][i] = i
      BY <1>1, <1>2, <1>5 DEF Direction
    <3> QED BY <1>1, <1>4, <1>5, <1>6, <1>7, <1>10, <1>13, <2>1, <3>1, <3>2 DEF Direction
  <2>7. Direction(Peer(n))'
    BY <1>2, <1>7, <1>10, <2>1, <2>2, FrameFacts, OtherKept
  <2>8. NodeInv(n)'
    <3>1. Alternates(n)'
      <4>1. HALF_DUPLEX => txState'[n] = "TX_BLOCKED" /\ c <= Len(delivered[n])
        BY <1>1, <1>2, <2>2 DEF NodeInv, Alternates, Waits, Blocks
      <4>2. HALF_DUPLEX' = HALF_DUPLEX /\ delivered'[n] = delivered[n] /\ Len(delivered[n]) \in Nat
        BY <1>1, <1>2, Typed DEF HALF_DUPLEX
      <4> QED BY <1>1, <1>10, <4>1, <4>2 DEF Alternates, d
    <3>2. IdleTimer(n)'
      BY <1>1, <1>8, <1>12, <2>5 DEF NodeInv, IdleTimer, HALF_DUPLEX, AUTO_DISCONNECT
    <3> QED BY <3>1, <3>2 DEF NodeInv
  <2>9. NodeInv(Peer(n))'
    BY <1>1, <1>2, <1>8, <1>10, <1>12, <2>2, NodeKept
  <2> QED BY <2>4, <2>6, <2>7, <2>8, <2>9, Together
<1> QED BY <1>14, <1>15

\* What tp_rx_data() makes of the frame at the head of the channel: of the expected one
\* the next message, of a repetition nothing.
LEMMA Receives ==
  ASSUME IInv, NEW n \in Nodes, net[n] # <<>>, NEW f, f = Head(net[n]), IsDT(f),
         IF Accepts(n, f)
         THEN /\ rxsn' = [rxsn EXCEPT ![n] = (@ + 1) % SNMod]
              /\ delivered' = [delivered EXCEPT ![n] = Append(@, f.msg)]
         ELSE UNCHANGED <<rxsn, delivered>>,
         NEW had, had = Len(delivered'[n])
  PROVE  /\ rxsn' \in [Nodes -> Numbers] /\ delivered' \in [Nodes -> Seq(Nat)]
         /\ rxsn'[Peer(n)] = rxsn[Peer(n)] /\ delivered'[Peer(n)] = delivered[Peer(n)]
         /\ rxsn'[n] = had % SNMod /\ AckSN(n, f) = had % SNMod
         /\ AckSN(n, f) \in {rxsn[n], (rxsn[n] + 1) % SNMod} /\ AckSN(n, f) \in Numbers
         /\ had = IF Accepts(n, f) THEN Len(delivered[n]) + 1 ELSE Len(delivered[n])
         /\ completed[Peer(n)] <= had /\ had <= Given(Peer(n))
         /\ had \in {completed[Peer(n)], completed[Peer(n)] + 1}
         /\ \A i \in 1 .. had : delivered'[n][i] = i
         /\ DtOK(Tail(net[n]), had, Given(Peer(n)))
         /\ AkOK(net[Peer(n)], completed[Peer(n)], had)
<1> DEFINE p == Peer(n)  c == completed[Peer(n)]  g == Given(Peer(n))  h == Len(delivered[n])
<1>1. /\ p \in Nodes /\ p # n /\ TypeOK /\ Direction(p) /\ Peer(p) = n /\ Had(p) = h
  BY PeerFacts DEF IInv, Had
<1>2. /\ net[n] \in Seq(Frame) /\ delivered[n] \in Seq(Nat) /\ h \in Nat /\ rxsn[n] \in Numbers
  BY <1>1, Typed
<1>3. c \in Nat /\ g \in Nat
  BY <1>1, Typed
<1>4. /\ c <= h /\ h <= g /\ rxsn[n] = h % SNMod
      /\ \A i \in 1 .. h : delivered[n][i] = i
      /\ DtOK(net[n], h, g) /\ AkOK(net[p], c, h)
  BY <1>1 DEF Direction
<1>5. g <= c + 1
  BY <1>1, <1>3 DEF Given
<1>6. f \in Frame /\ f.msg \in h .. g /\ f.sn = (f.msg - 1) % SNMod
  BY <1>2, <1>4, TailFacts DEF DtOK
<1>7. rxsn \in [Nodes -> Numbers] /\ delivered \in [Nodes -> Seq(Nat)]
  BY <1>1 DEF TypeOK
<1> HIDE DEF p, c, g, h
<1>8. ((rxsn[n] + 1) % SNMod) = (h + 1) % SNMod /\ (h + 1) % SNMod \in Numbers
  <2>1. h \in Int /\ h + 1 \in Int
    BY <1>2
  <2> QED BY <1>4, <2>1, SnNext, SnRange
<1>9. CASE Accepts(n, f)
  <2>1. f.msg = h + 1
    <3>1. f.msg = h \/ f.msg = h + 1
      BY <1>2, <1>3, <1>4, <1>5, <1>6
    <3>2. f.msg # h
      <4> SUFFICES ASSUME f.msg = h PROVE FALSE
        OBVIOUS
      <4>1. (h - 1) % SNMod = h % SNMod
        BY <1>4, <1>6, <1>9 DEF Accepts
      <4> DEFINE e == h - 1
      <4>2. e \in Int /\ e + 1 = h
        BY <1>2
      <4>3. e % SNMod = (e + 1) % SNMod
        BY <4>1, <4>2
      <4> HIDE DEF e
      <4> QED BY <4>2, <4>3, SnDiffer
    <3> QED BY <3>1, <3>2
  <2>2. h + 1 <= g /\ DtOK(Tail(net[n]), h + 1, g)
    BY <1>2, <1>3, <1>4, <2>1, DtAccepted
  <2>3. h = c
    BY <1>2, <1>3, <1>4, <1>5, <2>2
  <2>4. AkOK(net[p], c, c + 1)
    BY <1>3, <1>4, <2>3, AkRaise
  <2>5. /\ rxsn' = [rxsn EXCEPT ![n] = (h + 1) % SNMod]
        /\ delivered' = [delivered EXCEPT ![n] = Append(delivered[n], h + 1)]
    BY <1>8, <1>9, <2>1
  <2>6. /\ Append(delivered[n], h + 1) \in Seq(Nat) /\ Len(Append(delivered[n], h + 1)) = h + 1
        /\ \A i \in 1 .. (h + 1) : Append(delivered[n], h + 1)[i] = i
    BY <1>2, <1>4, SMTT(30) DEF h
  <2>7. /\ rxsn' \in [Nodes -> Numbers] /\ delivered' \in [Nodes -> Seq(Nat)]
        /\ rxsn'[p] = rxsn[p] /\ delivered'[p] = delivered[p]
        /\ rxsn'[n] = (h + 1) % SNMod /\ delivered'[n] = Append(delivered[n], h + 1)
    BY <1>1, <1>7, <1>8, <2>5, <2>6
  <2>8. had = h + 1 /\ AckSN(n, f) = (h + 1) % SNMod
    BY <1>8, <1>9, <2>6, <2>7 DEF AckSN
  <2>9. \A i \in 1 .. had : delivered'[n][i] = i
    BY <2>6, <2>7, <2>8
  <2>10. c <= had /\ had <= g /\ had \in {c, c + 1}
    BY <1>3, <2>2, <2>3, <2>8
  <2>11. AkOK(net[p], c, had) /\ DtOK(Tail(net[n]), had, g)
    BY <2>2, <2>3, <2>4, <2>8
  <2> QED BY <1>8, <1>9, <2>7, <2>8, <2>9, <2>10, <2>11 DEF p, c, g, h
<1>10. CASE ~Accepts(n, f)
  <2>1. rxsn' = rxsn /\ delivered' = delivered /\ AckSN(n, f) = rxsn[n]
    BY <1>10 DEF AckSN
  <2>2. had = h
    BY <2>1 DEF h
  <2>3. had \in {c, c + 1}
    BY <1>2, <1>3, <1>4, <1>5, <2>2
  <2>4. DtOK(Tail(net[n]), h, g)
    BY <1>2, <1>4, TailKeeps
  <2> QED BY <1>2, <1>4, <1>7, <1>10, <2>1, <2>2, <2>3, <2>4 DEF p, c, g, h
<1> QED BY <1>9, <1>10

LEMMA StepRxData ==
  ASSUME IInv, NEW n \in Nodes, RxData(n), conf' = conf
  PROVE  IInv'
<1> DEFINE f == Head(net[n])
           sn == AckSN(n, f)
           ack == AK(sn)
           g == DT(txsn[n], completed[n] + 1)
           wake == Unblocks(n, f) /\ Queued(n, completed[n])
           had == Len(delivered'[n])
<1>1. /\ Peer(n) \in Nodes /\ Peer(n) # n /\ TypeOK /\ Direction(n) /\ NodeInv(n)
      /\ NodeInv(Peer(n)) /\ (HALF_DUPLEX => ~addedTwice)
      /\ net \in [Nodes -> Seq(Frame)] /\ net[n] \in Seq(Frame) /\ net[Peer(n)] \in Seq(Frame)
      /\ completed[n] \in Nat /\ Had(n) \in Nat /\ Given(n) \in Nat /\ txsn[n] \in Numbers
  BY Actor
<1>2. /\ net[n] # <<>> /\ IsDT(f) /\ Traffic(n)
      /\ IF Accepts(n, f)
         THEN /\ rxsn' = [rxsn EXCEPT ![n] = (@ + 1) % SNMod]
              /\ delivered' = [delivered EXCEPT ![n] = Append(@, f.msg)]
         ELSE UNCHANGED <<rxsn, delivered>>
      /\ UNCHANGED <<submitted, completed, con, addedTwice>>
  BY DEF RxData, Arrives, IsDT
<1>3. /\ wake => TxWakeup(n) /\ XmitBoth(n, ack, g, Received(n))
      /\ ~wake => /\ txState' = [txState EXCEPT ![n] = IF Unblocks(n, f) THEN "TX_IDLE" ELSE @]
                  /\ Xmit(n, ack, Received(n))
                  /\ UNCHANGED <<txsn, retrycnt, blkerrcnt, txTimer>>
  BY DEF RxData
<1> HIDE DEF f, sn, wake, had
<1>4. /\ rxsn' \in [Nodes -> Numbers] /\ delivered' \in [Nodes -> Seq(Nat)]
      /\ rxsn'[Peer(n)] = rxsn[Peer(n)] /\ delivered'[Peer(n)] = delivered[Peer(n)]
      /\ rxsn'[n] = had % SNMod /\ sn = had % SNMod
      /\ sn \in {rxsn[n], (rxsn[n] + 1) % SNMod} /\ sn \in Numbers
      /\ had = IF Accepts(n, f) THEN Len(delivered[n]) + 1 ELSE Len(delivered[n])
      /\ completed[Peer(n)] <= had /\ had <= Given(Peer(n))
      /\ had \in {completed[Peer(n)], completed[Peer(n)] + 1}
      /\ \A i \in 1 .. had : delivered'[n][i] = i
      /\ DtOK(Tail(net[n]), had, Given(Peer(n)))
      /\ AkOK(net[Peer(n)], completed[Peer(n)], had)
  BY <1>2, Receives DEF f, sn, had
<1>5. /\ Received(n) \in [Nodes -> Seq(Frame)]
      /\ Received(n)[n] = Tail(net[n]) /\ Received(n)[Peer(n)] = net[Peer(n)]
  BY <1>1, <1>2, ReceivedEffect
<1>6. ack \in Frame /\ ~IsDT(ack) /\ ack.sn = had % SNMod
  BY <1>4, FrameFacts
<1>7. g \in Frame /\ ~IsAK(g)
  <2>1. completed[n] + 1 \in Nat
    BY <1>1
  <2> QED BY <1>1, <2>1, FrameFacts
<1>8. /\ conTimer' \in [Nodes -> BOOLEAN]
      /\ conTimer'[Peer(n)] = conTimer[Peer(n)]
      /\ conTimer'[n] => conTimer[n] /\ ~(AUTO_DISCONNECT /\ con[n])
  BY <1>1, <1>2, TrafficEffect
<1>9. Unblocks(n, f) <=> txState[n] = "TX_BLOCKED" /\ Accepts(n, f)
  BY DEF Unblocks
<1>10. /\ Peer(Peer(n)) = n /\ completed[Peer(n)] \in Nat
       /\ Len(delivered[n]) \in Nat /\ Direction(Peer(n))
  BY <1>1, PeerFacts, Typed DEF IInv
<1> HIDE DEF ack
<1>11. ASSUME NEW ch \in {net[Peer(n)], Append(net[Peer(n)], ack)}
       PROVE  /\ ch \in Seq(Frame) /\ AkOK(ch, completed[Peer(n)], had)
              /\ AkOK(Append(ch, g), completed[Peer(n)], had)
  <2>1. AkOK(Append(net[Peer(n)], ack), completed[Peer(n)], had)
    BY <1>1, <1>4, <1>6, <1>10, AkAppend, Zenon
  <2>2. ch \in Seq(Frame) /\ AkOK(ch, completed[Peer(n)], had)
    BY <1>1, <1>4, <1>6, <2>1, AppendFacts, Zenon
  <2>3. AkOK(Append(ch, g), completed[Peer(n)], had)
    <3> HIDE DEF g
    <3> QED BY <1>4, <1>7, <1>10, <2>2, AkAppend
  <2> QED BY <2>2, <2>3
<1>12. DtOK(net[Peer(n)], Had(n), Given(n)) /\ AkOK(Tail(net[n]), completed[n], Had(n))
  BY <1>1, <1>2, TailKeeps DEF Direction
<1>13. Had(n)' = Had(n) /\ Had(Peer(n))' = had
  BY <1>4, <1>10 DEF Had, had
<1>14. ASSUME txState'[Peer(n)] = txState[Peer(n)], txsn'[Peer(n)] = txsn[Peer(n)],
              net'[n] = Tail(net[n]), AkOK(net'[Peer(n)], completed[Peer(n)], had)
       PROVE  Direction(Peer(n))' /\ NodeInv(Peer(n))'
  <2>1. Given(Peer(n))' = Given(Peer(n))
    BY <1>2, <1>14 DEF Given, Waits
  <2>2. Direction(Peer(n))'
    BY <1>2, <1>4, <1>10, <1>13, <1>14, <2>1 DEF Direction, had
  <2>3. NodeInv(Peer(n))'
    BY <1>1, <1>2, <1>4, <1>8, <1>14, NodeKept
  <2> QED BY <2>2, <2>3
<1>15. CASE wake
  <2>1. TxWakeup(n) /\ XmitBoth(n, ack, g, Received(n))
    BY <1>3, <1>15
  <2>2. txState[n] = "TX_BLOCKED" /\ Accepts(n, f) /\ ~Waits(n)
    BY <1>9, <1>15 DEF wake, Waits
  <2>3. /\ Had(n) = completed[n] /\ txsn[n] = completed[n] % SNMod
        /\ \A ch \in {net[Peer(n)], Append(net[Peer(n)], AK(rxsn[n])),
                      Append(net[Peer(n)], AK((rxsn[n] + 1) % SNMod))} :
              /\ DtOK(ch, completed[n], completed[n] + 1)
              /\ DtOK(Append(ch, g), completed[n], completed[n] + 1)
    BY <1>1, <2>2, Starts
  <2> HIDE DEF g
  <2>4. /\ net' \in [Nodes -> Seq(Frame)] /\ net'[n] = Tail(net[n])
        /\ \E ch \in {net[Peer(n)], Append(net[Peer(n)], ack)} :
             net'[Peer(n)] \in {ch, Append(ch, g)}
    <3> DEFINE rest == Received(n)
    <3>1. /\ rest \in [Nodes -> Seq(Frame)] /\ XmitBoth(n, ack, g, rest)
          /\ rest[n] = Tail(net[n]) /\ rest[Peer(n)] = net[Peer(n)]
      BY <1>5, <2>1
    <3> HIDE DEF rest
    <3>2. /\ net' \in [Nodes -> Seq(Frame)] /\ net'[n] = rest[n]
          /\ \E ch \in {rest[Peer(n)], Append(rest[Peer(n)], ack)} :
               net'[Peer(n)] \in {ch, Append(ch, g)}
      BY <1>6, <1>7, <3>1, XmitBothEffect, Zenon
    <3> QED BY <3>1, <3>2
  <2>5. AkOK(net'[Peer(n)], completed[Peer(n)], had)
    BY <1>11, <2>4
  <2>6. DtOK(net'[Peer(n)], completed[n], completed[n] + 1)
    <3>1. ack \in {AK(rxsn[n]), AK((rxsn[n] + 1) % SNMod)}
      BY <1>4 DEF ack
    <3> QED BY <2>3, <2>4, <3>1
  <2>7. /\ txState' \in [Nodes -> {"TX_IDLE", "TX_WAIT_AK", "TX_BLOCKED"}]
        /\ txsn' \in [Nodes -> Numbers] /\ txTimer' \in [Nodes -> BOOLEAN]
        /\ Waits(n)' /\ txState'[n] = "TX_WAIT_AK" /\ txsn'[n] = (completed[n] + 1) % SNMod
        /\ txState'[Peer(n)] = txState[Peer(n)] /\ txsn'[Peer(n)] = txsn[Peer(n)]
    BY <1>1, <2>1, <2>3, SendEffect DEF TxWakeup
  <2>8. TypeOK'
    <3>1. retrycnt' \in [Nodes -> 0 .. mnt] /\ blkerrcnt' \in [Nodes -> 0 .. mnbe]
      BY <1>1, <2>1, CountersReset DEF TxWakeup
    <3> QED BY <1>1, <1>2, <1>4, <1>8, <2>4, <2>7, <3>1 DEF TypeOK, Frame
  <2>9. Direction(n)'
    <3>1. Given(n)' = completed[n] + 1 /\ completed'[n] = completed[n]
      BY <1>2, <2>7 DEF Given
    <3>2. /\ rxsn'[Peer(n)] = completed[n] % SNMod
          /\ \A i \in 1 .. completed[n] : delivered'[Peer(n)][i] = i
      BY <1>1, <1>4, <2>3 DEF Direction
    <3> QED BY <1>1, <1>12, <1>13, <2>3, <2>4, <2>6, <2>7, <3>1, <3>2 DEF Direction
  <2>10. NodeInv(n)'
    <3>1. Alternates(n)'
      <4>1. HALF_DUPLEX => completed[n] <= Len(delivered[n]) + 1
        BY <1>1, <2>2 DEF NodeInv, Alternates
      <4>2. Len(delivered'[n]) = Len(delivered[n]) + 1
        BY <1>4, <2>2 DEF had
      <4> QED BY <1>2, <2>7, <4>1, <4>2 DEF Alternates, HALF_DUPLEX
    <3>2. IdleTimer(n)'
      BY <1>1, <1>2, <1>8 DEF NodeInv, IdleTimer, HALF_DUPLEX, AUTO_DISCONNECT
    <3> QED BY <3>1, <3>2 DEF NodeInv
  <2> QED BY <1>14, <2>4, <2>5, <2>7, <2>8, <2>9, <2>10, Together
<1>16. CASE ~wake
  <2>1. /\ txState' = [txState EXCEPT ![n] = IF Unblocks(n, f) THEN "TX_IDLE" ELSE @]
        /\ Xmit(n, ack, Received(n))
        /\ UNCHANGED <<txsn, retrycnt, blkerrcnt, txTimer>>
    BY <1>3, <1>16
  <2>2. /\ txState' \in [Nodes -> {"TX_IDLE", "TX_WAIT_AK", "TX_BLOCKED"}]
        /\ txState'[n] = (IF Unblocks(n, f) THEN "TX_IDLE" ELSE txState[n])
        /\ txState'[Peer(n)] = txState[Peer(n)]
    BY <1>1, <2>1 DEF TypeOK
  <2>3. /\ net' \in [Nodes -> Seq(Frame)] /\ net'[n] = Tail(net[n])
        /\ net'[Peer(n)] \in {net[Peer(n)], Append(net[Peer(n)], ack)}
    BY <1>5, <1>6, <2>1, XmitEffect
  <2>4. AkOK(net'[Peer(n)], completed[Peer(n)], had)
    BY <1>11, <2>3
  <2>5. DtOK(net'[Peer(n)], Had(n), Given(n))
    <3>1. Had(n) <= Given(n)
      BY <1>1 DEF Direction
    <3>2. DtOK(Append(net[Peer(n)], ack), Had(n), Given(n))
      BY <1>1, <1>6, <1>12, <3>1, DtAppend
    <3> QED BY <1>12, <2>3, <3>2
  <2>6. TypeOK'
    BY <1>1, <1>2, <1>4, <1>8, <2>1, <2>2, <2>3 DEF TypeOK, Frame
  <2>7. Direction(n)'
    <3>1. Given(n)' = Given(n) /\ completed'[n] = completed[n] /\ txsn'[n] = txsn[n]
      BY <1>2, <1>9, <2>1, <2>2 DEF Given, Waits
    <3> QED BY <1>1, <1>4, <1>12, <1>13, <2>3, <2>5, <3>1 DEF Direction
  <2>8. NodeInv(n)'
    <3>1. Alternates(n)'
      <4>1. HALF_DUPLEX => completed[n] <= IF txState[n] = "TX_BLOCKED"
                                           THEN Len(delivered[n]) + 1 ELSE Len(delivered[n])
        BY <1>1 DEF NodeInv, Alternates
      <4>2. Len(delivered'[n]) = IF Accepts(n, f) THEN Len(delivered[n]) + 1 ELSE Len(delivered[n])
        BY <1>4 DEF had
      <4> QED BY <1>1, <1>2, <1>9, <1>10, <2>2, <4>1, <4>2 DEF Alternates, HALF_DUPLEX
    <3>2. IdleTimer(n)'
      BY <1>1, <1>2, <1>8 DEF NodeInv, IdleTimer, HALF_DUPLEX, AUTO_DISCONNECT
    <3> QED BY <3>1, <3>2 DEF NodeInv
  <2> QED BY <1>14, <2>1, <2>2, <2>3, <2>4, <2>6, <2>7, <2>8, Together
<1> QED BY <1>15, <1>16

LEMMA StepIInv == IInv /\ [Next]_vars => IInv'
<1> SUFFICES ASSUME IInv, [Next]_vars PROVE IInv'
  OBVIOUS
<1>1. CASE Next
  <2>1. PICK n \in Nodes : SendMsg(n) \/ RxHandler(n) \/ TxTimer(n) \/ ConTimer(n)
    BY <1>1 DEF Next
  <2>2. conf' = conf
    BY <1>1 DEF Next
  <2> QED
    BY <2>1, <2>2, StepSendMsg, StepAckComplete, StepAckIgnored, StepAckWrongSN, StepRxData,
       StepRxDC, StepTimerResend, StepTimerGiveUp, StepConTimer DEF RxHandler, TxTimer
<1>2. CASE UNCHANGED vars
  <2>1. TypeOK'
    BY <1>2 DEF IInv, TypeOK, vars, txVars
  <2>2. ASSUME NEW n \in Nodes PROVE Direction(n)' /\ NodeInv(n)'
    <3>1. Direction(n) /\ NodeInv(n)
      BY DEF IInv
    <3>2. Direction(n)'
      BY <1>2, <3>1, DirectionKept DEF vars, txVars, Direction
    <3>3. NodeInv(n)'
      BY <1>2, <3>1 DEF vars, txVars, NodeInv, Alternates, IdleTimer, Waits, HALF_DUPLEX, AUTO_DISCONNECT
    <3> QED BY <3>2, <3>3
  <2> QED BY <2>1, <2>2 DEF IInv
<1> QED BY <1>1, <1>2

----------------------------------------------------------------------------
(* The theorems.                                                           *)

\* Each socket gets the messages of the other one in order and once, though
\* both send at the same time and frames are lost, and what tp_tx_data()
\* counts as acknowledged has been handed over by tp_rx_data().
THEOREM BothInOrder == Spec => []InOrderDelivery
<1>1. Init => IInv
  BY InitIInv
<1>2. IInv /\ [Next]_vars => IInv'
  BY StepIInv
<1>3. IInv => InOrderDelivery
  <2> SUFFICES ASSUME IInv, NEW n \in Nodes
               PROVE  /\ TypeOK
                      /\ \A i \in 1 .. Len(delivered[n]) : delivered[n][i] = i
                      /\ completed[n] <= Len(delivered[Peer(n)])
    BY DEF InOrderDelivery, IInv
  <2>1. Peer(n) \in Nodes /\ Peer(Peer(n)) = n
    BY PeerFacts
  <2>2. TypeOK /\ Direction(n) /\ Direction(Peer(n))
    BY <2>1 DEF IInv
  <2> QED BY <2>1, <2>2 DEF Direction, Had
<1> QED BY <1>1, <1>2, <1>3, PTL DEF Spec

\* With HALF_DUPLEX the nodes take turns: the block that tp_tx_data() puts
\* on a sender is lifted by tp_rx_data() alone.
THEOREM TakeTurns == Spec => []Alternation
<1>1. Init => IInv
  BY InitIInv
<1>2. IInv /\ [Next]_vars => IInv'
  BY StepIInv
<1>3. IInv => Alternation
  <2> SUFFICES ASSUME IInv, HALF_DUPLEX, NEW n \in Nodes
               PROVE  completed[n] <= Len(delivered[n]) + 1
    BY DEF Alternation
  <2>1. Alternates(n) /\ completed[n] \in Nat /\ Len(delivered[n]) \in Nat
    BY Typed DEF IInv, NodeInv
  <2> QED BY <2>1 DEF Alternates
<1> QED BY <1>1, <1>2, <1>3, PTL DEF Spec

\* With HALF_DUPLEX the timer of AUTO_DISCONNECT never runs while a message
\* waits for its ACK, and is never added when it is pending.
THEOREM IdleTimerStops == Spec => []IdleTimerHalfDuplex
<1>1. Init => IInv
  BY InitIInv
<1>2. IInv /\ [Next]_vars => IInv'
  BY StepIInv
<1>3. IInv => IdleTimerHalfDuplex
  <2> SUFFICES ASSUME IInv, HALF_DUPLEX PROVE TimerStoppedOnTraffic /\ ~addedTwice
    BY DEF IdleTimerHalfDuplex
  <2>1. ASSUME NEW n \in Nodes
        PROVE  (con[n] /\ txState[n] = "TX_WAIT_AK" => ~conTimer[n]) /\ ~addedTwice
    BY DEF IInv, NodeInv, IdleTimer, Waits
  <2>2. ~addedTwice
    BY <2>1, ParmAssumption
  <2> QED BY <2>1, <2>2 DEF TimerStoppedOnTraffic
<1> QED BY <1>1, <1>2, <1>3, PTL DEF Spec
=============================================================================
