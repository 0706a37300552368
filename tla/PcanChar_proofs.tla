--------------------------- MODULE PcanChar_proofs ---------------------------
(***************************************************************************)
(* The five properties of PcanChar for any processes, messages, lines and  *)
(* sizes of the FIFOs, the blocks and the controller: the rings are queues,*)
(* DataSendReady says what it should, nobody sleeps for what is there,     *)
(* what is written is sent once, and what is received is read or reported. *)
(***************************************************************************)
EXTENDS PcanChar, WellFoundedInduction, TLAPS

----------------------------------------------------------------------------
(* The inductive invariant.                                                *)

Errors == {"OVERRUN", "BUSHEAVY", "BUSOFF"}
Types == {"EXTENDED", "RTR"}
Msgs == [ID : Nat, MSGTYPE : SUBSET Types, DATA : Nat, pos : Nat]
Told == [ID : Nat, MSGTYPE : SUBSET Types, DATA : Nat]
          \cup [ID : {0}, MSGTYPE : {{"STATUS"}}, DATA : SUBSET Errors] \cup {Empty}
Bytes == {b \in Seq(0 .. 255) : Len(b) \in {2, 4}}
Regs == [eff : BOOLEAN, rtr : BOOLEAN, bytes : Bytes, data : Nat]
Heard == [id : Nat, flags : SUBSET {"EFF", "RTR"}, data : Nat]
Places == {"idle", "read", "asleep_read", "write", "asleep_write", "parse", "pull", "start",
           "wait_until_fifo_empty", "reopen", "status"}

\* A ring of n cells that hold values of M.
Ring(n, M) ==
  {f \in [cells : [0 .. n - 1 -> M], r : 0 .. n - 1, w : 0 .. n - 1, nStored : 0 .. n,
          nCount : {n}, blank : M] :
     f.w = IF f.r + f.nStored < n THEN f.r + f.nStored ELSE f.r + f.nStored - n}

LineSet == [kind : {"message", "comment", "error", "init"}, msg : Msgs]
Active(p) == pc[p] \in {"write", "asleep_write", "pull", "start"}

DevTypes ==
  /\ hw \in Hardware
  /\ DataSendReady \in BOOLEAN /\ bExtended \in BOOLEAN /\ ucPhysicallyInstalled \in BOOLEAN
RingTypes == wf \in Ring(WCount, Msgs) /\ rf \in Ring(RCount, Told)
ChipTypes ==
  /\ tx \in Seq([regs : Regs, pos : Nat]) /\ rx \in Seq(Regs)
  /\ ints \subseteq {"TI", "DOI", "BEI", "EPI"}
ProcTypes ==
  /\ pc \in [Procs -> Places] /\ running \in Procs \cup {NoProc}
  /\ call \in [Procs -> [msg : Msgs, text : BOOLEAN]]
  /\ text \in [Procs -> Seq(LineSet)]
  /\ \A p \in Procs : Active(p) /\ call[p].text => text[p] # <<>>
HistTypes ==
  /\ accepted \in Seq(Msgs)
  /\ bus \in Seq([id : Nat, eff : BOOLEAN, rtr : BOOLEAN, data : Nat, pos : Nat])
  /\ got \in Seq(Heard) /\ read \in Seq(Told)
  /\ count \in [writes : Nat, rx : Nat]

TypeInv == DevTypes /\ RingTypes /\ ChipTypes /\ ProcTypes /\ HistTypes

Somebody(place) == \E p \in Procs : pc[p] = place

\* Who may not be preempted; which troubles are remembered.
RunInv ==
  /\ \A p \in Procs : pc[p] \in {"pull", "start", "status"} <=> running = p
  /\ ucPhysicallyInstalled \/ "unplug" \in trouble
  /\ ints \cap {"BEI", "EPI"} \subseteq trouble
  /\ \A p \in Procs : pc[p] \in {"wait_until_fifo_empty", "reopen"} => "reset" \in trouble

\* At most one of: ready, about to start, sending, done sending.
ReadyInv ==
  Calm({"BEI", "EPI", "timeout", "submit", "open", "reinit", "unplug"}) =>
    /\ DataSendReady => tx = <<>> /\ "TI" \notin ints /\ (wf.nStored > 0 => Somebody("pull"))
    /\ "TI" \in ints => tx = <<>>
    /\ Somebody("start") => tx = <<>> /\ "TI" \notin ints /\ ~DataSendReady

Sends == tx # <<>> \/ "TI" \in ints

\* At least one of them, and who waits for what.
BusyInv ==
  /\ Somebody("asleep_read") => rf.nStored = 0
  /\ Calm({"timeout", "killed", "reinit", "open", "submit", "urb", "unplug"}) =>
       /\ ~DataSendReady => Sends \/ Somebody("start")
       /\ wf.nStored > 0 => Busy
       /\ Somebody("asleep_write") /\ wf.nStored = 0 => Sends

\* Positions grow from bus to tx to the FIFO.
W == Contents(wf)
Inc(s) == \A i, j \in 1 .. Len(s) : i < j => s[i].pos < s[j].pos
Before(s, t) == \A i \in 1 .. Len(s), j \in 1 .. Len(t) : s[i].pos < t[j].pos
Within(s) == \A i \in 1 .. Len(s) : s[i].pos \in 1 .. Len(accepted)
OrderInv ==
  /\ Inc(bus) /\ Inc(tx) /\ Inc(W)
  /\ Before(bus, tx) /\ Before(bus, W) /\ Before(tx, W)
  /\ Within(bus) /\ Within(tx) /\ Within(W)

\* What is where is what was accepted, and nothing is missing.
RegsOf(m) == IF Usb THEN pcan_hw_EncodeMessage(m) ELSE sja1000_write_frame(msg2frame(m))
ContentInv ==
  /\ \A i \in 1 .. Len(accepted) : accepted[i].pos = i
  /\ \A i \in 1 .. Len(W) : W[i] = accepted[W[i].pos]
  /\ \A i \in 1 .. Len(tx) : tx[i].regs = RegsOf(accepted[tx[i].pos])
  /\ \A i \in 1 .. Len(bus) :
       bus[i] = OnBus([regs |-> RegsOf(accepted[bus[i].pos]), pos |-> bus[i].pos])
  /\ Calm({"reset", "reinit", "open", "overwritten", "submit", "urb", "unplug"})
       => Len(bus) + Len(tx) + wf.nStored = Len(accepted)

----------------------------------------------------------------------------
(* Lines and messages are numbered as they are written; what is away has   *)
(* been put into writeFifo and not been thrown away.                       *)

Away == {bus[i].pos : i \in 1 .. Len(bus)} \cup {tx[i].pos : i \in 1 .. Len(tx)}
        \cup {W[i].pos : i \in 1 .. Len(W)}
PutBy(p) == pc[p] \in {"pull", "start"}

LinesOf(p) == 1 .. Len(text[p])
Number(p, k) == text[p][k].msg.DATA

AcceptedNumbers == \A i \in 1 .. Len(accepted) : accepted[i].DATA <= count.writes
LineNumbers ==
  /\ \A p \in Procs : \A k \in LinesOf(p) : Number(p, k) \in 1 .. count.writes
  /\ \A p, q \in Procs : \A k \in LinesOf(p), l \in LinesOf(q) :
       Number(p, k) = Number(q, l) => p = q /\ k = l
OwnNumber(p) ==
  /\ call[p].text => text[p] # <<>> /\ call[p].msg.DATA \in {Garbage, Number(p, 1)}
  /\ ~call[p].text =>
       /\ call[p].msg.DATA \in 1 .. count.writes
       /\ \A q \in Procs : \A k \in LinesOf(q) : Number(q, k) # call[p].msg.DATA
       /\ \A q \in Procs :
            q # p /\ Active(q) /\ ~call[q].text => call[q].msg.DATA # call[p].msg.DATA
CallNumbers == \A p \in Procs : Active(p) => OwnNumber(p)
LastNumber ==
  \A p \in Procs : PutBy(p) =>
    /\ accepted # <<>> /\ accepted[Len(accepted)].DATA = call[p].msg.DATA
    /\ Len(W) > 0 => W[Len(W)].pos = Len(accepted)
NumbersInv == AcceptedNumbers /\ LineNumbers /\ CallNumbers /\ LastNumber

\* What is away is not tried again.
Fresh(x, p) ==
  /\ \A k \in LinesOf(p) : accepted[x].DATA = Number(p, k)
       => k = 1 /\ PutBy(p) /\ call[p].text /\ x = Len(accepted)
  /\ Active(p) /\ ~call[p].text /\ accepted[x].DATA = call[p].msg.DATA
       => PutBy(p) /\ x = Len(accepted)
OnceInv ==
  Calm({"nodata", "left"}) =>
    /\ \A x, y \in Away :
         accepted[x].DATA = accepted[y].DATA => x = y \/ accepted[x].DATA = Garbage
    /\ ucPhysicallyInstalled => \A x \in Away, p \in Procs : Fresh(x, p)

----------------------------------------------------------------------------
(* Of a message read or stored: it is a frame, not a status; the registers *)
(* that hold a frame; it is the frame that was sent, as far as USB lets it.*)

IsFrame(m) == "STATUS" \notin m.MSGTYPE
RxRegs(f) == IF Usb THEN pcan_hw_EncodeMessage(frame2msg(f)) ELSE sja1000_write_frame(f)
AsSent(m, f) == (Usb /\ "EFF" \in f.flags) \/ (m.ID = f.id /\ msg2frame(m).flags = f.flags)

----------------------------------------------------------------------------
(* Recursive functions, and what follows by induction on their argument.   *)

\* A set of numbers has a least one.
LEMMA LeastNumber ==
  ASSUME NEW T \in SUBSET Nat, T # {}
  PROVE  \E n \in T : \A m \in T : n <= m
<1> DEFINE R == {ss \in Nat \X Nat : ss[1] < ss[2]}
<1>1. IsWellFoundedOn(R, Nat)
  BY NatLessThanWellFounded DEF OpToRel
<1>2. \A x, y \in Nat : x < y => <<x, y>> \in R
  OBVIOUS
<1> HIDE DEF R
<1>3. PICK n \in T : \A m \in T : ~(<<m, n>> \in R)
  BY <1>1, WFMin
<1>4. \A m \in T : ~(m < n)
  BY <1>2, <1>3
<1>5. \A m \in T : n <= m
  <2> SUFFICES ASSUME NEW m \in T PROVE n <= m
    OBVIOUS
  <2>1. m \in Nat /\ n \in Nat /\ ~(m < n)
    BY <1>4
  <2> QED BY <2>1
<1> QED BY <1>5

\* What holds at 0 and is handed on at each step up to n holds up to n.
LEMMA UpTo ==
  ASSUME NEW n \in Nat, NEW Good, 0 \in Good, \A i \in 1 .. n : i - 1 \in Good => i \in Good
  PROVE  \A i \in 0 .. n : i \in Good
<1> DEFINE T == {i \in 0 .. n : i \notin Good}
<1> SUFFICES ASSUME T # {} PROVE FALSE
  OBVIOUS
<1>1. PICK i \in T : \A m \in T : i <= m
  <2> HIDE DEF T
  <2>1. T \in SUBSET Nat
    BY DEF T
  <2> QED BY <2>1, LeastNumber
<1>2. i \in 1 .. n /\ i - 1 \in 0 .. n /\ ~(i <= i - 1)
  BY <1>1
<1>3. i - 1 \notin T
  BY <1>1, <1>2
<1>4. i - 1 \in Good
  BY <1>2, <1>3
<1> QED BY <1>1, <1>2, <1>4

Gets(g, f, n) == g = [i \in 0 .. n |-> IF i = 0 THEN f ELSE pcan_fifo_get(g[i - 1])]
Puts(g, f, s, n) ==
  g = [i \in 0 .. n |-> IF i = 0 THEN f ELSE pcan_chardev_rx(g[i - 1], s[i])]

LEMMA GetsSteps ==
  ASSUME NEW g, NEW f, NEW n \in Nat, Gets(g, f, n)
  PROVE  /\ g[0] = f /\ \A i \in 1 .. n : g[i] = pcan_fifo_get(g[i - 1])
         /\ \A i \in 0 .. n : g[i] = IF i = 0 THEN f ELSE pcan_fifo_get(g[i - 1])
<1> HIDE DEF pcan_fifo_get
<1>1. \A i \in 0 .. n : g[i] = IF i = 0 THEN f ELSE pcan_fifo_get(g[i - 1])
  BY DEF Gets
<1> QED BY <1>1

LEMMA GetsExist ==
  ASSUME NEW f, NEW n \in Nat
  PROVE  \E g : Gets(g, f, n)
<1> DEFINE Good == {i \in Nat : \E g : Gets(g, f, i)}
<1>1. 0 \in Good
  <2>1. Gets([i \in 0 .. 0 |-> f], f, 0)
    BY DEF Gets
  <2> QED BY <2>1
<1>2. ASSUME NEW k \in 1 .. n, k - 1 \in Good PROVE k \in Good
  <2>1. PICK g : Gets(g, f, k - 1)
    BY <1>2
  <2>2. k - 1 \in Nat /\ k \in Nat
    OBVIOUS
  <2> DEFINE h == [i \in 0 .. k |-> IF i = k THEN pcan_fifo_get(g[k - 1]) ELSE g[i]]
  <2>3. ASSUME NEW i \in 0 .. k
        PROVE  h[i] = IF i = 0 THEN f ELSE pcan_fifo_get(h[i - 1])
    <3>1. CASE i = k
      <4>1. h[i] = pcan_fifo_get(g[k - 1]) /\ h[k - 1] = g[k - 1]
        BY <3>1
      <4> QED BY <3>1, <4>1
    <3>2. CASE i # k
      <4>1. i \in 0 .. k - 1 /\ (i # 0 => i - 1 \in 0 .. k /\ i - 1 # k)
        BY <3>2
      <4>2. h[i] = g[i] /\ (i # 0 => h[i - 1] = g[i - 1])
        BY <4>1, <3>2
      <4>3. g[i] = IF i = 0 THEN f ELSE pcan_fifo_get(g[i - 1])
        BY <2>1, <2>2, <4>1, GetsSteps
      <4> QED BY <4>2, <4>3
    <3> QED BY <3>1, <3>2
  <2>4. h = [i \in 0 .. k |-> h[i]]
    OBVIOUS
  <2> HIDE DEF h
  <2>5. Gets(h, f, k)
    BY <2>3, <2>4 DEF Gets
  <2> QED BY <2>2, <2>5
<1> HIDE DEF Good
<1>3. n \in Good
  BY <1>1, <1>2, UpTo
<1> QED BY <1>3 DEF Good

LEMMA GetManyIs ==
  ASSUME NEW f, NEW n \in Nat
  PROVE  \E g : /\ g[0] = f /\ g[n] = GetMany(f, n)
                /\ \A i \in 1 .. n : g[i] = pcan_fifo_get(g[i - 1])
<1> DEFINE Is(g) == Gets(g, f, n)
<1>1. \E g : Is(g)
  BY GetsExist
<1>2. GetMany(f, n) = (CHOOSE g : Is(g))[n]
  BY DEF GetMany, Gets
<1> HIDE DEF Is
<1>3. PICK g : Is(g) /\ g = CHOOSE h : Is(h)
  BY <1>1
<1>4. Gets(g, f, n)
  BY <1>3 DEF Is
<1>5. g[n] = GetMany(f, n)
  BY <1>2, <1>3
<1>6. g[0] = f /\ \A i \in 1 .. n : g[i] = pcan_fifo_get(g[i - 1])
  BY <1>4, GetsSteps
<1> QED BY <1>5, <1>6

LEMMA PutsSteps ==
  ASSUME NEW g, NEW f, NEW s, NEW n \in Nat, Puts(g, f, s, n)
  PROVE  /\ g[0] = f /\ \A i \in 1 .. n : g[i] = pcan_chardev_rx(g[i - 1], s[i])
         /\ \A i \in 0 .. n : g[i] = IF i = 0 THEN f ELSE pcan_chardev_rx(g[i - 1], s[i])
<1>1. \A i \in 0 .. n : g[i] = IF i = 0 THEN f ELSE pcan_chardev_rx(g[i - 1], s[i])
  BY DEF Puts
<1> QED BY <1>1

LEMMA PutsExist ==
  ASSUME NEW f, NEW s, NEW n \in Nat
  PROVE  \E g : Puts(g, f, s, n)
<1> DEFINE Good == {i \in Nat : \E g : Puts(g, f, s, i)}
<1>1. 0 \in Good
  <2>1. Puts([i \in 0 .. 0 |-> f], f, s, 0)
    BY DEF Puts
  <2> QED BY <2>1
<1>2. ASSUME NEW k \in 1 .. n, k - 1 \in Good PROVE k \in Good
  <2>1. PICK g : Puts(g, f, s, k - 1)
    BY <1>2
  <2>2. k - 1 \in Nat /\ k \in Nat
    OBVIOUS
  <2> DEFINE h == [i \in 0 .. k |-> IF i = k THEN pcan_chardev_rx(g[k - 1], s[k]) ELSE g[i]]
  <2>3. ASSUME NEW i \in 0 .. k
        PROVE  h[i] = IF i = 0 THEN f ELSE pcan_chardev_rx(h[i - 1], s[i])
    <3>1. CASE i = k
      <4>1. h[i] = pcan_chardev_rx(g[k - 1], s[k]) /\ h[k - 1] = g[k - 1]
        BY <3>1
      <4> QED BY <3>1, <4>1
    <3>2. CASE i # k
      <4>1. i \in 0 .. k - 1 /\ (i # 0 => i - 1 \in 0 .. k /\ i - 1 # k)
        BY <3>2
      <4>2. h[i] = g[i] /\ (i # 0 => h[i - 1] = g[i - 1])
        BY <4>1, <3>2
      <4>3. g[i] = IF i = 0 THEN f ELSE pcan_chardev_rx(g[i - 1], s[i])
        BY <2>1, <2>2, <4>1, PutsSteps
      <4> QED BY <4>2, <4>3
    <3> QED BY <3>1, <3>2
  <2>4. h = [i \in 0 .. k |-> h[i]]
    OBVIOUS
  <2> HIDE DEF h
  <2>5. Puts(h, f, s, k)
    BY <2>3, <2>4 DEF Puts
  <2> QED BY <2>2, <2>5
<1> HIDE DEF Good
<1>3. n \in Good
  BY <1>1, <1>2, UpTo
<1> QED BY <1>3 DEF Good

LEMMA AfterIs ==
  ASSUME NEW f, NEW s, Len(s) \in Nat
  PROVE  /\ After(f, s)[0] = f
         /\ \A i \in 1 .. Len(s) : After(f, s)[i] = pcan_chardev_rx(After(f, s)[i - 1], s[i])
<1> DEFINE Is(g) == Puts(g, f, s, Len(s))
<1>1. \E g : Is(g)
  BY PutsExist
<1>2. After(f, s) = CHOOSE g : Is(g)
  BY DEF After, Puts
<1> HIDE DEF Is
<1>3. Is(After(f, s))
  BY <1>1, <1>2
<1>4. Puts(After(f, s), f, s, Len(s))
  BY <1>3 DEF Is
<1> QED BY <1>4, PutsSteps

----------------------------------------------------------------------------
(* The rings.                                                              *)

Wrapped(n, k) == IF k < n THEN k ELSE k - n

LEMMA DivMod ==
  ASSUME NEW n \in Nat \ {0}, NEW k \in Nat
  PROVE  k % n \in 0 .. n - 1 /\ k = n * (k \div n) + (k % n) /\ k \div n \in Int
BY SMT

LEMMA WrapMod ==
  ASSUME NEW n \in Nat \ {0}, NEW k \in 0 .. 2 * n - 1
  PROVE  k % n = Wrapped(n, k)
<1>1. k % n \in 0 .. n - 1 /\ k = n * (k \div n) + (k % n) /\ k \div n \in Int
  <2>1. k \in Nat
    OBVIOUS
  <2> QED BY <2>1, DivMod
<1>2. k \div n \in {0, 1}
  <2> DEFINE q == k \div n
             m == k % n
  <2>1. q \in Int /\ m \in 0 .. n - 1 /\ k = n * q + m /\ n >= 1 /\ k < 2 * n /\ k >= 0
    BY <1>1
  <2> HIDE DEF q, m
  <2>2. q >= 0
    <3> SUFFICES ASSUME q <= -1 PROVE FALSE
      BY <2>1
    <3>1. n * q <= n * (-1)
      BY <2>1
    <3> QED BY <2>1, <3>1
  <2>3. q <= 1
    <3> SUFFICES ASSUME q >= 2 PROVE FALSE
      BY <2>1
    <3>1. n * q >= n * 2
      BY <2>1
    <3> QED BY <2>1, <3>1
  <2> QED BY <2>1, <2>2, <2>3 DEF q
<1>3. CASE k \div n = 0
  BY <1>1, <1>3 DEF Wrapped
<1>4. CASE k \div n = 1
  BY <1>1, <1>4 DEF Wrapped
<1> QED BY <1>2, <1>3, <1>4

\* Where the i-th oldest message is.
LEMMA ContentsAre ==
  ASSUME NEW n \in Nat \ {0}, NEW M, NEW f \in Ring(n, M)
  PROVE  /\ Contents(f) \in Seq(M) /\ Len(Contents(f)) = f.nStored
         /\ \A i \in 1 .. f.nStored : /\ Contents(f)[i] = f.cells[Wrapped(n, f.r + i - 1)]
                                      /\ Wrapped(n, f.r + i - 1) \in 0 .. n - 1
<1>1. /\ f.r \in 0 .. n - 1 /\ f.nStored \in 0 .. n /\ f.nCount = n
      /\ f.cells \in [0 .. n - 1 -> M]
  BY DEF Ring
<1>2. \A i \in 1 .. f.nStored : /\ (f.r + i - 1) % f.nCount = Wrapped(n, f.r + i - 1)
                                /\ Wrapped(n, f.r + i - 1) \in 0 .. n - 1
  <2> TAKE i \in 1 .. f.nStored
  <2>1. f.r + i - 1 \in 0 .. 2 * n - 1
    BY <1>1
  <2>2. (f.r + i - 1) % n = Wrapped(n, f.r + i - 1)
    BY <2>1, WrapMod
  <2>3. Wrapped(n, f.r + i - 1) \in 0 .. n - 1
    BY <1>1, <2>1 DEF Wrapped
  <2> QED BY <1>1, <2>2, <2>3
<1>3. Contents(f) = [i \in 1 .. f.nStored |-> f.cells[(f.r + i - 1) % f.nCount]]
  BY DEF Contents
<1>4. \A i \in 1 .. f.nStored : Contents(f)[i] = f.cells[Wrapped(n, f.r + i - 1)]
  BY <1>2, <1>3
<1>5. Contents(f) \in [1 .. f.nStored -> M]
  <2>1. \A i \in 1 .. f.nStored : f.cells[(f.r + i - 1) % f.nCount] \in M
    BY <1>1, <1>2
  <2> QED BY <1>3, <2>1
<1>6. f.nStored \in Nat
  BY <1>1
<1>7. Contents(f) \in Seq(M) /\ Len(Contents(f)) = f.nStored
  <2> DEFINE c == Contents(f)
             n1 == f.nStored
  <2>1. c \in [1 .. n1 -> M] /\ n1 \in Nat
    BY <1>5, <1>6
  <2> HIDE DEF c, n1
  <2>2. c \in Seq(M) /\ Len(c) = n1
    BY <2>1
  <2> QED BY <2>2 DEF c, n1
<1> QED BY <1>2, <1>4, <1>7

LEMMA RingInit ==
  ASSUME NEW n \in Nat \ {0}, NEW M, NEW b \in M
  PROVE  /\ pcan_fifo_init(n, b) \in Ring(n, M) /\ pcan_fifo_init(n, b).nStored = 0
         /\ pcan_fifo_init(n, b).nCount = n /\ pcan_fifo_init(n, b).blank = b
         /\ Contents(pcan_fifo_init(n, b)) = <<>>
<1>1. pcan_fifo_init(n, b) \in Ring(n, M)
  BY DEF pcan_fifo_init, Ring
<1>2. /\ pcan_fifo_init(n, b).nStored = 0
      /\ pcan_fifo_init(n, b).nCount = n /\ pcan_fifo_init(n, b).blank = b
  BY DEF pcan_fifo_init
<1>3. Contents(pcan_fifo_init(n, b)) \in Seq(M) /\ Len(Contents(pcan_fifo_init(n, b))) = 0
  BY <1>1, <1>2, ContentsAre
<1> QED BY <1>1, <1>2, <1>3

LEMMA RingReset ==
  ASSUME NEW n \in Nat \ {0}, NEW M, NEW f \in Ring(n, M)
  PROVE  /\ pcan_fifo_reset(f) \in Ring(n, M) /\ pcan_fifo_reset(f).nStored = 0
         /\ Contents(pcan_fifo_reset(f)) = <<>>
<1>1. f.nCount = n /\ f.blank \in M
  BY DEF Ring
<1> QED BY <1>1, RingInit DEF pcan_fifo_reset

\* A put appends, unless the ring is full.
LEMMA RingPut ==
  ASSUME NEW n \in Nat \ {0}, NEW M, NEW f \in Ring(n, M), NEW m \in M
  PROVE  /\ pcan_fifo_put(f, m) \in Ring(n, M)
         /\ Refuses(f) <=> f.nStored = n
         /\ f.nStored = n => pcan_fifo_put(f, m) = f
         /\ f.nStored < n => /\ pcan_fifo_put(f, m).nStored = f.nStored + 1
                             /\ Contents(pcan_fifo_put(f, m)) = Append(Contents(f), m)
<1>1. /\ f.r \in 0 .. n - 1 /\ f.w \in 0 .. n - 1 /\ f.nStored \in 0 .. n /\ f.nCount = n
      /\ f.cells \in [0 .. n - 1 -> M] /\ f.w = Wrapped(n, f.r + f.nStored) /\ f.blank \in M
  BY DEF Ring, Wrapped
<1>2. Refuses(f) <=> f.nStored = n
  BY <1>1 DEF Refuses
<1>3. CASE f.nStored = n
  BY <1>1, <1>2, <1>3 DEF pcan_fifo_put
<1>4. CASE f.nStored < n
  <2> DEFINE g == pcan_fifo_put(f, m)
  <2>1. g = [f EXCEPT !.cells[f.w] = m, !.w = StepOn(f, @), !.nStored = @ + 1]
    BY <1>1, <1>2, <1>4 DEF pcan_fifo_put
  <2>2. StepOn(f, f.w) = IF f.w < n - 1 THEN f.w + 1 ELSE 0
    BY <1>1 DEF StepOn
  <2>3. /\ g.cells = [f.cells EXCEPT ![f.w] = m] /\ g.r = f.r /\ g.w = StepOn(f, f.w)
        /\ g.nStored = f.nStored + 1 /\ g.nCount = n /\ g.blank = f.blank
    BY <2>1, <1>1 DEF Ring
  <2>4. g \in Ring(n, M)
    <3> DEFINE c == [f.cells EXCEPT ![f.w] = m]
               v == StepOn(f, f.w)
               k == f.nStored + 1
    <3>1. g \in [cells : [0 .. n - 1 -> M], r : 0 .. n - 1, w : 0 .. n - 1, nStored : 0 .. n,
                 nCount : {n}, blank : M]
      <4>1. c \in [0 .. n - 1 -> M] /\ v \in 0 .. n - 1 /\ k \in 0 .. n
        BY <1>1, <1>4, <2>2
      <4>2. g = [f EXCEPT !.cells = c, !.w = v, !.nStored = k]
        BY <2>1
      <4> HIDE DEF c, v, k, g
      <4> QED BY <4>1, <4>2 DEF Ring
    <3>2. g.w = IF g.r + g.nStored < n THEN g.r + g.nStored ELSE g.r + g.nStored - n
      <4> HIDE DEF g
      <4> QED BY <1>1, <1>4, <2>2, <2>3 DEF Wrapped
    <3> QED BY <3>1, <3>2 DEF Ring
  <2> HIDE DEF g
  <2>5. /\ Contents(g) \in Seq(M) /\ Len(Contents(g)) = f.nStored + 1
        /\ \A i \in 1 .. f.nStored + 1 : Contents(g)[i] = g.cells[Wrapped(n, f.r + i - 1)]
    <3>1. /\ Contents(g) \in Seq(M) /\ Len(Contents(g)) = g.nStored
          /\ \A i \in 1 .. g.nStored : Contents(g)[i] = g.cells[Wrapped(n, g.r + i - 1)]
      BY <2>4, ContentsAre
    <3>2. g.nStored = f.nStored + 1 /\ g.r = f.r
      BY <2>3
    <3> QED BY <3>1, <3>2
  <2>6. /\ Contents(f) \in Seq(M) /\ Len(Contents(f)) = f.nStored
        /\ \A i \in 1 .. f.nStored : /\ Contents(f)[i] = f.cells[Wrapped(n, f.r + i - 1)]
                                     /\ Wrapped(n, f.r + i - 1) \in 0 .. n - 1
    BY ContentsAre
  <2>7. \A i \in 1 .. f.nStored : Contents(g)[i] = Contents(f)[i]
    <3> TAKE i \in 1 .. f.nStored
    <3>1. Wrapped(n, f.r + i - 1) # f.w
      BY <1>1, <1>4 DEF Wrapped
    <3>2. g.cells[Wrapped(n, f.r + i - 1)] = f.cells[Wrapped(n, f.r + i - 1)]
      BY <1>1, <2>3, <2>6, <3>1
    <3> QED BY <1>1, <2>5, <2>6, <3>2
  <2>8. Contents(g)[f.nStored + 1] = m
    <3>1. Wrapped(n, f.r + (f.nStored + 1) - 1) = f.w
      BY <1>1
    <3>2. g.cells[f.w] = m
      BY <1>1, <2>3
    <3>3. f.nStored + 1 \in 1 .. f.nStored + 1
      BY <1>1
    <3> QED BY <2>5, <3>1, <3>2, <3>3
  <2>9. Contents(g) = Append(Contents(f), m)
    BY <1>1, <2>5, <2>6, <2>7, <2>8
  <2> QED BY <1>2, <1>4, <2>3, <2>4, <2>9 DEF g
<1> QED BY <1>1, <1>3, <1>4

\* A get takes the oldest.
LEMMA RingGet ==
  ASSUME NEW n \in Nat \ {0}, NEW M, NEW f \in Ring(n, M), f.nStored > 0
  PROVE  /\ pcan_fifo_get(f) \in Ring(n, M) /\ pcan_fifo_get(f).nStored = f.nStored - 1
         /\ FirstOf(f) = Contents(f)[1]
         /\ \A i \in 1 .. f.nStored - 1 : Contents(pcan_fifo_get(f))[i] = Contents(f)[i + 1]
<1>1. /\ f.r \in 0 .. n - 1 /\ f.w \in 0 .. n - 1 /\ f.nStored \in 1 .. n /\ f.nCount = n
      /\ f.cells \in [0 .. n - 1 -> M] /\ f.w = Wrapped(n, f.r + f.nStored) /\ f.blank \in M
  BY DEF Ring, Wrapped
<1> DEFINE g == pcan_fifo_get(f)
<1>2. g = [f EXCEPT !.cells[f.r] = f.blank, !.r = StepOn(f, @), !.nStored = @ - 1]
  BY DEF pcan_fifo_get
<1>3. StepOn(f, f.r) = IF f.r < n - 1 THEN f.r + 1 ELSE 0
  BY <1>1 DEF StepOn
<1>4. /\ g.cells = [f.cells EXCEPT ![f.r] = f.blank] /\ g.r = StepOn(f, f.r) /\ g.w = f.w
      /\ g.nStored = f.nStored - 1 /\ g.nCount = n /\ g.blank = f.blank
  BY <1>1, <1>2 DEF Ring
<1>5. g \in Ring(n, M)
  <2> DEFINE c == [f.cells EXCEPT ![f.r] = f.blank]
             v == StepOn(f, f.r)
             k == f.nStored - 1
  <2>1. g \in [cells : [0 .. n - 1 -> M], r : 0 .. n - 1, w : 0 .. n - 1, nStored : 0 .. n,
               nCount : {n}, blank : M]
    <3>1. c \in [0 .. n - 1 -> M] /\ v \in 0 .. n - 1 /\ k \in 0 .. n
      BY <1>1, <1>3
    <3>2. g = [f EXCEPT !.cells = c, !.r = v, !.nStored = k]
      BY <1>2
    <3> HIDE DEF c, v, k, g
    <3> QED BY <3>1, <3>2 DEF Ring
  <2>2. g.w = IF g.r + g.nStored < n THEN g.r + g.nStored ELSE g.r + g.nStored - n
    <3> HIDE DEF g
    <3>1. CASE f.r < n - 1
      BY <1>1, <1>3, <1>4, <3>1 DEF Wrapped
    <3>2. CASE f.r = n - 1
      BY <1>1, <1>3, <1>4, <3>2 DEF Wrapped
    <3> QED BY <1>1, <3>1, <3>2
  <2> QED BY <2>1, <2>2 DEF Ring
<1> HIDE DEF g
<1>6. \A i \in 1 .. f.nStored - 1 : Contents(g)[i] = g.cells[Wrapped(n, g.r + i - 1)]
  <2>1. \A i \in 1 .. g.nStored : Contents(g)[i] = g.cells[Wrapped(n, g.r + i - 1)]
    BY <1>5, ContentsAre
  <2> QED BY <1>4, <2>1
<1>7. \A i \in 1 .. f.nStored : /\ Contents(f)[i] = f.cells[Wrapped(n, f.r + i - 1)]
                                /\ Wrapped(n, f.r + i - 1) \in 0 .. n - 1
  BY ContentsAre
<1>8. ASSUME NEW i \in 1 .. f.nStored - 1 PROVE Contents(g)[i] = Contents(f)[i + 1]
  <2>1. Wrapped(n, g.r + i - 1) = Wrapped(n, f.r + (i + 1) - 1)
    BY <1>1, <1>3, <1>4, SMTT(40) DEF Wrapped
  <2>2. Wrapped(n, f.r + (i + 1) - 1) # f.r
    BY <1>1 DEF Wrapped
  <2>3. /\ Contents(f)[i + 1] = f.cells[Wrapped(n, f.r + (i + 1) - 1)]
        /\ Wrapped(n, f.r + (i + 1) - 1) \in 0 .. n - 1
    <3>1. i + 1 \in 1 .. f.nStored
      BY <1>1
    <3> QED BY <1>7, <3>1
  <2> QED BY <1>1, <1>4, <1>6, <2>1, <2>2, <2>3
<1>9. FirstOf(f) = Contents(f)[1]
  BY <1>1, <1>7 DEF FirstOf, Wrapped
<1> QED BY <1>4, <1>5, <1>8, <1>9 DEF g

\* Several gets take as many of the oldest.
LEMMA RingGets ==
  ASSUME NEW n \in Nat \ {0}, NEW M, NEW f \in Ring(n, M), NEW k \in 0 .. f.nStored
  PROVE  /\ GetMany(f, k) \in Ring(n, M) /\ GetMany(f, k).nStored = f.nStored - k
         /\ \A i \in 1 .. f.nStored - k : Contents(GetMany(f, k))[i] = Contents(f)[i + k]
<1>1. f.nStored \in 0 .. n /\ k \in Nat
  BY DEF Ring
<1>2. PICK g : /\ g[0] = f /\ g[k] = GetMany(f, k)
               /\ \A j \in 1 .. k : g[j] = pcan_fifo_get(g[j - 1])
  BY <1>1, GetManyIs
<1> DEFINE Is(j) == /\ g[j] \in Ring(n, M) /\ g[j].nStored = f.nStored - j
                    /\ \A i \in 1 .. f.nStored - j : Contents(g[j])[i] = Contents(f)[i + j]
           Good == {j \in 0 .. k : Is(j)}
<1>3. 0 \in Good
  BY <1>1, <1>2
<1>4. ASSUME NEW j \in 1 .. k, j - 1 \in Good PROVE j \in Good
  <2> DEFINE h == g[j - 1]
  <2>1. /\ h \in Ring(n, M) /\ h.nStored = f.nStored - (j - 1)
        /\ \A i \in 1 .. f.nStored - (j - 1) : Contents(h)[i] = Contents(f)[i + (j - 1)]
    BY <1>4
  <2>2. g[j] = pcan_fifo_get(h)
    BY <1>2
  <2> HIDE DEF h
  <2>3. h.nStored > 0 /\ h.nStored - 1 = f.nStored - j
    BY <1>1, <2>1
  <2>4. /\ g[j] \in Ring(n, M) /\ g[j].nStored = h.nStored - 1
        /\ \A i \in 1 .. h.nStored - 1 : Contents(g[j])[i] = Contents(h)[i + 1]
    BY <2>1, <2>2, <2>3, RingGet
  <2>5. ASSUME NEW i \in 1 .. f.nStored - j PROVE Contents(g[j])[i] = Contents(f)[i + j]
    <3>1. Contents(g[j])[i] = Contents(h)[i + 1]
      BY <2>3, <2>4
    <3>2. i + 1 \in 1 .. f.nStored - (j - 1) /\ (i + 1) + (j - 1) = i + j
      BY <1>1
    <3>3. Contents(h)[i + 1] = Contents(f)[(i + 1) + (j - 1)]
      BY <2>1, <3>2
    <3> QED BY <3>1, <3>2, <3>3
  <2> QED BY <2>3, <2>4, <2>5
<1> HIDE DEF Good
<1>5. k \in Good
  BY <1>1, <1>3, <1>4, UpTo
<1> QED BY <1>2, <1>5 DEF Good

----------------------------------------------------------------------------
(* Types of what the handlers pass on.                                     *)

ErrorFrames == [id : {0}, flags : {{"ERR"}}, data : SUBSET Errors]

LEMMA Numerals ==
  /\ EXT_IDS \in Nat \ {0} /\ STD_IDS \in Nat \ {0}
BY SMT DEF EXT_IDS, STD_IDS

LEMMA ModType ==
  ASSUME NEW k \in Nat, NEW n \in Nat \ {0}
  PROVE  k % n \in Nat /\ k \div n \in Nat
BY SMT

LEMMA Frame2msgType ==
  ASSUME NEW cf \in Heard \cup ErrorFrames
  PROVE  frame2msg(cf) \in Told
<1>1. CASE cf \in Heard
  <2>1. cf.id \in Nat /\ cf.flags \subseteq {"EFF", "RTR"} /\ cf.data \in Nat
    BY <1>1 DEF Heard
  <2>2. "ERR" \notin cf.flags
    BY <2>1
  <2>3. cf.id % EXT_IDS \in Nat
    BY <2>1, Numerals, ModType
  <2>4. When("RTR" \in cf.flags, "RTR") \cup When("EFF" \in cf.flags, "EXTENDED") \in SUBSET Types
    BY DEF When, Types
  <2> QED BY <2>1, <2>2, <2>3, <2>4 DEF frame2msg, Told
<1>2. CASE cf \in ErrorFrames
  <2>1. "ERR" \in cf.flags /\ cf.data \in SUBSET Errors
    BY <1>2 DEF ErrorFrames
  <2> QED BY <2>1 DEF frame2msg, Told
<1> QED BY <1>1, <1>2

LEMMA Elements ==
  ASSUME NEW S, NEW s \in Seq(S)
  PROVE  Len(s) \in Nat /\ s \in [1 .. Len(s) -> S] /\ \A i \in 1 .. Len(s) : s[i] \in S
OBVIOUS

LEMMA BytesIdType ==
  ASSUME NEW b \in Bytes
  PROVE  BytesId(b) \in Nat
<1>1. Len(b) \in {2, 4} /\ \A i \in 1 .. Len(b) : b[i] \in 0 .. 255
  BY Elements DEF Bytes
<1>2. CASE Len(b) = 4
  <2>1. b[1] \in Nat /\ b[2] \in Nat /\ b[3] \in Nat /\ b[4] \in Nat
    BY <1>1, <1>2
  <2>2. b[4] \div 8 \in Nat
    BY <2>1, ModType
  <2>3. b[1] * 2097152 \in Nat /\ b[2] * 8192 \in Nat /\ b[3] * 32 \in Nat
    BY <2>1, SMT
  <2> QED BY <1>2, <2>2, <2>3, SMT DEF BytesId
<1>3. CASE Len(b) = 2
  <2>1. b[1] \in Nat /\ b[2] \in Nat
    BY <1>1, <1>3
  <2>2. b[2] \div 32 \in Nat
    BY <2>1, ModType
  <2> QED BY <1>3, <2>1, <2>2, SMT DEF BytesId
<1> QED BY <1>1, <1>2, <1>3

LEMMA SwappedType ==
  ASSUME NEW b \in Bytes
  PROVE  /\ Swapped(b) \in Bytes /\ Len(Swapped(b)) = Len(b)
         /\ Swapped(Swapped(b)) = b
<1>1. /\ b \in [1 .. Len(b) -> 0 .. 255] /\ Len(b) \in {2, 4} /\ Len(b) \in Nat
      /\ \A i \in 1 .. Len(b) : b[i] \in 0 .. 255
  BY Elements, ZenonT(60) DEF Bytes
<1>2. Swapped(b) = [i \in 1 .. Len(b) |-> b[Len(b) + 1 - i]]
  BY DEF Swapped
<1>3. \A i \in 1 .. Len(b) : Len(b) + 1 - i \in 1 .. Len(b) /\ b[Len(b) + 1 - i] \in 0 .. 255
  <2> TAKE i \in 1 .. Len(b)
  <2>1. Len(b) + 1 - i \in 1 .. Len(b)
    <3>1. Len(b) \in Nat
      BY <1>1
    <3> QED BY <3>1
  <2> QED BY <1>1, <2>1
<1>4. Swapped(b) \in [1 .. Len(b) -> 0 .. 255]
  BY <1>2, <1>3
<1>5. Swapped(b) \in Seq(0 .. 255) /\ Len(Swapped(b)) = Len(b)
  <2>1. \A k \in Nat : \A g \in [1 .. k -> 0 .. 255] : g \in Seq(0 .. 255) /\ Len(g) = k
    OBVIOUS
  <2> QED BY <1>1, <1>4, <2>1
<1>6. Swapped(Swapped(b)) = b
  <2>1. Swapped(Swapped(b)) = [i \in 1 .. Len(b) |-> Swapped(b)[Len(b) + 1 - i]]
    BY <1>5 DEF Swapped
  <2>2. \A i \in 1 .. Len(b) : Swapped(b)[Len(b) + 1 - i] = b[i]
    <3> TAKE i \in 1 .. Len(b)
    <3>1. Len(b) + 1 - i \in 1 .. Len(b) /\ Len(b) + 1 - (Len(b) + 1 - i) = i
      BY <1>1
    <3> QED BY <1>2, <3>1
  <2>3. b = [i \in 1 .. Len(b) |-> b[i]]
    BY <1>1
  <2> QED BY <2>1, <2>2, <2>3
<1> QED BY <1>1, <1>5, <1>6 DEF Bytes

LEMMA ReadFrameType ==
  ASSUME NEW r \in Regs
  PROVE  /\ sja1000_read_frame(r) \in Heard
         /\ pcan_hw_DecodeMessage(r) \in Heard /\ "EFF" \notin pcan_hw_DecodeMessage(r).flags
<1>1. r.eff \in BOOLEAN /\ r.rtr \in BOOLEAN /\ r.bytes \in Bytes /\ r.data \in Nat
  BY DEF Regs
<1>2. BytesId(r.bytes) \in Nat /\ BytesId(Swapped(r.bytes)) \in Nat
  BY <1>1, BytesIdType, SwappedType
<1>3. \A k \in Nat : WithBit1(k) \in Nat
  BY DEF WithBit1
<1>4. When(r.eff, "EFF") \cup When(r.rtr, "RTR") \in SUBSET {"EFF", "RTR"}
  BY DEF When
<1>5. When(r.rtr, "RTR") \in SUBSET {"EFF", "RTR"} /\ "EFF" \notin When(r.rtr, "RTR")
  BY DEF When
<1>6. sja1000_read_frame(r) \in Heard
  BY <1>1, <1>2, <1>4 DEF sja1000_read_frame, Heard
<1>7. pcan_hw_DecodeMessage(r) \in Heard /\ "EFF" \notin pcan_hw_DecodeMessage(r).flags
  BY <1>1, <1>2, <1>3, <1>5 DEF pcan_hw_DecodeMessage, Heard
<1> QED BY <1>6, <1>7

LEMMA IdBytesType ==
  ASSUME NEW k \in Nat, NEW eff \in BOOLEAN
  PROVE  IdBytes(k, eff) \in Bytes /\ Len(IdBytes(k, eff)) = IF eff THEN 4 ELSE 2
<1>1. CASE eff
  <2>1. /\ (k \div 2097152) % 256 \in 0 .. 255 /\ (k \div 8192) % 256 \in 0 .. 255
        /\ (k \div 32) % 256 \in 0 .. 255 /\ (k % 32) * 8 \in 0 .. 255
    BY SMT
  <2> HIDE DEF IdBytes
  <2>2. IdBytes(k, eff) = <<(k \div 2097152) % 256, (k \div 8192) % 256, (k \div 32) % 256,
                            (k % 32) * 8>>
    BY <1>1, SMT DEF IdBytes
  <2>3. /\ IdBytes(k, eff) \in Seq(0 .. 255) /\ Len(IdBytes(k, eff)) = 4
    BY <2>1, <2>2, SMT
  <2> QED BY <1>1, <2>3 DEF Bytes
<1>2. CASE ~eff
  <2>1. (k \div 8) % 256 \in 0 .. 255 /\ (k % 8) * 32 \in 0 .. 255
    BY SMT
  <2>2. IdBytes(k, eff) = <<(k \div 8) % 256, (k % 8) * 32>>
    BY <1>2, SMT DEF IdBytes
  <2>3. /\ IdBytes(k, eff) \in Seq(0 .. 255) /\ Len(IdBytes(k, eff)) = 2
    BY <2>1, <2>2, SMT
  <2> QED BY <1>2, <2>3 DEF Bytes
<1> QED BY <1>1, <1>2

----------------------------------------------------------------------------
(* pcan_chardev_rx() and the handlers' use of it.                          *)

LEMMA Sizes ==
  /\ WCount \in Nat \ {0} /\ WCount > 1 /\ RCount \in Nat \ {0} /\ RCount > 1
  /\ Block \in Nat \ {0} /\ Block < RCount /\ Block + 1 <= RCount
  /\ MaxPerIrq \in Nat /\ RxDepth \in Nat
BY PcanAssumption

Takes(f, cf) == ~Refuses(f) /\ (bExtended \/ "EFF" \notin cf.flags)

\* A frame is appended, or nothing happens.
LEMMA RxOne ==
  ASSUME NEW f \in Ring(RCount, Told), NEW cf \in Heard \cup ErrorFrames
  PROVE  /\ pcan_chardev_rx(f, cf) \in Ring(RCount, Told) /\ frame2msg(cf) \in Told
         /\ f.nStored \in 0 .. RCount /\ (Refuses(f) <=> f.nStored = RCount)
         /\ ~Takes(f, cf) => pcan_chardev_rx(f, cf) = f
         /\ Takes(f, cf) =>
              /\ pcan_chardev_rx(f, cf).nStored = f.nStored + 1
              /\ Contents(pcan_chardev_rx(f, cf)) = Append(Contents(f), frame2msg(cf))
<1>1. frame2msg(cf) \in Told
  BY Frame2msgType
<1>2. f.nStored \in 0 .. RCount
  BY DEF Ring
<1>3. RCount \in Nat \ {0}
  BY Sizes
<1> DEFINE g == pcan_fifo_put(f, frame2msg(cf))
<1>4. /\ g \in Ring(RCount, Told) /\ (Refuses(f) <=> f.nStored = RCount)
      /\ f.nStored = RCount => g = f
      /\ f.nStored < RCount => /\ g.nStored = f.nStored + 1
                               /\ Contents(g) = Append(Contents(f), frame2msg(cf))
  BY <1>1, <1>3, RingPut
<1>5. pcan_chardev_rx(f, cf) = IF bExtended \/ "EFF" \notin cf.flags THEN g ELSE f
  BY DEF pcan_chardev_rx
<1> HIDE DEF g
<1>6. ~Takes(f, cf) => pcan_chardev_rx(f, cf) = f
  BY <1>4, <1>5 DEF Takes
<1>7. Takes(f, cf) => /\ pcan_chardev_rx(f, cf).nStored = f.nStored + 1
                      /\ Contents(pcan_chardev_rx(f, cf)) = Append(Contents(f), frame2msg(cf))
  <2> SUFFICES ASSUME Takes(f, cf)
               PROVE  /\ pcan_chardev_rx(f, cf).nStored = f.nStored + 1
                      /\ Contents(pcan_chardev_rx(f, cf)) = Append(Contents(f), frame2msg(cf))
    OBVIOUS
  <2>1. pcan_chardev_rx(f, cf) = g
    BY <1>5 DEF Takes
  <2>2. f.nStored < RCount
    BY <1>2, <1>3, <1>4 DEF Takes
  <2> QED BY <1>4, <2>1, <2>2
<1> QED BY <1>1, <1>2, <1>4, <1>5, <1>6, <1>7

\* Frames are added behind what is stored, one at most for each frame.
LEMMA RxMany ==
  ASSUME NEW f \in Ring(RCount, Told), NEW s, Len(s) \in Nat,
         \A i \in 1 .. Len(s) : s[i] \in Heard \cup ErrorFrames
  PROVE  \A i \in 0 .. Len(s) :
           /\ After(f, s)[i] \in Ring(RCount, Told)
           /\ After(f, s)[i].nStored \in f.nStored .. RCount
           /\ After(f, s)[i].nStored <= f.nStored + i
           /\ \A j \in 1 .. f.nStored : Contents(After(f, s)[i])[j] = Contents(f)[j]
<1> DEFINE g == After(f, s)
           Is(i) == /\ g[i] \in Ring(RCount, Told) /\ g[i].nStored \in f.nStored .. RCount
                    /\ g[i].nStored <= f.nStored + i
                    /\ \A j \in 1 .. f.nStored : Contents(g[i])[j] = Contents(f)[j]
           Good == {i \in 0 .. Len(s) : Is(i)}
<1>1. g[0] = f /\ \A i \in 1 .. Len(s) : g[i] = pcan_chardev_rx(g[i - 1], s[i])
  BY AfterIs
<1>2. f.nStored \in 0 .. RCount /\ RCount \in Nat
  BY Sizes DEF Ring
<1> HIDE DEF g
<1>3. 0 \in Good
  BY <1>1, <1>2
<1>4. ASSUME NEW i \in 1 .. Len(s), i - 1 \in Good PROVE i \in Good
  <2> DEFINE h == g[i - 1]
  <2>1. /\ h \in Ring(RCount, Told) /\ h.nStored \in f.nStored .. RCount
        /\ h.nStored <= f.nStored + (i - 1)
        /\ \A j \in 1 .. f.nStored : Contents(h)[j] = Contents(f)[j]
    BY <1>4
  <2>2. g[i] = pcan_chardev_rx(h, s[i])
    BY <1>1
  <2> HIDE DEF h
  <2>3. CASE ~Takes(h, s[i])
    <3>1. g[i] = h
      BY <2>1, <2>2, <2>3, RxOne
    <3> QED BY <1>2, <2>1, <3>1, SMTT(30)
  <2>4. CASE Takes(h, s[i])
    <3>1. /\ g[i] \in Ring(RCount, Told) /\ g[i].nStored = h.nStored + 1
          /\ Contents(g[i]) = Append(Contents(h), frame2msg(s[i]))
      BY <2>1, <2>2, <2>4, RxOne
    <3>2. g[i].nStored \in 0 .. RCount
      BY <3>1 DEF Ring
    <3>3. Contents(h) \in Seq(Told) /\ Len(Contents(h)) = h.nStored
      BY <2>1, Sizes, ContentsAre
    <3>4. ASSUME NEW j \in 1 .. f.nStored PROVE Contents(g[i])[j] = Contents(f)[j]
      <4>1. j \in 1 .. Len(Contents(h))
        BY <1>2, <2>1, <3>3
      <4>2. Contents(g[i])[j] = Contents(h)[j]
        BY <3>1, <3>3, <4>1
      <4> QED BY <2>1, <4>2
    <3>5. g[i].nStored \in f.nStored .. RCount /\ g[i].nStored <= f.nStored + i
      <4>1. h.nStored \in f.nStored .. RCount /\ h.nStored <= f.nStored + (i - 1)
        BY <2>1
      <4>2. i \in Nat /\ f.nStored \in Nat /\ RCount \in Nat
        BY <1>2
      <4> QED BY <3>1, <3>2, <4>1, <4>2
    <3>6. i \in 0 .. Len(s)
      OBVIOUS
    <3> QED BY <3>1, <3>4, <3>5, <3>6
  <2> QED BY <2>3, <2>4
<1> HIDE DEF Good
<1>5. \A i \in 0 .. Len(s) : i \in Good
  BY <1>3, <1>4, UpTo
<1> QED BY <1>5 DEF Good, g

----------------------------------------------------------------------------
(* Rings as queues.                                                        *)

LEMMA SameStart ==
  ASSUME NEW M, NEW s \in Seq(M), NEW t \in Seq(M), Len(s) <= Len(t),
         \A i \in 1 .. Len(s) : s[i] = t[i]
  PROVE  IsPrefix(s, t)
<1>1. SubSeq(s, 1, Len(s)) = SubSeq(t, 1, Len(s))
  OBVIOUS
<1> QED BY <1>1 DEF IsPrefix

LEMMA SameEnd ==
  ASSUME NEW M, NEW s \in Seq(M), NEW t \in Seq(M), NEW k \in Nat, Len(t) = Len(s) + k,
         \A i \in 1 .. Len(s) : s[i] = t[i + k]
  PROVE  IsSuffix(s, t)
<1>1. Len(s) \in Nat /\ Len(t) \in Nat
  OBVIOUS
<1>2. Reverse(s) = [i \in 1 .. Len(s) |-> s[(Len(s) - i) + 1]]
  BY DEF Reverse
<1>3. Reverse(t) = [i \in 1 .. Len(t) |-> t[(Len(t) - i) + 1]]
  BY DEF Reverse
<1>4. Reverse(s) \in Seq(M) /\ Len(Reverse(s)) = Len(s)
  BY <1>1, <1>2
<1>5. Reverse(t) \in Seq(M) /\ Len(Reverse(t)) = Len(t)
  BY <1>1, <1>3
<1>6. \A i \in 1 .. Len(Reverse(s)) : Reverse(s)[i] = Reverse(t)[i]
  <2> TAKE i \in 1 .. Len(Reverse(s))
  <2>1. i \in 1 .. Len(s) /\ i \in 1 .. Len(t)
    BY <1>1, <1>4
  <2>2. Reverse(s)[i] = s[(Len(s) - i) + 1] /\ Reverse(t)[i] = t[(Len(t) - i) + 1]
    BY <1>2, <1>3, <2>1
  <2>3. (Len(s) - i) + 1 \in 1 .. Len(s) /\ ((Len(s) - i) + 1) + k = (Len(t) - i) + 1
    BY <1>1, <2>1
  <2> QED BY <2>2, <2>3
<1>7. IsPrefix(Reverse(s), Reverse(t))
  <2> HIDE DEF IsPrefix
  <2>1. Len(Reverse(s)) <= Len(Reverse(t))
    BY <1>1, <1>4, <1>5
  <2> QED BY <1>4, <1>5, <1>6, <2>1, SameStart
<1> QED BY <1>7 DEF IsSuffix

----------------------------------------------------------------------------
(* Types.                                                                  *)

LEMMA InitTypes == Init => TypeInv
<1> SUFFICES ASSUME Init PROVE TypeInv
  OBVIOUS
<1>1. Empty \in Msgs /\ Empty \in Told
  BY DEF Empty, Msgs, Told, Types
<1>2. RingTypes
  BY <1>1, Sizes, RingInit DEF Init, RingTypes
<1>3. DevTypes
  BY DEF Init, DevTypes
<1>4. ChipTypes
  BY DEF Init, ChipTypes
<1>5. ProcTypes
  BY <1>1 DEF Init, ProcTypes, Places, NoCall, Active
<1>6. HistTypes
  BY DEF Init, HistTypes
<1> QED BY <1>2, <1>3, <1>4, <1>5, <1>6 DEF TypeInv

LEMMA Kept ==
  ASSUME TypeInv
  PROVE  /\ UNCHANGED <<hw, DataSendReady, bExtended, ucPhysicallyInstalled>> => DevTypes'
         /\ UNCHANGED <<wf, rf>> => RingTypes'
         /\ UNCHANGED <<tx, rx, ints>> => ChipTypes'
         /\ UNCHANGED <<pc, running, call, text>> => ProcTypes'
         /\ UNCHANGED <<accepted, bus, got, read, count>> => HistTypes'
BY DEF TypeInv, DevTypes, RingTypes, ChipTypes, ProcTypes, HistTypes, Active

LEMMA HeadTail ==
  ASSUME NEW S, NEW s \in Seq(S), s # <<>>
  PROVE  /\ Head(s) \in S /\ Head(s) = s[1] /\ Len(s) \in Nat \ {0}
         /\ Tail(s) \in Seq(S) /\ Len(Tail(s)) = Len(s) - 1
         /\ \A i \in 1 .. Len(s) - 1 : Tail(s)[i] = s[i + 1]
OBVIOUS

LEMMA TypeCallRead ==
  ASSUME TypeInv, NEW p \in Procs, CallRead(p)
  PROVE  TypeInv'
<1>1. ProcTypes'
  BY DEF TypeInv, ProcTypes, CallRead, Places, Active
<1> QED BY <1>1, Kept DEF TypeInv, CallRead, queues, device, chip, history

LEMMA TypeSleepForData ==
  ASSUME TypeInv, NEW p \in Procs, SleepForData(p)
  PROVE  TypeInv'
<1>1. ProcTypes'
  BY DEF TypeInv, ProcTypes, SleepForData, Places, Active
<1> QED BY <1>1, Kept DEF TypeInv, SleepForData, queues, device, chip, history

LEMMA TypeGet ==
  ASSUME TypeInv, NEW p \in Procs, Get(p)
  PROVE  TypeInv'
<1>1. ProcTypes'
  BY DEF TypeInv, ProcTypes, Get, Places, Active
<1>2. rf \in Ring(RCount, Told) /\ rf.nStored > 0 /\ read \in Seq(Told)
  BY DEF TypeInv, RingTypes, HistTypes, Get, pcan_fifo_empty
<1>3. pcan_fifo_get(rf) \in Ring(RCount, Told)
  BY <1>2, Sizes, RingGet
<1>4. FirstOf(rf) \in Told
  BY <1>2 DEF Ring, FirstOf
<1>5. rf' \in Ring(RCount, Told) /\ read' \in Seq(Told)
  BY <1>2, <1>3, <1>4 DEF Get
<1>6. RingTypes'
  BY <1>5 DEF TypeInv, RingTypes, Get
<1>7. HistTypes'
  BY <1>5 DEF TypeInv, HistTypes, Get
<1> QED BY <1>1, <1>6, <1>7, Kept DEF TypeInv, Get, device, chip

LEMMA TypeReadRest ==
  ASSUME TypeInv, NEW p \in Procs, ReadRest(p)
  PROVE  TypeInv'
BY Kept DEF TypeInv, ReadRest, queues, device, chip, history

LEMMA NumberedType ==
  ASSUME TypeInv, NEW m \in [ID : Nat, MSGTYPE : SUBSET {"EXTENDED", "RTR"}]
  PROVE  Numbered(m) \in Msgs
<1>1. count.writes \in Nat
  BY DEF TypeInv, HistTypes
<1> QED BY <1>1 DEF Numbered, Msgs, Types

LEMMA CountedType ==
  ASSUME TypeInv, NEW what \in {"writes", "rx"}, Counted(what)
  PROVE  /\ count' \in [writes : Nat, rx : Nat] /\ count'[what] = count[what] + 1
         /\ \A other \in {"writes", "rx"} \ {what} : count'[other] = count[other]
BY DEF TypeInv, HistTypes, Counted

LEMMA TypeCallWrite ==
  ASSUME TypeInv, NEW p \in Procs, NEW m \in Messages, CallWrite(p, m)
  PROVE  TypeInv'
<1>1. Numbered(m) \in Msgs
  BY NumberedType, PcanAssumption
<1>2. ProcTypes'
  BY <1>1 DEF TypeInv, ProcTypes, CallWrite, Places, Active
<1>3. HistTypes'
  BY CountedType DEF TypeInv, HistTypes, CallWrite
<1> QED BY <1>2, <1>3, Kept DEF TypeInv, CallWrite, queues, device, chip

\* A step of one process.
LEMMA OwnTypes ==
  ASSUME TypeInv, NEW p \in Procs,
         pc' \in [Procs -> Places], running' \in Procs \cup {NoProc},
         call' \in [Procs -> [msg : Msgs, text : BOOLEAN]], text' \in [Procs -> Seq(LineSet)],
         \A q \in Procs : q # p => /\ pc'[q] = pc[q] /\ call'[q] = call[q]
                                  /\ text'[q] = text[q],
         Active(p)' /\ call'[p].text => text'[p] # <<>>
  PROVE  ProcTypes'
<1>1. \A q \in Procs : Active(q) /\ call[q].text => text[q] # <<>>
  BY DEF TypeInv, ProcTypes
<1>2. \A q \in Procs : q # p => (Active(q)' <=> Active(q))
  BY DEF Active
<1> QED BY <1>1, <1>2 DEF ProcTypes

LEMMA ProcFacts ==
  ASSUME TypeInv
  PROVE  /\ pc \in [Procs -> Places] /\ running \in Procs \cup {NoProc}
         /\ call \in [Procs -> [msg : Msgs, text : BOOLEAN]]
         /\ text \in [Procs -> Seq(LineSet)]
         /\ \A p \in Procs : Active(p) /\ call[p].text => text[p] # <<>>
BY DEF TypeInv, ProcTypes

LEMMA TypeCallWriteText ==
  ASSUME TypeInv, NEW p \in Procs, NEW l \in Lines, CallWriteText(p, l)
  PROVE  TypeInv'
<1> DEFINE line == [l EXCEPT !.msg = Numbered(@)]
<1>1. l \in [kind : {"message", "comment", "error", "init"},
             msg : [ID : Nat, MSGTYPE : SUBSET {"EXTENDED", "RTR"}]]
  BY PcanAssumption
<1>2. Numbered(l.msg) \in Msgs
  BY <1>1, NumberedType
<1>3. line \in LineSet
  BY <1>1, <1>2 DEF LineSet
<1>4. text' = [text EXCEPT ![p] = Append(@, line)] /\ pc' = [pc EXCEPT ![p] = "parse"]
      /\ call' = call /\ running' = running
  BY DEF CallWriteText
<1> HIDE DEF line
<1>5. Append(text[p], line) \in Seq(LineSet)
  BY <1>3, ProcFacts
<1>6. text' \in [Procs -> Seq(LineSet)] /\ pc' \in [Procs -> Places]
  BY <1>4, <1>5, ProcFacts DEF Places
<1>7. ProcTypes'
  <2>1. ~Active(p)'
    BY <1>4, ProcFacts DEF Active
  <2> QED BY <1>4, <1>6, <2>1, ProcFacts, OwnTypes
<1>8. HistTypes'
  BY CountedType DEF TypeInv, HistTypes, CallWriteText
<1> QED BY <1>7, <1>8, Kept DEF TypeInv, CallWriteText, queues, device, chip

LEMMA TypeParse ==
  ASSUME TypeInv, NEW p \in Procs, Parse(p)
  PROVE  TypeInv'
<1>1. text[p] \in Seq(LineSet) /\ pc[p] = "parse" /\ running' = running
  BY ProcFacts DEF Parse, May
<1>2. ASSUME pc' = [pc EXCEPT ![p] = "idle"], UNCHANGED <<call, text>>
      PROVE  ProcTypes'
  <2>1. pc' \in [Procs -> Places] /\ ~Active(p)'
    BY <1>2, ProcFacts DEF Places, Active
  <2> QED BY <1>1, <1>2, <2>1, ProcFacts, OwnTypes
<1>3. ASSUME text[p] # <<>>, text' = [text EXCEPT ![p] = Tail(@)], UNCHANGED <<pc, call>>
      PROVE  ProcTypes'
  <2>1. Tail(text[p]) \in Seq(LineSet)
    BY <1>1, <1>3, HeadTail
  <2>2. text' \in [Procs -> Seq(LineSet)] /\ \A q \in Procs : q # p => text'[q] = text[q]
    BY <1>3, <2>1, ProcFacts
  <2>3. ~Active(p)'
    BY <1>1, <1>3 DEF Active
  <2> QED BY <1>1, <1>3, <2>2, <2>3, ProcFacts, OwnTypes
<1>4. ASSUME text[p] # <<>>, NEW m \in Parsed(Head(text[p]), {Garbage}),
             call' = [call EXCEPT ![p] = [msg |-> m, text |-> TRUE]],
             pc' = [pc EXCEPT ![p] = "write"], UNCHANGED text
      PROVE  ProcTypes'
  <2>1. Head(text[p]) \in LineSet
    BY <1>1, <1>4, HeadTail
  <2>2. m \in Msgs
    <3>1. Head(text[p]).msg \in Msgs
      BY <2>1 DEF LineSet
    <3>2. m = Head(text[p]).msg \/ m = [Head(text[p]).msg EXCEPT !.DATA = Garbage]
      BY <1>4 DEF Parsed
    <3> QED BY <3>1, <3>2 DEF Garbage, Msgs
  <2>3. call' \in [Procs -> [msg : Msgs, text : BOOLEAN]] /\ pc' \in [Procs -> Places]
        /\ \A q \in Procs : q # p => call'[q] = call[q] /\ pc'[q] = pc[q]
    BY <1>4, <2>2, ProcFacts DEF Places
  <2> QED BY <1>1, <1>4, <2>3, ProcFacts, OwnTypes
<1>5. ProcTypes'
  <2>1. \/ pc' = [pc EXCEPT ![p] = "idle"] /\ UNCHANGED <<call, text>>
        \/ text[p] # <<>> /\ text' = [text EXCEPT ![p] = Tail(@)] /\ UNCHANGED <<pc, call>>
        \/ \E m \in Parsed(Head(text[p]), {Garbage}) :
             /\ text[p] # <<>> /\ call' = [call EXCEPT ![p] = [msg |-> m, text |-> TRUE]]
             /\ pc' = [pc EXCEPT ![p] = "write"] /\ UNCHANGED text
    BY DEF Parse
  <2> QED BY <1>2, <1>3, <1>4, <2>1
<1> QED BY <1>5, Kept DEF TypeInv, Parse, queues, device, chip, history

LEMMA TypeSleepForRoom ==
  ASSUME TypeInv, NEW p \in Procs, SleepForRoom(p)
  PROVE  TypeInv'
<1>1. ProcTypes'
  BY DEF TypeInv, ProcTypes, SleepForRoom, Places, Active, May
<1> QED BY <1>1, Kept DEF TypeInv, SleepForRoom, queues, device, chip, history

LEMMA FinishType ==
  ASSUME TypeInv, NEW p \in Procs, NEW ok \in BOOLEAN, Active(p), Finish(p, ok)
  PROVE  ProcTypes'
<1>1. NoCall \in [msg : Msgs, text : BOOLEAN]
  BY DEF Empty, Msgs, Types, NoCall
<1>2. /\ text \in [Procs -> Seq(LineSet)] /\ pc \in [Procs -> Places]
      /\ call \in [Procs -> [msg : Msgs, text : BOOLEAN]]
      /\ \A q \in Procs : Active(q) /\ call[q].text => text[q] # <<>>
  BY DEF TypeInv, ProcTypes
<1>3. text' \in [Procs -> Seq(LineSet)] /\ \A q \in Procs : q # p => text'[q] = text[q]
  <2>1. CASE ok /\ call[p].text
    <3>1. Tail(text[p]) \in Seq(LineSet)
      BY <1>2, <2>1, HeadTail
    <3> QED BY <1>2, <2>1, <3>1 DEF Finish
  <2>2. CASE ~(ok /\ call[p].text)
    BY <1>2, <2>2 DEF Finish
  <2> QED BY <2>1, <2>2
<1>4. call' \in [Procs -> [msg : Msgs, text : BOOLEAN]] /\ \A q \in Procs : q # p => call'[q] = call[q]
  BY <1>1, <1>2 DEF Finish
<1>5. /\ pc' \in [Procs -> Places] /\ pc'[p] \in {"parse", "idle"}
      /\ \A q \in Procs : q # p => pc'[q] = pc[q]
  BY <1>2 DEF Finish, Places
<1>6. running' = NoProc
  BY DEF Finish
<1>7. ~Active(p)' /\ \A q \in Procs : q # p => (Active(q)' <=> Active(q))
  BY <1>5 DEF Active
<1> QED BY <1>2, <1>3, <1>4, <1>5, <1>6, <1>7 DEF ProcTypes

LEMMA TypePut ==
  ASSUME TypeInv, NEW p \in Procs, Put(p)
  PROVE  TypeInv'
<1> DEFINE m == [call[p].msg EXCEPT !.pos = Len(accepted) + 1]
<1>1. m \in Msgs
  <2>1. call[p].msg \in Msgs
    BY ProcFacts
  <2>2. Len(accepted) + 1 \in Nat
    BY Elements DEF TypeInv, HistTypes
  <2> QED BY <2>1, <2>2 DEF Msgs
<1>2. wf \in Ring(WCount, Msgs) /\ accepted \in Seq(Msgs)
  BY DEF TypeInv, RingTypes, HistTypes
<1>3. \/ wf' = pcan_fifo_put(wf, m) /\ accepted' = Append(accepted, m)
      \/ UNCHANGED <<wf, accepted>>
  BY DEF Put
<1>4. ProcTypes'
  BY DEF TypeInv, ProcTypes, Put, Places, Active, May
<1> HIDE DEF m
<1>5. wf' \in Ring(WCount, Msgs) /\ accepted' \in Seq(Msgs)
  <2>1. pcan_fifo_put(wf, m) \in Ring(WCount, Msgs)
    BY <1>1, <1>2, Sizes, RingPut
  <2> QED BY <1>1, <1>2, <1>3, <2>1
<1>6. RingTypes'
  BY <1>5 DEF TypeInv, RingTypes, Put
<1>7. HistTypes'
  BY <1>5 DEF TypeInv, HistTypes, Put
<1> QED BY <1>4, <1>6, <1>7, Kept DEF TypeInv, Put, device, chip

LEMMA TypeClaim ==
  ASSUME TypeInv, NEW p \in Procs, Claim(p)
  PROVE  TypeInv'
<1>1. ProcTypes'
  <2>1. CASE Finish(p, TRUE)
    <3>1. Active(p)
      BY DEF Claim, May, Active
    <3> QED BY <2>1, <3>1, FinishType
  <2>2. CASE pc' = [pc EXCEPT ![p] = "start"] /\ UNCHANGED <<text, running, call>>
    BY <2>2 DEF TypeInv, ProcTypes, Places, Claim, May, Active
  <2> QED BY <2>1, <2>2 DEF Claim
<1>2. DevTypes'
  BY DEF TypeInv, DevTypes, Claim, device
<1> QED BY <1>1, <1>2, Kept DEF TypeInv, Claim, device, chip, history

LEMMA EncodeType ==
  ASSUME NEW m, m.ID \in Nat, m.DATA \in Nat
  PROVE  pcan_hw_EncodeMessage(m) \in Regs
<1> DEFINE eff == "EXTENDED" \in m.MSGTYPE
           rtr == "RTR" \in m.MSGTYPE
           b == Swapped(IdBytes(m.ID, eff))
<1>1. eff \in BOOLEAN /\ rtr \in BOOLEAN
  OBVIOUS
<1>2. IdBytes(m.ID, eff) \in Bytes
  BY <1>1, IdBytesType
<1>3. b \in Bytes
  BY <1>2, SwappedType
<1>4. pcan_hw_EncodeMessage(m) = [eff |-> eff, rtr |-> rtr, bytes |-> b, data |-> m.DATA]
  BY DEF pcan_hw_EncodeMessage
<1> HIDE DEF eff, rtr, b
<1> QED BY <1>1, <1>3, <1>4 DEF Regs

LEMMA WriteFrameType ==
  ASSUME NEW cf, cf.id \in Nat, cf.data \in Nat
  PROVE  sja1000_write_frame(cf) \in Regs
<1> DEFINE eff == "EFF" \in cf.flags
           rtr == "RTR" \in cf.flags
           b == IdBytes(cf.id, eff)
<1>1. eff \in BOOLEAN /\ rtr \in BOOLEAN
  OBVIOUS
<1>2. b \in Bytes
  BY <1>1, IdBytesType
<1>3. sja1000_write_frame(cf) = [eff |-> eff, rtr |-> rtr, bytes |-> b, data |-> cf.data]
  BY DEF sja1000_write_frame
<1> HIDE DEF eff, rtr, b
<1> QED BY <1>1, <1>2, <1>3 DEF Regs

Sendings == [regs : Regs, pos : Nat]

LEMMA SjaWriteType ==
  ASSUME TypeInv, sja1000_write
  PROVE  /\ wf' \in Ring(WCount, Msgs) /\ tx' \in Seq(Sendings)
         /\ wf.nStored > 0 /\ wf'.nStored = wf.nStored - 1 /\ wf' = pcan_fifo_get(wf)
         /\ FirstOf(wf) \in Msgs /\ FirstOf(wf) = Contents(wf)[1]
<1>1. wf \in Ring(WCount, Msgs) /\ wf.nStored > 0 /\ wf' = pcan_fifo_get(wf)
  BY DEF TypeInv, RingTypes, sja1000_write, pcan_fifo_empty
<1>2. /\ pcan_fifo_get(wf) \in Ring(WCount, Msgs) /\ pcan_fifo_get(wf).nStored = wf.nStored - 1
      /\ FirstOf(wf) = Contents(wf)[1]
  BY <1>1, Sizes, RingGet
<1>3. FirstOf(wf) \in Msgs
  BY <1>1 DEF Ring, FirstOf
<1>4. /\ msg2frame(FirstOf(wf)).id \in Nat /\ msg2frame(FirstOf(wf)).data \in Nat
      /\ FirstOf(wf).pos \in Nat
  BY <1>3 DEF msg2frame, Msgs
<1> DEFINE t == [regs |-> sja1000_write_frame(msg2frame(FirstOf(wf))), pos |-> FirstOf(wf).pos]
<1>5. t \in Sendings
  BY <1>4, WriteFrameType DEF Sendings
<1>6. tx' = <<t>> \/ tx' = tx
  BY DEF sja1000_write
<1>7. tx \in Seq(Sendings)
  BY DEF TypeInv, ChipTypes, Sendings
<1> HIDE DEF t
<1>8. tx' \in Seq(Sendings)
  <2>1. <<t>> \in Seq(Sendings)
    BY <1>5
  <2> QED BY <2>1, <1>6, <1>7
<1> QED BY <1>1, <1>2, <1>3, <1>8

LEMMA EncodedType ==
  ASSUME TypeInv
  PROVE  Encoded \in 0 .. wf.nStored
<1>1. wf.nStored \in Nat
  BY Sizes DEF TypeInv, RingTypes, Ring
<1>2. Block \in Nat
  BY Sizes
<1> QED BY <1>1, <1>2 DEF Encoded

LEMMA UsbEncodeType ==
  ASSUME TypeInv, pcan_usb_encode
  PROVE  /\ wf' \in Ring(WCount, Msgs) /\ Encoded \in 1 .. wf.nStored
         /\ wf'.nStored = wf.nStored - Encoded /\ wf.nStored \in Nat
         /\ \A i \in 1 .. wf.nStored - Encoded : Contents(wf')[i] = Contents(wf)[i + Encoded]
         /\ Contents(wf) \in Seq(Msgs) /\ Len(Contents(wf)) = wf.nStored
<1>1. wf \in Ring(WCount, Msgs) /\ Encoded > 0 /\ wf' = GetMany(wf, Encoded)
  BY DEF TypeInv, RingTypes, pcan_usb_encode
<1>2. wf.nStored \in Nat
  BY <1>1, Sizes DEF Ring
<1>3. Encoded \in 0 .. wf.nStored
  BY EncodedType
<1>4. /\ GetMany(wf, Encoded) \in Ring(WCount, Msgs)
      /\ GetMany(wf, Encoded).nStored = wf.nStored - Encoded
      /\ \A i \in 1 .. wf.nStored - Encoded :
           Contents(GetMany(wf, Encoded))[i] = Contents(wf)[i + Encoded]
  BY <1>1, <1>3, Sizes, RingGets
<1>5. Contents(wf) \in Seq(Msgs) /\ Len(Contents(wf)) = wf.nStored
  BY <1>1, Sizes, ContentsAre
<1> QED BY <1>1, <1>2, <1>3, <1>4, <1>5

LEMMA SubmittedType ==
  ASSUME TypeInv, pcan_usb_submitted
  PROVE  /\ tx' \in Seq(Sendings) /\ Len(tx') = Encoded
         /\ \A i \in 1 .. Encoded : tx'[i] = [regs |-> pcan_hw_EncodeMessage(W[i]), pos |-> W[i].pos]
<1>1. /\ Encoded \in 1 .. wf.nStored /\ wf.nStored \in Nat
      /\ Contents(wf) \in Seq(Msgs) /\ Len(Contents(wf)) = wf.nStored
  BY UsbEncodeType DEF pcan_usb_submitted
<1> DEFINE t(i) == [regs |-> pcan_hw_EncodeMessage(Contents(wf)[i]), pos |-> Contents(wf)[i].pos]
<1>2. tx' = [i \in 1 .. Encoded |-> t(i)]
  BY DEF pcan_usb_submitted
<1>3. ASSUME NEW i \in 1 .. Encoded PROVE t(i) \in Sendings
  <2>1. i \in 1 .. Len(Contents(wf))
    BY <1>1
  <2>2. Contents(wf)[i] \in Msgs
    BY <1>1, <2>1, Elements
  <2>3. Contents(wf)[i].ID \in Nat /\ Contents(wf)[i].DATA \in Nat /\ Contents(wf)[i].pos \in Nat
    BY <2>2 DEF Msgs
  <2> QED BY <2>3, EncodeType DEF Sendings
<1>4. \A i \in 1 .. Encoded : tx'[i] = t(i)
  BY <1>2
<1>5. \A i \in 1 .. Encoded : tx'[i] = [regs |-> pcan_hw_EncodeMessage(W[i]), pos |-> W[i].pos]
  BY <1>4 DEF W
<1> HIDE DEF t
<1>6. tx' \in [1 .. Encoded -> Sendings] /\ Encoded \in Nat
  BY <1>1, <1>2, <1>3
<1>7. tx' \in Seq(Sendings) /\ Len(tx') = Encoded
  BY <1>6
<1> QED BY <1>5, <1>7

LEMMA TypeStartWrite ==
  ASSUME TypeInv, NEW p \in Procs, StartWrite(p)
  PROVE  TypeInv'
<1>1. ProcTypes'
  <2>1. Active(p)
    BY DEF StartWrite, May, Active
  <2>2. Finish(p, TRUE) \/ Finish(p, FALSE)
    BY DEF StartWrite
  <2> QED BY <2>1, <2>2, FinishType
<1>2. tx \in Seq(Sendings) /\ wf \in Ring(WCount, Msgs)
  BY DEF TypeInv, RingTypes, ChipTypes, Sendings
<1>3. wf' \in Ring(WCount, Msgs) /\ tx' \in Seq(Sendings)
  <2>1. CASE sja1000_write
    BY <2>1, SjaWriteType
  <2>2. CASE pcan_usb_submitted
    BY <2>2, UsbEncodeType, SubmittedType DEF pcan_usb_submitted
  <2>3. CASE pcan_usb_refused
    <3>1. tx' = tx /\ pcan_usb_encode
      BY <2>3 DEF pcan_usb_refused
    <3> QED BY <1>2, <3>1, UsbEncodeType
  <2>4. CASE UNCHANGED <<wf, tx>>
    BY <1>2, <2>4
  <2>5. sja1000_write \/ pcan_usb_submitted \/ pcan_usb_refused \/ UNCHANGED <<wf, tx>>
    BY DEF StartWrite
  <2> QED BY <2>1, <2>2, <2>3, <2>4, <2>5
<1>4. DataSendReady' \in BOOLEAN
  <2>1. DataSendReady' = TRUE \/ DataSendReady' = DataSendReady
    BY DEF StartWrite
  <2> QED BY <2>1 DEF TypeInv, DevTypes
<1>5. /\ UNCHANGED <<hw, bExtended, ucPhysicallyInstalled, rf, rx, ints>>
      /\ UNCHANGED <<accepted, bus, got, read, count>>
  BY DEF StartWrite, device
<1>6. DevTypes' /\ RingTypes' /\ ChipTypes'
  BY <1>3, <1>4, <1>5 DEF TypeInv, DevTypes, RingTypes, ChipTypes, Sendings
<1> QED BY <1>1, <1>5, <1>6, Kept DEF TypeInv

OnBusTypes == [id : Nat, eff : BOOLEAN, rtr : BOOLEAN, data : Nat, pos : Nat]

LEMMA OnBusType ==
  ASSUME NEW t \in Sendings
  PROVE  OnBus(t) \in OnBusTypes
<1>1. t.regs \in Regs /\ t.pos \in Nat
  BY DEF Sendings
<1>2. /\ t.regs.eff \in BOOLEAN /\ t.regs.rtr \in BOOLEAN /\ t.regs.bytes \in Bytes
      /\ t.regs.data \in Nat
  BY <1>1 DEF Regs
<1>3. BytesId(t.regs.bytes) \in Nat /\ BytesId(Swapped(t.regs.bytes)) \in Nat
  BY <1>2, BytesIdType, SwappedType
<1> DEFINE k == BytesId(IF Usb THEN Swapped(t.regs.bytes) ELSE t.regs.bytes)
<1>4. k \in Nat
  BY <1>3
<1>5. OnBus(t) = [id |-> k, eff |-> t.regs.eff, rtr |-> t.regs.rtr, data |-> t.regs.data,
                  pos |-> t.pos]
  BY DEF OnBus
<1> HIDE DEF k
<1> QED BY <1>1, <1>2, <1>4, <1>5 DEF OnBusTypes

LEMMA TransmittedBus ==
  ASSUME TypeInv, Transmitted
  PROVE  /\ bus' \in Seq(OnBusTypes) /\ Len(bus') = Len(bus) + Len(tx)
         /\ \A i \in 1 .. Len(bus) : bus'[i] = bus[i]
         /\ \A i \in 1 .. Len(tx) : bus'[Len(bus) + i] = OnBus(tx[i])
         /\ bus \in Seq(OnBusTypes) /\ tx \in Seq(Sendings)
<1>1. bus \in Seq(OnBusTypes) /\ tx \in Seq(Sendings)
  BY DEF TypeInv, ChipTypes, HistTypes, Sendings, OnBusTypes
<1> DEFINE s == [i \in 1 .. Len(tx) |-> OnBus(tx[i])]
<1>2. s \in Seq(OnBusTypes) /\ Len(s) = Len(tx)
  <2>1. \A i \in 1 .. Len(tx) : OnBus(tx[i]) \in OnBusTypes
    BY <1>1, Elements, OnBusType
  <2>2. Len(tx) \in Nat
    BY <1>1, Elements
  <2>3. s \in [1 .. Len(tx) -> OnBusTypes]
    BY <2>1
  <2> HIDE DEF s
  <2> QED BY <2>2, <2>3
<1>3. \A i \in 1 .. Len(tx) : s[i] = OnBus(tx[i])
  OBVIOUS
<1>4. bus' = bus \o s
  BY DEF Transmitted
<1> HIDE DEF s
<1>5. bus \o s \in Seq(OnBusTypes) /\ Len(bus \o s) = Len(bus) + Len(s)
  BY <1>1, <1>2
<1>6. \A i \in 1 .. Len(bus) : (bus \o s)[i] = bus[i]
  BY <1>1, <1>2
<1>7. \A i \in 1 .. Len(s) : (bus \o s)[Len(bus) + i] = s[i]
  BY <1>1, <1>2
<1> QED BY <1>1, <1>2, <1>3, <1>4, <1>5, <1>6, <1>7

LEMMA TypeTransmitted ==
  ASSUME TypeInv, Transmitted
  PROVE  TypeInv'
<1>1. bus' \in Seq(OnBusTypes)
  BY TransmittedBus
<1>2. HistTypes'
  BY <1>1 DEF TypeInv, HistTypes, Transmitted, OnBusTypes
<1>3. ChipTypes'
  BY DEF TypeInv, ChipTypes, Transmitted
<1> QED BY <1>2, <1>3, Kept DEF TypeInv, Transmitted, queues, device, procs

\* Sleepers are woken, nothing else happens to the processes.
Awakes ==
  \A q \in Procs : \/ pc'[q] = pc[q]
                   \/ pc[q] = "asleep_read" /\ pc'[q] = "read"
                   \/ pc[q] = "asleep_write" /\ pc'[q] = "write"

LEMMA WokenIs ==
  ASSUME NEW f, NEW from, NEW to
  PROVE  /\ Woken(f, from, to) = [q \in Procs |-> Woken(f, from, to)[q]]
         /\ \A q \in Procs : Woken(f, from, to)[q] = IF f[q] = from THEN to ELSE f[q]
BY DEF Woken

LEMMA AwakesTypes ==
  ASSUME TypeInv, Awakes, pc' = [q \in Procs |-> pc'[q]], UNCHANGED <<call, text, running>>
  PROVE  ProcTypes' /\ \A q \in Procs : Active(q)' <=> Active(q)
<1>1. \A q \in Procs : Active(q)' <=> Active(q)
  BY DEF Awakes, Active
<1>2. \A q \in Procs : pc'[q] \in Places
  BY ProcFacts DEF Awakes, Places
<1>3. pc' \in [Procs -> Places]
  BY <1>2
<1> QED BY <1>1, <1>3, ProcFacts DEF ProcTypes

LEMMA HandlerWakes ==
  ASSUME TypeInv, SjaIrq \/ UsbWriteNotify \/ (\E n, k \in 0 .. Block, r \in BOOLEAN : UsbReadNotify(n, k, r))
  PROVE  Awakes /\ pc' = [q \in Procs |-> pc'[q]] /\ UNCHANGED <<call, text, running>>
<1>1. pc = [q \in Procs |-> pc[q]]
  BY ProcFacts
<1> DEFINE w == Woken(pc, "asleep_write", "write")
<1>2. /\ w = [q \in Procs |-> w[q]]
      /\ \A q \in Procs : w[q] = IF pc[q] = "asleep_write" THEN "write" ELSE pc[q]
  BY WokenIs
<1>3. /\ Woken(w, "asleep_read", "read") = [q \in Procs |-> Woken(w, "asleep_read", "read")[q]]
      /\ \A q \in Procs : Woken(w, "asleep_read", "read")[q]
                            = IF w[q] = "asleep_read" THEN "read" ELSE w[q]
  BY WokenIs
<1>4. /\ Woken(pc, "asleep_read", "read") = [q \in Procs |-> Woken(pc, "asleep_read", "read")[q]]
      /\ \A q \in Procs : Woken(pc, "asleep_read", "read")[q]
                            = IF pc[q] = "asleep_read" THEN "read" ELSE pc[q]
  BY WokenIs
<1>5. \/ pc' = pc \/ pc' = w \/ pc' = Woken(pc, "asleep_read", "read")
      \/ pc' = Woken(w, "asleep_read", "read")
  BY DEF SjaIrq, UsbWriteNotify, UsbReadNotify
<1>6. UNCHANGED <<call, text, running>>
  BY DEF SjaIrq, UsbWriteNotify, UsbReadNotify
<1> HIDE DEF w
<1>7. pc' = [q \in Procs |-> pc'[q]]
  BY <1>1, <1>2, <1>3, <1>4, <1>5
<1>8. Awakes
  BY <1>2, <1>3, <1>4, <1>5 DEF Awakes
<1> QED BY <1>6, <1>7, <1>8

LEMMA TypeReceived ==
  ASSUME TypeInv, NEW f \in Frames, Received(f)
  PROVE  TypeInv'
<1> DEFINE frame == [id |-> f.id, flags |-> f.flags, data |-> count.rx + 1]
           regs == IF Usb THEN pcan_hw_EncodeMessage(frame2msg(frame))
                   ELSE sja1000_write_frame(frame)
<1>1. f.id \in Nat /\ f.flags \in SUBSET {"EFF", "RTR"}
  BY PcanAssumption
<1>2. count.rx + 1 \in Nat
  BY DEF TypeInv, HistTypes
<1>3. frame \in Heard
  BY <1>1, <1>2 DEF Heard
<1>4. /\ got' = Append(got, frame)
      /\ \/ rx' = Append(rx, regs) /\ ints' = ints
         \/ rx' = rx /\ ints' = ints \cup {"DOI"}
  BY DEF Received
<1> HIDE DEF frame
<1>5. frame2msg(frame).ID \in Nat /\ frame2msg(frame).DATA \in Nat
  <2>1. frame.id \in Nat /\ frame.data \in Nat /\ "ERR" \notin frame.flags
    BY <1>3 DEF Heard
  <2>2. frame.id % EXT_IDS \in Nat
    BY <2>1, Numerals, ModType
  <2> QED BY <2>1, <2>2 DEF frame2msg
<1>6. frame.id \in Nat /\ frame.data \in Nat
  BY <1>3 DEF Heard
<1>7. regs \in Regs
  BY <1>5, <1>6, EncodeType, WriteFrameType
<1> HIDE DEF regs
<1>8. ChipTypes'
  <2>1. rx \in Seq(Regs) /\ tx' = tx /\ tx \in Seq([regs : Regs, pos : Nat])
        /\ ints \subseteq {"TI", "DOI", "BEI", "EPI"}
    BY DEF TypeInv, ChipTypes, Received
  <2>2. Append(rx, regs) \in Seq(Regs)
    BY <1>7, <2>1
  <2>3. rx' \in Seq(Regs) /\ ints' \subseteq {"TI", "DOI", "BEI", "EPI"}
    BY <1>4, <2>1, <2>2
  <2> QED BY <2>1, <2>3 DEF ChipTypes
<1>9. HistTypes'
  <2>1. got' \in Seq(Heard)
    BY <1>3, <1>4 DEF TypeInv, HistTypes
  <2> QED BY <2>1, CountedType DEF TypeInv, HistTypes, Received
<1> QED BY <1>8, <1>9, Kept DEF TypeInv, Received, queues, device, procs

LEMMA TypeBusTrouble ==
  ASSUME TypeInv, BusTrouble
  PROVE  TypeInv'
<1>1. ChipTypes'
  BY DEF TypeInv, ChipTypes, BusTrouble
<1> QED BY <1>1, Kept DEF TypeInv, BusTrouble, queues, device, procs

\* What the interrupt handler reads from the controller.
Read(k) == [i \in 1 .. k |-> sja1000_read_frame(rx[i])]

LEMMA FilledFacts ==
  ASSUME TypeInv
  PROVE  /\ Taken \in 0 .. Len(rx) /\ Len(rx) \in Nat /\ (rx # <<>> => Taken > 0)
         /\ Filled = After(rf, Read(Taken)) /\ Len(Read(Taken)) = Taken
         /\ \A i \in 1 .. Taken : Read(Taken)[i] = sja1000_read_frame(rx[i]) /\ rx[i] \in Regs
                                  /\ Read(Taken)[i] \in Heard
<1>1. rx \in Seq(Regs)
  BY DEF TypeInv, ChipTypes
<1>2. Len(rx) \in Nat /\ MaxPerIrq \in Nat
  BY <1>1, Sizes
<1>3. Taken \in 0 .. Len(rx) /\ (rx # <<>> => Taken > 0)
  <2>1. rx # <<>> => Len(rx) > 0
    BY <1>1
  <2> QED BY <1>2, <2>1 DEF Taken
<1>4. Filled = After(rf, Read(Taken))
  BY DEF Filled, Read
<1>5. \A i \in 1 .. Taken : Read(Taken)[i] = sja1000_read_frame(rx[i])
  BY DEF Read
<1>6. \A i \in 1 .. Taken : rx[i] \in Regs
  BY <1>1, <1>2, <1>3
<1>7. \A i \in 1 .. Taken : Read(Taken)[i] \in Heard
  BY <1>5, <1>6, ReadFrameType
<1>8. Len(Read(Taken)) = Taken
  BY <1>2, <1>3 DEF Read
<1> QED BY <1>2, <1>3, <1>4, <1>5, <1>6, <1>7, <1>8

LEMMA ErrorsType ==
  ASSUME NEW signs
  PROVE  /\ ErrorsOf(signs) \in SUBSET Errors
         /\ \A e \in SUBSET Errors : ErrorFrame(e) \in ErrorFrames
<1>1. ErrorsOf(signs) \in SUBSET Errors
  BY DEF ErrorsOf, When, Errors
<1>2. \A e \in SUBSET Errors : ErrorFrame(e) \in ErrorFrames
  BY DEF ErrorFrame, ErrorFrames
<1> QED BY <1>1, <1>2

\* readFifo after a pass of the interrupt handler.
LEMMA SjaFilled ==
  ASSUME TypeInv, SjaIrq
  PROVE  /\ rf' \in Ring(RCount, Told) /\ rf'.nStored \in rf.nStored .. RCount
         /\ \A j \in 1 .. rf.nStored : Contents(rf')[j] = Contents(rf)[j]
         /\ rf \in Ring(RCount, Told) /\ rf.nStored \in 0 .. RCount
<1> DEFINE g == IF rx # <<>> THEN Filled[Taken] ELSE rf
<1>1. rf \in Ring(RCount, Told) /\ rf.nStored \in 0 .. RCount
  BY DEF TypeInv, RingTypes, Ring
<1>2. /\ Taken \in 0 .. Len(rx) /\ Len(rx) \in Nat
      /\ Filled = After(rf, Read(Taken)) /\ Len(Read(Taken)) = Taken
      /\ \A i \in 1 .. Taken : Read(Taken)[i] \in Heard
  BY FilledFacts
<1>3. \A i \in 0 .. Taken :
        /\ Filled[i] \in Ring(RCount, Told) /\ Filled[i].nStored \in rf.nStored .. RCount
        /\ \A j \in 1 .. rf.nStored : Contents(Filled[i])[j] = Contents(rf)[j]
  <2> DEFINE s == Read(Taken)
  <2>1. Len(s) \in Nat /\ \A i \in 1 .. Len(s) : s[i] \in Heard \cup ErrorFrames
    BY <1>2
  <2>2. Len(s) = Taken /\ Filled = After(rf, s)
    BY <1>2
  <2> HIDE DEF s
  <2>3. \A i \in 0 .. Len(s) :
           /\ After(rf, s)[i] \in Ring(RCount, Told)
           /\ After(rf, s)[i].nStored \in rf.nStored .. RCount
           /\ \A j \in 1 .. rf.nStored : Contents(After(rf, s)[i])[j] = Contents(rf)[j]
    BY <1>1, <2>1, RxMany
  <2> QED BY <2>2, <2>3
<1>4. /\ g \in Ring(RCount, Told) /\ g.nStored \in rf.nStored .. RCount
      /\ \A j \in 1 .. rf.nStored : Contents(g)[j] = Contents(rf)[j]
  <2>1. Taken \in 0 .. Taken
    BY <1>2
  <2>2. RCount \in Nat
    BY Sizes
  <2> QED BY <1>1, <1>3, <2>1, <2>2
<1>5. rf' = g \/ \E e \in SUBSET Errors : rf' = pcan_chardev_rx(g, ErrorFrame(e))
  BY ErrorsType DEF SjaIrq
<1> HIDE DEF g
<1>6. CASE rf' = g
  BY <1>1, <1>4, <1>6
<1>7. ASSUME NEW e \in SUBSET Errors, rf' = pcan_chardev_rx(g, ErrorFrame(e))
      PROVE  /\ rf' \in Ring(RCount, Told) /\ rf'.nStored \in rf.nStored .. RCount
             /\ \A j \in 1 .. rf.nStored : Contents(rf')[j] = Contents(rf)[j]
  <2> DEFINE cf == ErrorFrame(e)
  <2>1. cf \in Heard \cup ErrorFrames
    BY ErrorsType
  <2>2. rf' = pcan_chardev_rx(g, cf)
    BY <1>7
  <2> HIDE DEF cf
  <2>3. /\ pcan_chardev_rx(g, cf) \in Ring(RCount, Told)
        /\ ~Takes(g, cf) => pcan_chardev_rx(g, cf) = g
        /\ Takes(g, cf) => /\ pcan_chardev_rx(g, cf).nStored = g.nStored + 1
                           /\ Contents(pcan_chardev_rx(g, cf)) = Append(Contents(g), frame2msg(cf))
    BY <1>4, <2>1, RxOne
  <2>4. Contents(g) \in Seq(Told) /\ Len(Contents(g)) = g.nStored
    BY <1>4, Sizes, ContentsAre
  <2>5. rf'.nStored \in 0 .. RCount
    BY <2>2, <2>3 DEF Ring
  <2>6. CASE ~Takes(g, cf)
    BY <1>4, <2>2, <2>3, <2>6
  <2>7. CASE Takes(g, cf)
    <3>1. \A j \in 1 .. rf.nStored : Append(Contents(g), frame2msg(cf))[j] = Contents(g)[j]
      <4>1. \A j \in 1 .. rf.nStored : j \in 1 .. Len(Contents(g))
        BY <1>1, <1>4, <2>4
      <4> QED BY <2>4, <4>1
    <3>2. rf'.nStored \in rf.nStored .. RCount
      BY <1>1, <1>4, <2>2, <2>3, <2>5, <2>7
    <3> QED BY <1>4, <2>2, <2>3, <2>7, <3>1, <3>2
  <2> QED BY <2>6, <2>7
<1> QED BY <1>1, <1>5, <1>6, <1>7

LEMMA SubSeqType ==
  ASSUME NEW S, NEW s \in Seq(S), NEW a \in Nat \ {0}
  PROVE  /\ SubSeq(s, a, Len(s)) \in Seq(S) /\ Len(s) \in Nat
         /\ Len(SubSeq(s, a, Len(s))) = IF a <= Len(s) THEN Len(s) - a + 1 ELSE 0
         /\ \A i \in 1 .. Len(SubSeq(s, a, Len(s))) : SubSeq(s, a, Len(s))[i] = s[a + i - 1]
<1>1. Len(s) \in Nat
  OBVIOUS
<1>2. CASE a <= Len(s)
  BY <1>1, <1>2
<1>3. CASE ~(a <= Len(s))
  <2>1. SubSeq(s, a, Len(s)) = <<>>
    BY <1>1, <1>3
  <2> QED BY <1>1, <1>3, <2>1
<1> QED BY <1>2, <1>3

LEMMA TypeSjaIrq ==
  ASSUME TypeInv, SjaIrq
  PROVE  TypeInv'
<1>1. ProcTypes'
  BY HandlerWakes, AwakesTypes
<1>2. rf' \in Ring(RCount, Told)
  BY SjaFilled
<1>3. /\ wf \in Ring(WCount, Msgs) /\ tx \in Seq(Sendings) /\ rx \in Seq(Regs)
      /\ DataSendReady \in BOOLEAN
  BY DEF TypeInv, RingTypes, ChipTypes, DevTypes, Sendings
<1>4. wf' \in Ring(WCount, Msgs) /\ tx' \in Seq(Sendings)
  <2>1. sja1000_write \/ UNCHANGED <<wf, tx>>
    BY DEF SjaIrq
  <2> QED BY <1>3, <2>1, SjaWriteType
<1>5. rx' \in Seq(Regs)
  <2>1. Taken + (IF AnyRefused THEN 2 ELSE 1) \in Nat \ {0}
    <3>1. Taken \in Nat
      BY FilledFacts
    <3> QED BY <3>1
  <2>2. Left \in Seq(Regs)
    BY <1>3, <2>1, SubSeqType DEF Left
  <2>3. rx' = Left \/ rx' = rx
    BY DEF SjaIrq
  <2> QED BY <1>3, <2>2, <2>3
<1>6. ints' = {}
  BY DEF SjaIrq
<1>7. DataSendReady' \in BOOLEAN
  <2>1. DataSendReady' = (DataSendReady \/ Drained \/ ints \cap {"BEI", "EPI"} # {})
    BY DEF SjaIrq
  <2> QED BY <2>1, Zenon
<1>8. UNCHANGED <<hw, bExtended, ucPhysicallyInstalled, accepted, bus, got, read, count>>
  BY DEF SjaIrq
<1>9. DevTypes' /\ RingTypes' /\ ChipTypes'
  BY <1>2, <1>4, <1>5, <1>6, <1>7, <1>8
  DEF TypeInv, DevTypes, RingTypes, ChipTypes, Sendings
<1> QED BY <1>1, <1>8, <1>9, Kept DEF TypeInv

LEMMA TypeUsbWriteNotify ==
  ASSUME TypeInv, UsbWriteNotify
  PROVE  TypeInv'
<1>1. ProcTypes'
  BY HandlerWakes, AwakesTypes
<1>2. /\ wf \in Ring(WCount, Msgs) /\ tx \in Seq(Sendings) /\ DataSendReady \in BOOLEAN
      /\ rf \in Ring(RCount, Told) /\ rx \in Seq(Regs) /\ ints \subseteq {"TI", "DOI", "BEI", "EPI"}
  BY DEF TypeInv, RingTypes, ChipTypes, DevTypes, Sendings
<1>3. wf' \in Ring(WCount, Msgs) /\ tx' \in Seq(Sendings)
  <2>1. CASE pcan_usb_submitted
    BY <2>1, UsbEncodeType, SubmittedType DEF pcan_usb_submitted
  <2>2. CASE pcan_usb_refused
    <3>1. tx' = tx /\ pcan_usb_encode
      BY <2>2 DEF pcan_usb_refused
    <3> QED BY <1>2, <3>1, UsbEncodeType
  <2>3. CASE UNCHANGED <<wf, tx>>
    BY <1>2, <2>3
  <2>4. pcan_usb_submitted \/ pcan_usb_refused \/ UNCHANGED <<wf, tx>>
    BY DEF UsbWriteNotify
  <2> QED BY <2>1, <2>2, <2>3, <2>4
<1>4. DataSendReady' \in BOOLEAN
  BY <1>2 DEF UsbWriteNotify
<1>5. /\ UNCHANGED <<hw, bExtended, ucPhysicallyInstalled, accepted, bus, got, read, count>>
      /\ UNCHANGED <<rf, rx>> /\ ints' \subseteq ints
  BY DEF UsbWriteNotify
<1>6. DevTypes' /\ RingTypes' /\ ChipTypes'
  BY <1>2, <1>3, <1>4, <1>5 DEF TypeInv, DevTypes, RingTypes, ChipTypes, Sendings
<1> QED BY <1>1, <1>5, <1>6, Kept DEF TypeInv

LEMMA TypeUsbWriteFailed ==
  ASSUME TypeInv, UsbWriteFailed
  PROVE  TypeInv'
<1>1. ChipTypes'
  BY DEF TypeInv, ChipTypes, UsbWriteFailed
<1> QED BY <1>1, Kept DEF TypeInv, UsbWriteFailed, queues, device, procs

\* The frames that a block holds.
Decoded(recs, errs) ==
  [i \in 1 .. Len(recs) |-> pcan_hw_DecodeMessage(recs[i])]
    \o (IF errs = {} THEN <<>> ELSE <<ErrorFrame(errs)>>)

LEMMA DecodedIs ==
  ASSUME NEW recs \in Seq(Regs), NEW errs \in SUBSET Errors
  PROVE  /\ Len(recs) \in Nat
         /\ Len(Decoded(recs, errs)) = Len(recs) + (IF errs = {} THEN 0 ELSE 1)
         /\ \A i \in 1 .. Len(recs) : /\ Decoded(recs, errs)[i] = pcan_hw_DecodeMessage(recs[i])
                                      /\ recs[i] \in Regs /\ Decoded(recs, errs)[i] \in Heard
         /\ errs # {} => Decoded(recs, errs)[Len(recs) + 1] = ErrorFrame(errs)
         /\ \A i \in 1 .. Len(Decoded(recs, errs)) :
              /\ Decoded(recs, errs)[i] \in Heard \cup ErrorFrames
              /\ "EFF" \notin Decoded(recs, errs)[i].flags
<1> DEFINE a == [i \in 1 .. Len(recs) |-> pcan_hw_DecodeMessage(recs[i])]
           b == IF errs = {} THEN <<>> ELSE <<ErrorFrame(errs)>>
           S == Heard \cup ErrorFrames
<1>1. Len(recs) \in Nat /\ \A i \in 1 .. Len(recs) : recs[i] \in Regs
  OBVIOUS
<1>2. \A i \in 1 .. Len(recs) : /\ pcan_hw_DecodeMessage(recs[i]) \in Heard
                                /\ "EFF" \notin pcan_hw_DecodeMessage(recs[i]).flags
  BY <1>1, ReadFrameType
<1>3. a \in Seq(S) /\ Len(a) = Len(recs) /\ \A i \in 1 .. Len(recs) : a[i] = pcan_hw_DecodeMessage(recs[i])
  <2>1. a \in [1 .. Len(recs) -> S]
    BY <1>2
  <2>2. \A i \in 1 .. Len(recs) : a[i] = pcan_hw_DecodeMessage(recs[i])
    OBVIOUS
  <2> HIDE DEF a, S
  <2> QED BY <1>1, <2>1, <2>2
<1>4. ErrorFrame(errs) \in ErrorFrames /\ "EFF" \notin ErrorFrame(errs).flags
  BY ErrorsType DEF ErrorFrame
<1>5. b \in Seq(S) /\ Len(b) = (IF errs = {} THEN 0 ELSE 1) /\ (errs # {} => b[1] = ErrorFrame(errs))
  <2> DEFINE e == ErrorFrame(errs)
  <2>1. e \in S
    BY <1>4
  <2> HIDE DEF e, S
  <2>2. <<>> \in Seq(S) /\ Len(<<>>) = 0 /\ <<e>> \in Seq(S) /\ Len(<<e>>) = 1 /\ <<e>>[1] = e
    BY <2>1
  <2>3. b = IF errs = {} THEN <<>> ELSE <<e>>
    BY DEF e
  <2> HIDE DEF b
  <2> QED BY <2>2, <2>3 DEF e
<1>6. Decoded(recs, errs) = a \o b
  BY DEF Decoded
<1> HIDE DEF a, b, S
<1>7. Len(a \o b) = Len(recs) + (IF errs = {} THEN 0 ELSE 1)
  <2>1. Len(a \o b) = Len(a) + Len(b)
    <3>1. a \in Seq(S) /\ b \in Seq(S)
      BY <1>3, <1>5
    <3> QED BY <3>1
  <2> QED BY <1>3, <1>5, <2>1
<1>8. \A i \in 1 .. Len(recs) : (a \o b)[i] = a[i]
  BY <1>1, <1>3, <1>5
<1>9. errs # {} => (a \o b)[Len(recs) + 1] = ErrorFrame(errs)
  BY <1>1, <1>3, <1>5
<1>10. \A i \in 1 .. Len(a \o b) : i \in 1 .. Len(recs) \/ (errs # {} /\ i = Len(recs) + 1)
  BY <1>1, <1>7
<1>11. \A i \in 1 .. Len(a \o b) : (a \o b)[i] \in Heard \cup ErrorFrames /\ "EFF" \notin (a \o b)[i].flags
  BY <1>2, <1>3, <1>4, <1>8, <1>9, <1>10
<1> QED BY <1>1, <1>2, <1>3, <1>6, <1>7, <1>8, <1>9, <1>11

\* readFifo after a block; a block that begins with the FIFO empty wakes its readers.
LEMMA BlockFacts ==
  ASSUME NEW f \in Ring(RCount, Told), NEW recs \in Seq(Regs), NEW errs \in SUBSET Errors
  PROVE  /\ BlockOf(f, recs, errs).rf \in Ring(RCount, Told)
         /\ BlockOf(f, recs, errs).rf.nStored \in f.nStored .. RCount
         /\ f.nStored \in 0 .. RCount
         /\ \A j \in 1 .. f.nStored : Contents(BlockOf(f, recs, errs).rf)[j] = Contents(f)[j]
         /\ BlockOf(f, recs, errs).told \in SUBSET Errors
         /\ f.nStored = 0 /\ Len(recs) <= Block /\ (recs # <<>> \/ errs # {})
              => BlockOf(f, recs, errs).wakes
<1> DEFINE s == Decoded(recs, errs)
           at == After(f, s)
           failed == \E i \in 1 .. Len(s) : Refused(at[i - 1], s[i])
<1>1. /\ Len(s) \in Nat /\ Len(recs) \in Nat /\ \A i \in 1 .. Len(s) : s[i] \in Heard \cup ErrorFrames
      /\ Len(s) = Len(recs) + (IF errs = {} THEN 0 ELSE 1)
  BY DecodedIs
<1>2. /\ BlockOf(f, recs, errs).rf = at[Len(s)]
      /\ BlockOf(f, recs, errs).wakes = (s # <<>> /\ ~failed)
      /\ BlockOf(f, recs, errs).told \in {{}, errs}
  BY DEF BlockOf, Decoded
<1> HIDE DEF s, at
<1>3. \A i \in 0 .. Len(s) :
        /\ at[i] \in Ring(RCount, Told) /\ at[i].nStored \in f.nStored .. RCount
        /\ at[i].nStored <= f.nStored + i
        /\ \A j \in 1 .. f.nStored : Contents(at[i])[j] = Contents(f)[j]
  BY <1>1, RxMany DEF at
<1>4. Len(s) \in 0 .. Len(s) /\ f.nStored \in 0 .. RCount
  BY <1>1 DEF Ring
<1>5. ASSUME f.nStored = 0, Len(recs) <= Block, recs # <<>> \/ errs # {}
      PROVE  s # <<>> /\ ~failed
  <2>1. recs # <<>> => Len(recs) > 0
    OBVIOUS
  <2>2. Len(s) > 0 /\ Len(s) <= Block + 1
    BY <1>1, <1>5, <2>1, Sizes
  <2>3. ASSUME NEW i \in 1 .. Len(s) PROVE ~Refused(at[i - 1], s[i])
    <3>1. i - 1 \in 0 .. Len(s) /\ i - 1 < RCount /\ RCount \in Nat
      BY <1>1, <2>2, Sizes
    <3>2. at[i - 1] \in Ring(RCount, Told) /\ at[i - 1].nStored <= 0 + (i - 1)
      BY <1>3, <1>5, <3>1
    <3>3. at[i - 1].nCount = RCount /\ at[i - 1].nStored \in Nat
      BY <3>2, Sizes DEF Ring
    <3> QED BY <3>1, <3>2, <3>3 DEF Refused, Refuses
  <2>4. s # <<>>
    BY <2>2
  <2> QED BY <2>3, <2>4
<1> QED BY <1>2, <1>3, <1>4, <1>5

\* The two blocks of a telegram.
BlockOne(n, k) == BlockOf(rf, SubSeq(rx, 1, n), IF k = 0 THEN ErrorsOf(ints) ELSE {})
BlockTwo(n, k) ==
  BlockOf(BlockOne(n, k).rf, SubSeq(rx, n + 1, n + k), IF k = 0 THEN {} ELSE ErrorsOf(ints))

LEMMA PartType ==
  ASSUME NEW S, NEW s \in Seq(S), NEW n \in Nat, NEW k \in Nat, n + k <= Len(s)
  PROVE  /\ SubSeq(s, n + 1, n + k) \in Seq(S) /\ Len(SubSeq(s, n + 1, n + k)) = k
         /\ \A i \in 1 .. k : SubSeq(s, n + 1, n + k)[i] = s[n + i]
<1>1. Len(s) \in Nat
  OBVIOUS
<1>2. CASE k = 0
  BY <1>1, <1>2
<1>3. CASE k > 0
  <2>1. n + 1 \in 1 .. Len(s) /\ n + k \in 1 .. Len(s)
    BY <1>1, <1>3
  <2> QED BY <1>1, <1>3, <2>1
<1> QED BY <1>2, <1>3

LEMMA UsbRead ==
  ASSUME TypeInv, NEW n \in 0 .. Block, NEW k \in 0 .. Block, NEW r \in BOOLEAN,
         UsbReadNotify(n, k, r)
  PROVE  /\ rf' = BlockTwo(n, k).rf /\ rf' \in Ring(RCount, Told)
         /\ rf'.nStored \in rf.nStored .. RCount /\ rf.nStored \in 0 .. RCount
         /\ \A j \in 1 .. rf.nStored : Contents(rf')[j] = Contents(rf)[j]
         /\ n \in Nat /\ k \in Nat /\ Block \in Nat /\ Len(rx) \in Nat /\ n + k <= Len(rx)
         /\ SubSeq(rx, 1, n) \in Seq(Regs) /\ SubSeq(rx, n + 1, n + k) \in Seq(Regs)
         /\ Len(SubSeq(rx, 1, n)) = n /\ Len(SubSeq(rx, n + 1, n + k)) = k
         /\ rf.nStored = 0 => BlockOne(n, k).wakes
         /\ BlockOne(n, k).rf \in Ring(RCount, Told)
<1>1. rx \in Seq(Regs) /\ rf \in Ring(RCount, Told)
  BY DEF TypeInv, ChipTypes, RingTypes
<1>2. /\ n \in Nat /\ k \in Nat /\ Block \in Nat /\ n <= Block /\ Len(rx) \in Nat
      /\ n + k <= Len(rx) /\ (n > 0 \/ (k = 0 /\ ErrorsOf(ints) # {}))
  BY <1>1, Sizes DEF UsbReadNotify
<1>3. SubSeq(rx, 1, n) \in Seq(Regs) /\ Len(SubSeq(rx, 1, n)) = n
  <2>1. 0 \in Nat /\ 0 + n <= Len(rx)
    BY <1>2
  <2>2. SubSeq(rx, 0 + 1, 0 + n) \in Seq(Regs) /\ Len(SubSeq(rx, 0 + 1, 0 + n)) = n
    BY <1>1, <1>2, <2>1, PartType
  <2> QED BY <1>2, <2>2
<1>4. SubSeq(rx, n + 1, n + k) \in Seq(Regs) /\ Len(SubSeq(rx, n + 1, n + k)) = k
  BY <1>1, <1>2, PartType
<1> DEFINE a == SubSeq(rx, 1, n)
           b == SubSeq(rx, n + 1, n + k)
           d == IF k = 0 THEN ErrorsOf(ints) ELSE {}
           e == IF k = 0 THEN {} ELSE ErrorsOf(ints)
           f == BlockOne(n, k).rf
<1>5. d \in SUBSET Errors /\ e \in SUBSET Errors
  BY ErrorsType
<1>6. BlockOne(n, k) = BlockOf(rf, a, d) /\ BlockTwo(n, k) = BlockOf(f, b, e)
  BY DEF BlockOne, BlockTwo
<1>7. rf' = BlockTwo(n, k).rf
  BY DEF UsbReadNotify, BlockOne, BlockTwo
<1>8. n > 0 \/ d # {}
  BY <1>2
<1>9. a \in Seq(Regs) /\ Len(a) = n /\ b \in Seq(Regs) /\ Len(b) = k
  BY <1>3, <1>4
<1> HIDE DEF a, b, d, e, f
<1>10. /\ f \in Ring(RCount, Told) /\ f.nStored \in rf.nStored .. RCount /\ rf.nStored \in 0 .. RCount
       /\ \A j \in 1 .. rf.nStored : Contents(f)[j] = Contents(rf)[j]
       /\ rf.nStored = 0 /\ Len(a) <= Block /\ (a # <<>> \/ d # {}) => BlockOne(n, k).wakes
  <2>1. f = BlockOf(rf, a, d).rf
    BY <1>6 DEF f
  <2> QED BY <1>1, <1>5, <1>6, <1>9, <2>1, BlockFacts
<1>11. rf.nStored = 0 => BlockOne(n, k).wakes
  <2>1. n > 0 => a # <<>>
    BY <1>9
  <2> QED BY <1>2, <1>8, <1>9, <1>10, <2>1
<1>12. /\ rf' \in Ring(RCount, Told) /\ rf'.nStored \in f.nStored .. RCount
       /\ \A j \in 1 .. f.nStored : Contents(rf')[j] = Contents(f)[j]
  <2>1. rf' = BlockOf(f, b, e).rf
    BY <1>6, <1>7
  <2> QED BY <1>5, <1>9, <1>10, <2>1, BlockFacts
<1>13. rf'.nStored \in rf.nStored .. RCount
  BY <1>10, <1>12, Sizes
<1>14. \A j \in 1 .. rf.nStored : Contents(rf')[j] = Contents(rf)[j]
  <2>1. \A j \in 1 .. rf.nStored : j \in 1 .. f.nStored
    BY <1>10, Sizes
  <2> QED BY <1>10, <1>12, <2>1
<1> QED BY <1>2, <1>3, <1>4, <1>7, <1>10, <1>11, <1>12, <1>13, <1>14 DEF f

LEMMA TypeUsbReadNotify ==
  ASSUME TypeInv, NEW n \in 0 .. Block, NEW k \in 0 .. Block, NEW r \in BOOLEAN,
         UsbReadNotify(n, k, r)
  PROVE  TypeInv'
<1>1. ProcTypes'
  BY HandlerWakes, AwakesTypes
<1>2. /\ rf' \in Ring(RCount, Told) /\ n + k + 1 \in Nat \ {0}
  BY UsbRead
<1>3. rx' \in Seq(Regs)
  <2>1. rx \in Seq(Regs)
    BY DEF TypeInv, ChipTypes
  <2>2. rx' = SubSeq(rx, n + k + 1, Len(rx))
    BY DEF UsbReadNotify
  <2> QED BY <1>2, <2>1, <2>2, SubSeqType
<1>4. /\ UNCHANGED <<hw, DataSendReady, bExtended, ucPhysicallyInstalled, wf, tx>>
      /\ UNCHANGED <<accepted, bus, got, read, count>> /\ ints' \subseteq ints
  BY DEF UsbReadNotify
<1>5. DevTypes' /\ RingTypes' /\ ChipTypes'
  BY <1>2, <1>3, <1>4 DEF TypeInv, DevTypes, RingTypes, ChipTypes
<1> QED BY <1>1, <1>4, <1>5, Kept DEF TypeInv

LEMMA TypeCallInit ==
  ASSUME TypeInv, NEW p \in Procs, NEW e \in BOOLEAN, CallInit(p, e)
  PROVE  TypeInv'
<1> DEFINE c == [NoCall EXCEPT !.msg.MSGTYPE = When(e, "EXTENDED")]
<1>1. c \in [msg : Msgs, text : BOOLEAN]
  BY DEF NoCall, Empty, Msgs, Types, When
<1>2. call' = [call EXCEPT ![p] = c] /\ pc' = [pc EXCEPT ![p] = "wait_until_fifo_empty"]
      /\ UNCHANGED <<text, running>>
  BY DEF CallInit
<1> HIDE DEF c
<1>3. ProcTypes'
  <2>1. call' \in [Procs -> [msg : Msgs, text : BOOLEAN]] /\ pc' \in [Procs -> Places]
    BY <1>1, <1>2, ProcFacts DEF Places
  <2>2. ~Active(p)'
    BY <1>2, ProcFacts DEF Active
  <2> QED BY <1>2, <2>1, <2>2, ProcFacts, OwnTypes
<1>4. wf \in Ring(WCount, Msgs) /\ rf \in Ring(RCount, Told)
  BY DEF TypeInv, RingTypes
<1>5. RingTypes'
  BY <1>4, Sizes, RingReset DEF RingTypes, CallInit
<1> QED BY <1>3, <1>5, Kept DEF TypeInv, CallInit, device, chip, DevTypes

LEMMA TypeWaitOver ==
  ASSUME TypeInv, NEW p \in Procs, WaitOver(p)
  PROVE  TypeInv'
<1>1. ProcTypes'
  <2>1. pc' \in [Procs -> Places] /\ ~Active(p)' /\ \A q \in Procs : q # p => pc'[q] = pc[q]
    BY ProcFacts DEF WaitOver, Places, Active
  <2>2. UNCHANGED <<call, text>> /\ running' = NoProc
    BY DEF WaitOver
  <2> QED BY <2>1, <2>2, ProcFacts, OwnTypes
<1>2. DevTypes'
  BY DEF TypeInv, DevTypes, WaitOver, device
<1> QED BY <1>1, <1>2, Kept DEF TypeInv, WaitOver, chip

LEMMA TypeReopen ==
  ASSUME TypeInv, NEW p \in Procs, Reopen(p)
  PROVE  TypeInv'
<1>1. NoCall \in [msg : Msgs, text : BOOLEAN]
  BY DEF NoCall, Empty, Msgs, Types
<1>2. ProcTypes'
  <2>1. /\ pc' \in [Procs -> Places] /\ ~Active(p)' /\ \A q \in Procs : q # p => pc'[q] = pc[q]
    BY ProcFacts DEF Reopen, Places, Active
  <2>2. /\ call' \in [Procs -> [msg : Msgs, text : BOOLEAN]]
        /\ \A q \in Procs : q # p => call'[q] = call[q]
    BY <1>1, ProcFacts DEF Reopen
  <2>3. UNCHANGED text /\ running' = NoProc
    BY DEF Reopen
  <2> QED BY <2>1, <2>2, <2>3, ProcFacts, OwnTypes
<1>3. ChipTypes'
  BY DEF ChipTypes, Reopen, ChipReset
<1>4. DevTypes'
  <2>1. NewMode(p) \in BOOLEAN
    BY DEF NewMode
  <2>2. bExtended' = NewMode(p) \/ bExtended' \in {bExtended, NewMode(p)}
    BY DEF Reopen, DeviceOpened
  <2>3. UNCHANGED <<hw, ucPhysicallyInstalled, DataSendReady>>
    BY DEF Reopen, queues
  <2> QED BY <2>1, <2>2, <2>3 DEF TypeInv, DevTypes
<1> QED BY <1>2, <1>3, <1>4, Kept DEF TypeInv, Reopen, queues

LEMMA TypeInitLine ==
  ASSUME TypeInv, NEW p \in Procs, InitLine(p)
  PROVE  TypeInv'
<1>1. text[p] \in Seq(LineSet) /\ pc[p] = "parse" /\ text[p] # <<>> /\ UNCHANGED <<running, call>>
  BY ProcFacts DEF InitLine, May
<1>2. /\ UNCHANGED <<DataSendReady, hw, ucPhysicallyInstalled, accepted, bus, got, read, count>>
      /\ wf \in Ring(WCount, Msgs) /\ rf \in Ring(RCount, Told)
  BY DEF InitLine, TypeInv, RingTypes
<1>3. CASE Usb /\ (urb \/ ~ucPhysicallyInstalled)
  <2>1. pc' = [pc EXCEPT ![p] = "idle"] /\ UNCHANGED <<text, wf, rf, bExtended, tx, rx, ints>>
    BY <1>3 DEF InitLine, chip
  <2>2. ProcTypes'
    <3>1. pc' \in [Procs -> Places] /\ ~Active(p)' /\ \A q \in Procs : q # p => pc'[q] = pc[q]
      BY <2>1, ProcFacts DEF Places, Active
    <3> QED BY <1>1, <2>1, <3>1, ProcFacts, OwnTypes
  <2> QED BY <1>2, <2>1, <2>2, Kept DEF TypeInv
<1>4. CASE ~(Usb /\ (urb \/ ~ucPhysicallyInstalled))
  <2>1. /\ bExtended' = ("EXTENDED" \in Head(text[p]).msg.MSGTYPE)
        /\ tx' = <<>> /\ rx' = <<>> /\ ints' = {}
        /\ wf' = pcan_fifo_reset(wf) /\ rf' = pcan_fifo_reset(rf)
        /\ text' = [text EXCEPT ![p] = Tail(@)] /\ UNCHANGED pc
    BY <1>4 DEF InitLine, DeviceOpened, ChipReset
  <2>2. bExtended' \in BOOLEAN
    <3> DEFINE new == "EXTENDED" \in Head(text[p]).msg.MSGTYPE
    <3>1. new = TRUE \/ new = FALSE
      OBVIOUS
    <3>2. bExtended' = new
      BY <2>1
    <3> HIDE DEF new
    <3> QED BY <3>1, <3>2
  <2>3. DevTypes'
    BY <1>2, <2>2 DEF TypeInv, DevTypes
  <2>4. ChipTypes'
    BY <2>1 DEF ChipTypes
  <2>5. RingTypes'
    BY <1>2, <2>1, Sizes, RingReset DEF RingTypes
  <2>6. ProcTypes'
    <3>1. Tail(text[p]) \in Seq(LineSet)
      BY <1>1, HeadTail
    <3>2. text' \in [Procs -> Seq(LineSet)] /\ \A q \in Procs : q # p => text'[q] = text[q]
      BY <2>1, <3>1, ProcFacts
    <3>3. ~Active(p)'
      BY <1>1, <2>1 DEF Active
    <3> QED BY <1>1, <2>1, <3>2, <3>3, ProcFacts, OwnTypes
  <2> QED BY <1>2, <2>3, <2>4, <2>5, <2>6, Kept DEF TypeInv
<1> QED BY <1>3, <1>4

LEMMA TypeCallStatus ==
  ASSUME TypeInv, NEW p \in Procs, CallStatus(p)
  PROVE  TypeInv'
<1>1. pc[p] = "idle" /\ UNCHANGED <<call, text>>
  BY DEF CallStatus, May
<1>2. ProcTypes'
  <2>1. /\ pc' \in [Procs -> Places] /\ ~Active(p)' /\ \A q \in Procs : q # p => pc'[q] = pc[q]
        /\ running' \in Procs \cup {NoProc}
    BY <1>1, ProcFacts DEF CallStatus, Places, Active
  <2> QED BY <1>1, <2>1, ProcFacts, OwnTypes
<1> QED BY <1>2, Kept DEF TypeInv, CallStatus, queues, device, chip

LEMMA TypeClearStatus ==
  ASSUME TypeInv, NEW p \in Procs, ClearStatus(p)
  PROVE  TypeInv'
<1>1. ProcTypes'
  <2>1. /\ pc' \in [Procs -> Places] /\ ~Active(p)' /\ \A q \in Procs : q # p => pc'[q] = pc[q]
        /\ running' \in Procs \cup {NoProc} /\ UNCHANGED <<call, text>>
    BY ProcFacts DEF ClearStatus, Places, Active
  <2> QED BY <2>1, ProcFacts, OwnTypes
<1> QED BY <1>1, Kept DEF TypeInv, ClearStatus, queues, chip

LEMMA TypeInterrupted ==
  ASSUME TypeInv, NEW p \in Procs, Interrupted(p)
  PROVE  TypeInv'
<1>1. ProcTypes'
  <2>1. /\ pc' \in [Procs -> Places] /\ ~Active(p)' /\ \A q \in Procs : q # p => pc'[q] = pc[q]
        /\ UNCHANGED <<call, text, running>>
    BY ProcFacts DEF Interrupted, Places, Active
  <2> QED BY <2>1, ProcFacts, OwnTypes
<1> QED BY <1>1, Kept DEF TypeInv, Interrupted, queues, device, chip, history

LEMMA TypeUnplug ==
  ASSUME TypeInv, Unplug
  PROVE  TypeInv'
<1>1. DevTypes'
  BY DEF TypeInv, DevTypes, Unplug, queues
<1>2. ChipTypes'
  <2>1. tx' = <<>> /\ rx' = <<>> /\ ints' = ints
    BY DEF Unplug
  <2> QED BY <2>1 DEF TypeInv, ChipTypes
<1> QED BY <1>1, <1>2, Kept DEF TypeInv, Unplug, queues, procs

\* A step is one of these.
LEMMA StepsAre ==
  ASSUME Next
  PROVE  \/ \E p \in Procs :
              \/ SleepForData(p) \/ Get(p) \/ Parse(p) \/ InitLine(p) \/ SleepForRoom(p)
              \/ Put(p) \/ Claim(p) \/ StartWrite(p) \/ WaitOver(p) \/ Reopen(p)
              \/ ClearStatus(p) \/ Interrupted(p) \/ CallStatus(p)
              \/ CallRead(p) \/ ReadRest(p)
         \/ \E p \in Procs, e \in BOOLEAN : CallInit(p, e)
         \/ \E p \in Procs, m \in Messages : CallWrite(p, m)
         \/ \E p \in Procs, l \in Lines : CallWriteText(p, l)
         \/ SjaIrq \/ UsbWriteNotify
         \/ \E n, k \in 0 .. Block, r \in BOOLEAN : UsbReadNotify(n, k, r)
         \/ Transmitted \/ BusTrouble \/ UsbWriteFailed \/ Unplug
         \/ \E f \in Frames : Received(f)
BY DEF Next, Steps, Handlers, Procs

LEMMA TypeNext ==
  ASSUME TypeInv, Next
  PROVE  TypeInv'
BY StepsAre, TypeSleepForData, TypeGet, TypeParse, TypeInitLine, TypeSleepForRoom, TypePut,
   TypeClaim, TypeStartWrite, TypeWaitOver, TypeReopen, TypeClearStatus, TypeInterrupted,
   TypeCallStatus, TypeCallRead, TypeReadRest, TypeCallInit, TypeCallWrite, TypeCallWriteText,
   TypeSjaIrq, TypeUsbWriteNotify, TypeUsbReadNotify, TypeTransmitted, TypeBusTrouble,
   TypeUsbWriteFailed, TypeUnplug, TypeReceived

LEMMA TypeStutter ==
  ASSUME TypeInv, UNCHANGED vars
  PROVE  TypeInv'
BY Kept DEF TypeInv, vars, queues, device, chip, procs, history

----------------------------------------------------------------------------
(* The FIFOs implement bounded queues.                                     *)

\* What a step may do to a ring of n cells.
RingStep(n, M, f, g) ==
  \/ g = f
  \/ /\ f.nStored <= g.nStored
     /\ \A i \in 1 .. f.nStored : Contents(g)[i] = Contents(f)[i]
  \/ \E k \in 0 .. f.nStored :
       /\ g.nStored = f.nStored - k
       /\ \A i \in 1 .. f.nStored - k : Contents(g)[i] = Contents(f)[i + k]
  \/ Contents(g) = <<>>

LEMMA RingStepIs ==
  ASSUME NEW n \in Nat \ {0}, NEW M, NEW f \in Ring(n, M), NEW g \in Ring(n, M), RingStep(n, M, f, g)
  PROVE  \/ Contents(g) = Contents(f)
         \/ IsPrefix(Contents(f), Contents(g)) /\ Len(Contents(g)) <= n
         \/ IsSuffix(Contents(g), Contents(f))
         \/ Contents(g) = <<>>
<1>1. /\ Contents(f) \in Seq(M) /\ Len(Contents(f)) = f.nStored
      /\ Contents(g) \in Seq(M) /\ Len(Contents(g)) = g.nStored
  BY ContentsAre
<1>2. f.nStored \in 0 .. n /\ g.nStored \in 0 .. n
  BY DEF Ring
<1>3. CASE /\ f.nStored <= g.nStored
           /\ \A i \in 1 .. f.nStored : Contents(g)[i] = Contents(f)[i]
  <2>1. IsPrefix(Contents(f), Contents(g))
    BY <1>1, <1>2, <1>3, SameStart
  <2> QED BY <1>1, <1>2, <2>1
<1>4. ASSUME NEW k \in 0 .. f.nStored, g.nStored = f.nStored - k,
             \A i \in 1 .. f.nStored - k : Contents(g)[i] = Contents(f)[i + k]
      PROVE  IsSuffix(Contents(g), Contents(f))
  <2>1. k \in Nat /\ Len(Contents(f)) = Len(Contents(g)) + k
    BY <1>1, <1>2, <1>4
  <2>2. \A i \in 1 .. Len(Contents(g)) : Contents(g)[i] = Contents(f)[i + k]
    BY <1>1, <1>4
  <2> QED BY <1>1, <2>1, <2>2, SameEnd
<1> QED BY <1>3, <1>4 DEF RingStep

LEMMA PutIsStep ==
  ASSUME NEW n \in Nat \ {0}, NEW M, NEW f \in Ring(n, M), NEW m \in M
  PROVE  RingStep(n, M, f, pcan_fifo_put(f, m))
<1>1. CASE f.nStored = n
  BY <1>1, RingPut DEF RingStep
<1>2. CASE f.nStored < n
  <2> DEFINE g == pcan_fifo_put(f, m)
  <2>1. g.nStored = f.nStored + 1 /\ Contents(g) = Append(Contents(f), m)
    BY <1>2, RingPut
  <2>2. Contents(f) \in Seq(M) /\ Len(Contents(f)) = f.nStored /\ f.nStored \in Nat
    BY ContentsAre DEF Ring
  <2> HIDE DEF g
  <2>3. \A i \in 1 .. f.nStored : Append(Contents(f), m)[i] = Contents(f)[i]
    BY <2>2
  <2>4. f.nStored <= g.nStored
    BY <2>1, <2>2
  <2>5. RingStep(n, M, f, g)
    BY <2>1, <2>3, <2>4 DEF RingStep
  <2> QED BY <2>5 DEF g
<1>3. f.nStored \in 0 .. n
  BY DEF Ring
<1> QED BY <1>1, <1>2, <1>3

LEMMA GetIsStep ==
  ASSUME NEW n \in Nat \ {0}, NEW M, NEW f \in Ring(n, M), f.nStored > 0
  PROVE  RingStep(n, M, f, pcan_fifo_get(f))
<1>1. /\ pcan_fifo_get(f).nStored = f.nStored - 1
      /\ \A i \in 1 .. f.nStored - 1 : Contents(pcan_fifo_get(f))[i] = Contents(f)[i + 1]
  BY RingGet
<1>2. 1 \in 0 .. f.nStored
  BY DEF Ring
<1> QED BY <1>1, <1>2 DEF RingStep

\* writeFifo: one message is put, one or several are taken, or all are dropped.
LEMMA WriteFifoStep ==
  ASSUME TypeInv, Next
  PROVE  RingStep(WCount, Msgs, wf, wf')
<1>1. wf \in Ring(WCount, Msgs) /\ WCount \in Nat \ {0}
  BY Sizes DEF TypeInv, RingTypes
<1>2. ASSUME NEW p \in Procs, Put(p) PROVE RingStep(WCount, Msgs, wf, wf')
  <2> DEFINE m == [call[p].msg EXCEPT !.pos = Len(accepted) + 1]
  <2>1. call[p].msg \in Msgs /\ Len(accepted) + 1 \in Nat
    BY ProcFacts, Elements DEF TypeInv, HistTypes
  <2>2. m \in Msgs
    BY <2>1 DEF Msgs
  <2>3. wf' = pcan_fifo_put(wf, m) \/ wf' = wf
    BY <1>2 DEF Put
  <2> HIDE DEF m
  <2>4. RingStep(WCount, Msgs, wf, pcan_fifo_put(wf, m))
    BY <1>1, <2>2, PutIsStep
  <2>5. RingStep(WCount, Msgs, wf, wf)
    BY DEF RingStep
  <2> QED BY <2>3, <2>4, <2>5
<1>3. ASSUME sja1000_write PROVE RingStep(WCount, Msgs, wf, wf')
  BY <1>1, <1>3, SjaWriteType, GetIsStep
<1>4. ASSUME pcan_usb_encode PROVE RingStep(WCount, Msgs, wf, wf')
  <2>1. /\ Encoded \in 0 .. wf.nStored /\ wf'.nStored = wf.nStored - Encoded
        /\ \A i \in 1 .. wf.nStored - Encoded : Contents(wf')[i] = Contents(wf)[i + Encoded]
    BY <1>4, UsbEncodeType
  <2> QED BY <2>1 DEF RingStep
<1>5. ASSUME wf' = pcan_fifo_reset(wf) PROVE RingStep(WCount, Msgs, wf, wf')
  BY <1>1, <1>5, RingReset DEF RingStep
<1>6. ASSUME UNCHANGED wf PROVE RingStep(WCount, Msgs, wf, wf')
  BY <1>6 DEF RingStep
<1>7. \/ \E p \in Procs : Put(p)
      \/ sja1000_write \/ pcan_usb_encode \/ wf' = pcan_fifo_reset(wf) \/ UNCHANGED wf
  <2>1. ASSUME NEW p \in Procs, StartWrite(p)
        PROVE  sja1000_write \/ pcan_usb_encode \/ UNCHANGED wf
    BY <2>1 DEF StartWrite, pcan_usb_submitted, pcan_usb_refused
  <2>2. ASSUME SjaIrq \/ UsbWriteNotify
        PROVE  sja1000_write \/ pcan_usb_encode \/ UNCHANGED wf
    BY <2>2 DEF SjaIrq, UsbWriteNotify, pcan_usb_submitted, pcan_usb_refused
  <2>3. ASSUME NEW p \in Procs, NEW e \in BOOLEAN, CallInit(p, e)
        PROVE  wf' = pcan_fifo_reset(wf)
    BY <2>3 DEF CallInit
  <2>4. ASSUME NEW p \in Procs, InitLine(p)
        PROVE  wf' = pcan_fifo_reset(wf) \/ UNCHANGED wf
    BY <2>4 DEF InitLine
  <2>5. ASSUME NEW p \in Procs,
               \/ SleepForData(p) \/ Get(p) \/ Parse(p) \/ SleepForRoom(p)
               \/ Claim(p) \/ WaitOver(p) \/ Reopen(p)
               \/ ClearStatus(p) \/ Interrupted(p) \/ CallStatus(p)
               \/ CallRead(p) \/ ReadRest(p)
        PROVE  UNCHANGED wf
    BY <2>5 DEF SleepForData, Get, Parse, SleepForRoom, Claim, WaitOver, Reopen, ClearStatus,
       Interrupted, CallStatus, CallRead, ReadRest, queues
  <2>6. ASSUME NEW p \in Procs,
               \/ \E m \in Messages : CallWrite(p, m)
               \/ \E l \in Lines : CallWriteText(p, l)
        PROVE  UNCHANGED wf
    BY <2>6 DEF CallWrite, CallWriteText, queues
  <2>7. ASSUME \/ \E n, k \in 0 .. Block, r \in BOOLEAN : UsbReadNotify(n, k, r)
               \/ Transmitted \/ BusTrouble \/ UsbWriteFailed \/ Unplug
               \/ \E f \in Frames : Received(f)
        PROVE  UNCHANGED wf
    BY <2>7, ZenonT(60) DEF UsbReadNotify, Transmitted, BusTrouble, UsbWriteFailed, Unplug, Received, queues
  <2> QED BY StepsAre, <2>1, <2>2, <2>3, <2>4, <2>5, <2>6, <2>7
<1> QED BY <1>2, <1>3, <1>4, <1>5, <1>6, <1>7

\* readFifo: some frames are put, one message is taken, or all are dropped.
LEMMA ReadFifoStep ==
  ASSUME TypeInv, Next
  PROVE  RingStep(RCount, Told, rf, rf')
<1>1. rf \in Ring(RCount, Told) /\ RCount \in Nat \ {0}
  BY Sizes DEF TypeInv, RingTypes
<1>2. ASSUME NEW p \in Procs, Get(p) PROVE RingStep(RCount, Told, rf, rf')
  <2>1. rf.nStored > 0 /\ (rf' = rf \/ rf' = pcan_fifo_get(rf))
    BY <1>2 DEF Get, pcan_fifo_empty
  <2>2. RingStep(RCount, Told, rf, pcan_fifo_get(rf))
    BY <1>1, <2>1, GetIsStep
  <2>3. RingStep(RCount, Told, rf, rf)
    BY DEF RingStep
  <2> QED BY <2>1, <2>2, <2>3
<1>3. ASSUME rf'.nStored \in rf.nStored .. RCount, rf.nStored \in 0 .. RCount,
             \A j \in 1 .. rf.nStored : Contents(rf')[j] = Contents(rf)[j]
      PROVE  RingStep(RCount, Told, rf, rf')
  <2>1. rf.nStored <= rf'.nStored
    BY <1>1, <1>3
  <2> QED BY <1>3, <2>1 DEF RingStep
<1>4. ASSUME SjaIrq PROVE RingStep(RCount, Told, rf, rf')
  BY <1>3, <1>4, SjaFilled
<1>5. ASSUME NEW n \in 0 .. Block, NEW k \in 0 .. Block, NEW r \in BOOLEAN, UsbReadNotify(n, k, r)
      PROVE  RingStep(RCount, Told, rf, rf')
  BY <1>3, <1>5, UsbRead
<1>6. ASSUME rf' = pcan_fifo_reset(rf) PROVE RingStep(RCount, Told, rf, rf')
  BY <1>1, <1>6, RingReset DEF RingStep
<1>7. ASSUME UNCHANGED rf PROVE RingStep(RCount, Told, rf, rf')
  BY <1>7 DEF RingStep
<1>8. \/ \E p \in Procs : Get(p)
      \/ SjaIrq \/ \E n, k \in 0 .. Block, r \in BOOLEAN : UsbReadNotify(n, k, r)
      \/ rf' = pcan_fifo_reset(rf) \/ UNCHANGED rf
  <2>1. ASSUME NEW p \in Procs, NEW e \in BOOLEAN, CallInit(p, e)
        PROVE  rf' = pcan_fifo_reset(rf)
    BY <2>1 DEF CallInit
  <2>2. ASSUME NEW p \in Procs, InitLine(p)
        PROVE  rf' = pcan_fifo_reset(rf) \/ UNCHANGED rf
    BY <2>2 DEF InitLine
  <2>3. ASSUME NEW p \in Procs,
               \/ SleepForData(p) \/ Parse(p) \/ SleepForRoom(p) \/ Put(p)
               \/ Claim(p) \/ StartWrite(p) \/ WaitOver(p) \/ Reopen(p)
               \/ ClearStatus(p) \/ Interrupted(p) \/ CallStatus(p)
               \/ CallRead(p) \/ ReadRest(p)
        PROVE  UNCHANGED rf
    BY <2>3 DEF SleepForData, Put, StartWrite, Parse, SleepForRoom, Claim, WaitOver, Reopen,
       ClearStatus, Interrupted, CallStatus, CallRead, ReadRest, queues
  <2>4. ASSUME NEW p \in Procs,
               \/ \E m \in Messages : CallWrite(p, m)
               \/ \E l \in Lines : CallWriteText(p, l)
        PROVE  UNCHANGED rf
    BY <2>4 DEF CallWrite, CallWriteText, queues
  <2>5. ASSUME \/ UsbWriteNotify
               \/ Transmitted \/ BusTrouble \/ UsbWriteFailed \/ Unplug
               \/ \E f \in Frames : Received(f)
        PROVE  UNCHANGED rf
    BY <2>5 DEF UsbWriteNotify, Transmitted, BusTrouble, UsbWriteFailed, Unplug, Received, queues
  <2> QED BY StepsAre, <2>1, <2>2, <2>3, <2>4, <2>5
<1> QED BY <1>2, <1>4, <1>5, <1>6, <1>7, <1>8

(***************************************************************************)
(* pcan_fifo.c: for FIFOs of every size, whatever the processes and the    *)
(* handlers do, writeFifo and readFifo are bounded queues: what is put     *)
(* stands behind what is there, what is taken is the oldest, in its order, *)
(* and only an initialisation discards, all at once.  With it the types.   *)
(***************************************************************************)
THEOREM CharFifosAreQueues == Spec => []TypeInv /\ FifosAreQueues
<1>1. Init => TypeInv
  BY InitTypes
<1>2. TypeInv /\ [Next]_vars => TypeInv'
  BY TypeNext, TypeStutter
<1>3. Init => WQ!Init /\ RQ!Init
  <2>1. Empty \in Msgs /\ Empty \in Told
    BY DEF Empty, Msgs, Told, Types
  <2>2. Init => Contents(wf) = <<>> /\ Contents(rf) = <<>>
    <3>1. /\ Contents(pcan_fifo_init(WCount, Empty)) = <<>>
          /\ Contents(pcan_fifo_init(RCount, Empty)) = <<>>
      BY <2>1, Sizes, RingInit
    <3> QED BY <3>1 DEF Init
  <2> QED BY <2>2 DEF WQ!Init, RQ!Init
<1>4. TypeInv /\ TypeInv' /\ [Next]_vars => [WQ!Next]_(Contents(wf)) /\ [RQ!Next]_(Contents(rf))
  <2> SUFFICES ASSUME TypeInv, TypeInv', [Next]_vars
               PROVE  [WQ!Next]_(Contents(wf)) /\ [RQ!Next]_(Contents(rf))
    OBVIOUS
  <2>1. CASE UNCHANGED vars
    BY <2>1 DEF vars, queues
  <2>2. CASE Next
    <3>1. /\ wf \in Ring(WCount, Msgs) /\ wf' \in Ring(WCount, Msgs)
          /\ rf \in Ring(RCount, Told) /\ rf' \in Ring(RCount, Told)
          /\ WCount \in Nat \ {0} /\ RCount \in Nat \ {0}
      BY Sizes DEF TypeInv, RingTypes
    <3>2. RingStep(WCount, Msgs, wf, wf') /\ RingStep(RCount, Told, rf, rf')
      BY <2>2, WriteFifoStep, ReadFifoStep
    <3>3. \/ Contents(wf)' = Contents(wf)
          \/ IsPrefix(Contents(wf), Contents(wf)') /\ Len(Contents(wf)') <= WCount
          \/ IsSuffix(Contents(wf)', Contents(wf))
          \/ Contents(wf)' = <<>>
      BY <3>1, <3>2, RingStepIs
    <3>4. \/ Contents(rf)' = Contents(rf)
          \/ IsPrefix(Contents(rf), Contents(rf)') /\ Len(Contents(rf)') <= RCount
          \/ IsSuffix(Contents(rf)', Contents(rf))
          \/ Contents(rf)' = <<>>
      BY <3>1, <3>2, RingStepIs
    <3>5. [WQ!Next]_(Contents(wf))
      <4>1. IsPrefix(Contents(wf), Contents(wf)') => WQ!IsPrefix(Contents(wf), Contents(wf)')
        BY DEF IsPrefix, WQ!IsPrefix
      <4>2. IsSuffix(Contents(wf)', Contents(wf)) => WQ!IsSuffix(Contents(wf)', Contents(wf))
        BY DEF IsSuffix, WQ!IsSuffix, IsPrefix, WQ!IsPrefix, Reverse, WQ!Reverse
      <4> QED BY <3>3, <4>1, <4>2 DEF WQ!Next, WQ!Enqueue, WQ!Dequeue, WQ!Flush
    <3>6. [RQ!Next]_(Contents(rf))
      <4>1. IsPrefix(Contents(rf), Contents(rf)') => RQ!IsPrefix(Contents(rf), Contents(rf)')
        BY DEF IsPrefix, RQ!IsPrefix
      <4>2. IsSuffix(Contents(rf)', Contents(rf)) => RQ!IsSuffix(Contents(rf)', Contents(rf))
        BY DEF IsSuffix, RQ!IsSuffix, IsPrefix, RQ!IsPrefix, Reverse, RQ!Reverse
      <4> QED BY <3>4, <4>1, <4>2 DEF RQ!Next, RQ!Enqueue, RQ!Dequeue, RQ!Flush
    <3> QED BY <3>5, <3>6
  <2> QED BY <2>1, <2>2
<1> QED BY <1>1, <1>2, <1>3, <1>4, PTL DEF Spec, FifosAreQueues, WQ!Spec, RQ!Spec

----------------------------------------------------------------------------
(* Who runs, and what DataSendReady stands for.                            *)

Locked == {"pull", "start", "status"}

\* Troubles are not forgotten.
LEMMA TroubleGrows ==
  ASSUME Next
  PROVE  trouble \subseteq trouble'
<1>1. ASSUME NEW p \in Procs,
             \/ SleepForData(p) \/ Get(p) \/ Parse(p) \/ SleepForRoom(p) \/ Put(p)
             \/ Claim(p) \/ Interrupted(p) \/ CallStatus(p)
             \/ CallRead(p) \/ ReadRest(p)
      PROVE  trouble \subseteq trouble'
  BY <1>1 DEF SleepForData, Get, Parse, SleepForRoom, Put, Claim, Interrupted, CallStatus,
     CallRead, ReadRest, history
<1>2. ASSUME NEW p \in Procs, InitLine(p) \/ ClearStatus(p) \/ WaitOver(p)
      PROVE  trouble \subseteq trouble'
  BY <1>2 DEF InitLine, ClearStatus, WaitOver, Once
<1>3. ASSUME NEW p \in Procs, Reopen(p)
      PROVE  trouble \subseteq trouble'
  BY <1>3 DEF Reopen, Once
<1>4. ASSUME NEW p \in Procs, StartWrite(p)
      PROVE  trouble \subseteq trouble'
  BY <1>4 DEF StartWrite, sja1000_write, pcan_usb_submitted, pcan_usb_refused
<1>5. ASSUME NEW p \in Procs,
             \/ \E e \in BOOLEAN : CallInit(p, e)
             \/ \E m \in Messages : CallWrite(p, m)
             \/ \E l \in Lines : CallWriteText(p, l)
      PROVE  trouble \subseteq trouble'
  BY <1>5 DEF CallInit, Once, CallWrite, CallWriteText
<1>6. ASSUME SjaIrq \/ UsbWriteNotify
      PROVE  trouble \subseteq trouble'
  BY <1>6 DEF SjaIrq, UsbWriteNotify, sja1000_write, pcan_usb_submitted, pcan_usb_refused
<1>7. ASSUME NEW n \in 0 .. Block, NEW k \in 0 .. Block, NEW r \in BOOLEAN, UsbReadNotify(n, k, r)
      PROVE  trouble \subseteq trouble'
  BY <1>7 DEF UsbReadNotify, Once
<1>8. ASSUME \/ Transmitted \/ BusTrouble \/ UsbWriteFailed \/ Unplug
             \/ \E f \in Frames : Received(f)
      PROVE  trouble \subseteq trouble'
  BY <1>8 DEF Transmitted, BusTrouble, UsbWriteFailed, Unplug, Received, Once
<1> QED BY StepsAre, <1>1, <1>2, <1>3, <1>4, <1>5, <1>6, <1>7, <1>8

LEMMA CalmBefore ==
  ASSUME NEW S, trouble \subseteq trouble', Calm(S)'
  PROVE  Calm(S)
BY DEF Calm

LEMMA NoProcIsNone == NoProc \notin Procs
BY PcanAssumption DEF NoProc, Procs

\* A step of one process: what it does to the processes.
Own(p) ==
  /\ pc[p] \in Places /\ pc' \in [Procs -> Places]
  /\ \A q \in Procs : q # p => pc'[q] = pc[q]
  /\ \/ running' = p /\ pc'[p] \in Locked
     \/ running' = NoProc /\ pc'[p] \notin Locked
     \/ running' = running /\ pc[p] \notin Locked /\ pc'[p] \notin Locked

LEMMA OwnRun ==
  ASSUME TypeInv, RunInv, NEW p \in Procs, running \in {NoProc, p}, Own(p)
  PROVE  \A q \in Procs : pc'[q] \in {"pull", "start", "status"} <=> running' = q
<1>1. \A q \in Procs : pc[q] \in Locked <=> running = q
  BY DEF RunInv, Locked
<1>2. NoProc # p /\ \A q \in Procs : NoProc # q
  BY NoProcIsNone
<1> QED BY <1>1, <1>2 DEF Own, Locked

\* The actions of a process are such steps.
LEMMA OwnSteps ==
  ASSUME TypeInv, RunInv, NEW p \in Procs,
         \/ SleepForData(p) \/ Get(p) \/ Parse(p) \/ InitLine(p) \/ SleepForRoom(p)
         \/ Put(p) \/ Claim(p) \/ StartWrite(p) \/ WaitOver(p) \/ Reopen(p)
         \/ ClearStatus(p) \/ Interrupted(p) \/ CallStatus(p)
         \/ CallRead(p) \/ ReadRest(p)
         \/ \E e \in BOOLEAN : CallInit(p, e)
         \/ \E m \in Messages : CallWrite(p, m)
         \/ \E l \in Lines : CallWriteText(p, l)
  PROVE  Own(p) /\ running \in {NoProc, p}
<1>1. pc \in [Procs -> Places]
  BY ProcFacts
<1>2. CASE CallRead(p)
  BY <1>1, <1>2 DEF CallRead, Own, Places, Locked, May
<1>3. CASE SleepForData(p)
  BY <1>1, <1>3 DEF SleepForData, Own, Places, Locked, May
<1>4. CASE Get(p)
  BY <1>1, <1>4 DEF Get, Own, Places, Locked, May
<1>5. CASE ReadRest(p)
  BY <1>1, <1>5 DEF ReadRest, Own, Places, Locked, May
<1>6. CASE Parse(p)
  BY <1>1, <1>6 DEF Parse, Own, Places, Locked, May
<1>7. CASE InitLine(p)
  BY <1>1, <1>7 DEF InitLine, Own, Places, Locked, May
<1>8. CASE SleepForRoom(p)
  BY <1>1, <1>8 DEF SleepForRoom, Own, Places, Locked, May
<1>9. CASE Put(p)
  BY <1>1, <1>9 DEF Put, Own, Places, Locked, May
<1>10. CASE Claim(p)
  <2>1. running = p
    BY <1>10 DEF Claim, May, RunInv
  <2> QED BY <1>1, <1>10, <2>1 DEF Claim, Finish, Own, Places, Locked, May
<1>11. CASE StartWrite(p)
  <2>1. Finish(p, TRUE) \/ Finish(p, FALSE)
    BY <1>11 DEF StartWrite
  <2>2. running \in {NoProc, p}
    BY <1>11 DEF StartWrite, May
  <2> QED BY <1>1, <2>1, <2>2 DEF Finish, Own, Places, Locked
<1>12. CASE WaitOver(p)
  BY <1>1, <1>12 DEF WaitOver, Own, Places, Locked, May
<1>13. CASE Reopen(p)
  BY <1>1, <1>13 DEF Reopen, Own, Places, Locked, May
<1>14. CASE ClearStatus(p)
  BY <1>1, <1>14 DEF ClearStatus, Own, Places, Locked, May
<1>15. CASE Interrupted(p)
  BY <1>1, <1>15 DEF Interrupted, Own, Places, Locked, May
<1>16. CASE CallStatus(p)
  BY <1>1, <1>16 DEF CallStatus, Own, Places, Locked, May
<1>17. CASE \E e \in BOOLEAN : CallInit(p, e)
  BY <1>1, <1>17 DEF CallInit, Own, Places, Locked, May
<1>18. CASE \/ \E m \in Messages : CallWrite(p, m)
            \/ \E l \in Lines : CallWriteText(p, l)
  BY <1>1, <1>18 DEF CallWrite, CallWriteText, Own, Places, Locked, May
<1> QED BY <1>2, <1>3, <1>4, <1>5, <1>6, <1>7, <1>8, <1>9, <1>10, <1>11, <1>12, <1>13, <1>14,
           <1>15, <1>16, <1>17, <1>18

\* What is neither a process nor wakes one.
Outside ==
  Transmitted \/ BusTrouble \/ UsbWriteFailed \/ Unplug \/ \E f \in Frames : Received(f)

LEMMA OutsideKeeps ==
  ASSUME Outside
  PROVE  UNCHANGED <<pc, running, call, text>>
BY DEF Outside, Transmitted, BusTrouble, UsbWriteFailed, Unplug, Received, procs

LEMMA RunNext ==
  ASSUME TypeInv, RunInv, Next
  PROVE  RunInv'
<1>1. \A q \in Procs : pc'[q] \in {"pull", "start", "status"} <=> running' = q
  <2>1. ASSUME NEW p \in Procs,
               \/ SleepForData(p) \/ Get(p) \/ Parse(p) \/ InitLine(p) \/ SleepForRoom(p)
               \/ Put(p) \/ Claim(p) \/ StartWrite(p) \/ WaitOver(p) \/ Reopen(p)
               \/ ClearStatus(p) \/ Interrupted(p) \/ CallStatus(p)
               \/ CallRead(p) \/ ReadRest(p)
               \/ \E e \in BOOLEAN : CallInit(p, e)
               \/ \E m \in Messages : CallWrite(p, m)
               \/ \E l \in Lines : CallWriteText(p, l)
        PROVE  \A q \in Procs : pc'[q] \in {"pull", "start", "status"} <=> running' = q
    <3>1. Own(p) /\ running \in {NoProc, p}
      BY <2>1, OwnSteps
    <3> QED BY <3>1, OwnRun
  <2>2. ASSUME SjaIrq \/ UsbWriteNotify \/ \E n, k \in 0 .. Block, r \in BOOLEAN : UsbReadNotify(n, k, r)
        PROVE  \A q \in Procs : pc'[q] \in {"pull", "start", "status"} <=> running' = q
    <3>1. Awakes /\ UNCHANGED running
      BY <2>2, HandlerWakes
    <3> QED BY <3>1 DEF Awakes, RunInv
  <2>3. ASSUME Outside
        PROVE  \A q \in Procs : pc'[q] \in {"pull", "start", "status"} <=> running' = q
    BY <2>3, OutsideKeeps DEF RunInv
  <2> QED BY StepsAre, <2>1, <2>2, <2>3 DEF Outside
<1>2. trouble \subseteq trouble'
  BY TroubleGrows
<1>3. ucPhysicallyInstalled' \/ "unplug" \in trouble'
  <2>1. UNCHANGED ucPhysicallyInstalled \/ Unplug
    <3>1. ASSUME NEW p \in Procs,
                 \/ SleepForData(p) \/ Get(p) \/ Parse(p) \/ InitLine(p) \/ SleepForRoom(p)
                 \/ Put(p) \/ Claim(p) \/ StartWrite(p) \/ WaitOver(p) \/ Reopen(p)
                 \/ ClearStatus(p) \/ Interrupted(p) \/ CallStatus(p)
                 \/ CallRead(p) \/ ReadRest(p)
          PROVE  UNCHANGED ucPhysicallyInstalled
      BY <3>1 DEF SleepForData, Get, Parse, InitLine, SleepForRoom, Put, Claim, StartWrite,
         WaitOver, Reopen, ClearStatus, Interrupted, CallStatus, CallRead, ReadRest, device
    <3>2. ASSUME NEW p \in Procs,
                 \/ \E e \in BOOLEAN : CallInit(p, e)
                 \/ \E m \in Messages : CallWrite(p, m)
                 \/ \E l \in Lines : CallWriteText(p, l)
          PROVE  UNCHANGED ucPhysicallyInstalled
      BY <3>2 DEF CallInit, CallWrite, CallWriteText, device
    <3>3. ASSUME SjaIrq \/ UsbWriteNotify \/ \E n, k \in 0 .. Block, r \in BOOLEAN : UsbReadNotify(n, k, r)
          PROVE  UNCHANGED ucPhysicallyInstalled
      BY <3>3 DEF SjaIrq, UsbWriteNotify, UsbReadNotify
    <3>4. ASSUME Transmitted \/ BusTrouble \/ UsbWriteFailed \/ \E f \in Frames : Received(f)
          PROVE  UNCHANGED ucPhysicallyInstalled
      BY <3>4 DEF Transmitted, BusTrouble, UsbWriteFailed, Received, device
    <3> QED BY StepsAre, <3>1, <3>2, <3>3, <3>4
  <2>2. Unplug => "unplug" \in trouble'
    BY DEF Unplug, Once
  <2> QED BY <1>2, <2>1, <2>2 DEF RunInv
<1>4. ints' \cap {"BEI", "EPI"} \subseteq trouble'
  <2>1. ints' \cap {"BEI", "EPI"} \subseteq ints \/ BusTrouble
    <3>1. ASSUME NEW p \in Procs,
                 \/ SleepForData(p) \/ Get(p) \/ Parse(p) \/ InitLine(p) \/ SleepForRoom(p)
                 \/ Put(p) \/ Claim(p) \/ StartWrite(p) \/ WaitOver(p) \/ Reopen(p)
                 \/ ClearStatus(p) \/ Interrupted(p) \/ CallStatus(p)
                 \/ CallRead(p) \/ ReadRest(p)
          PROVE  ints' \subseteq ints
      BY <3>1 DEF SleepForData, Get, Parse, InitLine, SleepForRoom, Put, Claim, StartWrite,
         WaitOver, Reopen, ClearStatus, Interrupted, CallStatus, CallRead, ReadRest, chip, ChipReset
    <3>2. ASSUME NEW p \in Procs,
                 \/ \E e \in BOOLEAN : CallInit(p, e)
                 \/ \E m \in Messages : CallWrite(p, m)
                 \/ \E l \in Lines : CallWriteText(p, l)
          PROVE  ints' \subseteq ints
      BY <3>2 DEF CallInit, CallWrite, CallWriteText, chip
    <3>3. ASSUME SjaIrq \/ UsbWriteNotify \/ \E n, k \in 0 .. Block, r \in BOOLEAN : UsbReadNotify(n, k, r)
          PROVE  ints' \subseteq ints
      BY <3>3 DEF SjaIrq, UsbWriteNotify, UsbReadNotify
    <3>4. ASSUME Transmitted \/ UsbWriteFailed \/ Unplug \/ \E f \in Frames : Received(f)
          PROVE  ints' \cap {"BEI", "EPI"} \subseteq ints
      BY <3>4 DEF Transmitted, UsbWriteFailed, Unplug, Received
    <3> QED BY StepsAre, <3>1, <3>2, <3>3, <3>4
  <2>2. BusTrouble => \E e \in {"BEI", "EPI"} : e \in trouble' /\ ints' = ints \cup {e}
    BY DEF BusTrouble, Once
  <2> QED BY <1>2, <2>1, <2>2 DEF RunInv
<1>5. \A q \in Procs : pc'[q] \in {"wait_until_fifo_empty", "reopen"} => "reset" \in trouble'
  <2>1. ASSUME NEW p \in Procs,
               \/ SleepForData(p) \/ Get(p) \/ Parse(p) \/ InitLine(p) \/ SleepForRoom(p)
               \/ Put(p) \/ Claim(p) \/ StartWrite(p) \/ WaitOver(p) \/ Reopen(p)
               \/ ClearStatus(p) \/ Interrupted(p) \/ CallStatus(p)
               \/ CallRead(p) \/ ReadRest(p)
               \/ \E e \in BOOLEAN : CallInit(p, e)
               \/ \E m \in Messages : CallWrite(p, m)
               \/ \E l \in Lines : CallWriteText(p, l)
        PROVE  \A q \in Procs : pc'[q] \in {"wait_until_fifo_empty", "reopen"} => "reset" \in trouble'
    <3>1. Own(p)
      BY <2>1, OwnSteps
    <3>2. \/ pc'[p] \notin {"wait_until_fifo_empty", "reopen"} \/ pc' = pc
          \/ \E e \in BOOLEAN : CallInit(p, e)
          \/ pc[p] = "wait_until_fifo_empty"
      <4>1. CASE StartWrite(p) \/ Claim(p)
        <5>1. Finish(p, TRUE) \/ Finish(p, FALSE) \/ pc' = [pc EXCEPT ![p] = "start"]
          BY <4>1 DEF StartWrite, Claim
        <5> QED BY <5>1, ProcFacts DEF Finish
      <4>2. CASE ~(StartWrite(p) \/ Claim(p))
        BY <2>1, <4>2, ProcFacts DEF SleepForData, Get, Parse, InitLine, SleepForRoom, Put, WaitOver,
           Reopen, ClearStatus, Interrupted, CallStatus, CallRead, ReadRest, CallWrite,
           CallWriteText, May
      <4> QED BY <4>1, <4>2
    <3>3. (\E e \in BOOLEAN : CallInit(p, e)) => "reset" \in trouble'
      BY DEF CallInit, Once
    <3> QED BY <1>2, <3>1, <3>2, <3>3 DEF Own, RunInv
  <2>2. ASSUME SjaIrq \/ UsbWriteNotify \/ \E n, k \in 0 .. Block, r \in BOOLEAN : UsbReadNotify(n, k, r)
        PROVE  \A q \in Procs : pc'[q] \in {"wait_until_fifo_empty", "reopen"} => "reset" \in trouble'
    <3>1. Awakes
      BY <2>2, HandlerWakes
    <3> QED BY <1>2, <3>1 DEF Awakes, RunInv
  <2>3. ASSUME Outside
        PROVE  \A q \in Procs : pc'[q] \in {"wait_until_fifo_empty", "reopen"} => "reset" \in trouble'
    BY <1>2, <2>3, OutsideKeeps DEF RunInv
  <2> QED BY StepsAre, <2>1, <2>2, <2>3 DEF Outside
<1> QED BY <1>1, <1>3, <1>4, <1>5 DEF RunInv

\* A step that neither sends nor makes the device ready.
ReadyQuiet ==
  /\ UNCHANGED <<DataSendReady, tx>> /\ ("TI" \in ints' <=> "TI" \in ints)
  /\ wf'.nStored > 0 => wf.nStored > 0
  /\ Somebody("pull") => Somebody("pull")'
  /\ Somebody("start")' => Somebody("start")

LEMMA QuietReady ==
  ASSUME ReadyInv, trouble \subseteq trouble', ReadyQuiet
  PROVE  ReadyInv'
BY CalmBefore DEF ReadyInv, ReadyQuiet

\* The processes keep the two places when others move.
LEMMA OwnPlaces ==
  ASSUME NEW p \in Procs, Own(p), NEW place \in Locked
  PROVE  /\ pc[p] # place => (Somebody(place) => Somebody(place)')
         /\ pc'[p] # place => (Somebody(place)' => Somebody(place))
         /\ pc'[p] = place => Somebody(place)'
BY DEF Own, Somebody

LEMMA AwakePlaces ==
  ASSUME Awakes, NEW place \in Locked
  PROVE  Somebody(place)' <=> Somebody(place)
BY DEF Awakes, Somebody, Locked

ReadySet == {"BEI", "EPI", "timeout", "submit", "open", "reinit", "unplug"}

LEMMA ReadyCalm ==
  ASSUME TypeInv, RunInv, ReadyInv, Next, Calm(ReadySet)'
  PROVE  /\ Calm(ReadySet) /\ ucPhysicallyInstalled /\ ints \cap {"BEI", "EPI"} = {}
         /\ DataSendReady => tx = <<>> /\ "TI" \notin ints /\ (wf.nStored > 0 => Somebody("pull"))
         /\ "TI" \in ints => tx = <<>>
         /\ Somebody("start") => tx = <<>> /\ "TI" \notin ints /\ ~DataSendReady
         /\ \A e \in ReadySet : e \notin trouble'
<1>1. trouble \subseteq trouble'
  BY TroubleGrows
<1>2. Calm(ReadySet)
  BY <1>1, CalmBefore
<1>3. ucPhysicallyInstalled /\ ints \cap {"BEI", "EPI"} = {}
  BY <1>2 DEF RunInv, Calm, ReadySet
<1>4. \A e \in ReadySet : e \notin trouble'
  BY DEF Calm
<1> QED BY <1>2, <1>3, <1>4 DEF ReadyInv, ReadySet

LEMMA WfSize ==
  ASSUME TypeInv
  PROVE  wf.nStored \in Nat /\ wf.nStored \in 0 .. WCount /\ rf.nStored \in Nat /\ rf.nStored \in 0 .. RCount
<1>1. WCount \in Nat /\ RCount \in Nat
  BY Sizes
<1>2. wf.nStored \in 0 .. WCount /\ rf.nStored \in 0 .. RCount
  BY DEF TypeInv, RingTypes, Ring
<1> QED BY <1>1, <1>2

LEMMA ReadyNext ==
  ASSUME TypeInv, RunInv, ReadyInv, Next
  PROVE  ReadyInv'
<1>1. trouble \subseteq trouble'
  BY TroubleGrows
<1>2. "pull" \in Locked /\ "start" \in Locked
  BY DEF Locked
<1>3. ASSUME NEW p \in Procs,
             \/ SleepForData(p) \/ Get(p) \/ Parse(p) \/ SleepForRoom(p)
             \/ ClearStatus(p) \/ Interrupted(p) \/ CallStatus(p)
             \/ CallRead(p) \/ ReadRest(p)
             \/ \E m \in Messages : CallWrite(p, m)
             \/ \E l \in Lines : CallWriteText(p, l)
      PROVE  ReadyInv'
  <2>1. Own(p)
    BY <1>3, OwnSteps
  <2>2. UNCHANGED <<DataSendReady, tx, ints, wf>>
    BY <1>3 DEF SleepForData, Get, Parse, SleepForRoom, ClearStatus, Interrupted, CallStatus,
       CallRead, ReadRest, CallWrite, CallWriteText, queues, chip
  <2>3. pc[p] \notin {"pull", "start"} /\ pc'[p] \notin {"pull", "start"}
    BY <1>3, ProcFacts DEF SleepForData, Get, Parse, SleepForRoom, ClearStatus, Interrupted,
       CallStatus, CallRead, ReadRest, CallWrite, CallWriteText, May
  <2>4. ReadyQuiet
    BY <1>2, <2>1, <2>2, <2>3, OwnPlaces DEF ReadyQuiet
  <2> QED BY <1>1, <2>4, QuietReady
<1>4. ASSUME NEW p \in Procs, Put(p)
      PROVE  ReadyInv'
  <2>1. Own(p)
    BY <1>4, OwnSteps
  <2>2. UNCHANGED <<DataSendReady, tx, ints>> /\ pc[p] = "write"
    BY <1>4 DEF Put, May, device, chip
  <2>3. CASE pc'[p] = "pull"
    <3>1. Somebody("pull")' /\ (Somebody("start")' => Somebody("start"))
      BY <1>2, <2>1, <2>3, OwnPlaces
    <3> QED BY <1>1, <2>2, <3>1, CalmBefore DEF ReadyInv
  <2>4. CASE pc'[p] # "pull"
    <3>1. UNCHANGED wf /\ pc'[p] = "idle"
      BY <1>4, <2>4, ProcFacts DEF Put
    <3>2. ReadyQuiet
      BY <1>2, <2>1, <2>2, <3>1, OwnPlaces DEF ReadyQuiet
    <3> QED BY <1>1, <3>2, QuietReady
  <2> QED BY <2>3, <2>4
<1>5. ASSUME NEW p \in Procs, Claim(p)
      PROVE  ReadyInv'
  <2>1. Own(p)
    BY <1>5, OwnSteps
  <2>2. UNCHANGED <<tx, ints, wf>> /\ pc[p] = "pull"
    BY <1>5 DEF Claim, May, chip
  <2>3. CASE DataSendReady
    <3>1. DataSendReady' = FALSE
      BY <1>5, <2>3 DEF Claim
    <3> QED BY <1>1, <2>2, <2>3, <3>1, CalmBefore DEF ReadyInv
  <2>4. CASE ~DataSendReady
    <3>1. DataSendReady' = DataSendReady /\ pc'[p] \in {"parse", "idle"}
      BY <1>5, <2>4, ProcFacts DEF Claim, Finish
    <3>2. Somebody("start")' => Somebody("start")
      BY <1>2, <2>1, <3>1, OwnPlaces
    <3> QED BY <1>1, <2>2, <2>4, <3>1, <3>2, CalmBefore DEF ReadyInv
  <2> QED BY <2>3, <2>4
<1>6. ASSUME NEW p \in Procs, StartWrite(p)
      PROVE  ReadyInv'
  <2> SUFFICES ASSUME Calm(ReadySet)'
               PROVE  /\ DataSendReady' => tx' = <<>> /\ "TI" \notin ints'
                                           /\ (wf'.nStored > 0 => Somebody("pull")')
                      /\ "TI" \in ints' => tx' = <<>>
                      /\ Somebody("start")' => tx' = <<>> /\ "TI" \notin ints' /\ ~DataSendReady'
    BY DEF ReadyInv, ReadySet
  <2>1. /\ ucPhysicallyInstalled /\ tx = <<>> /\ "TI" \notin ints /\ ~DataSendReady
        /\ "submit" \notin trouble'
    <3>1. Somebody("start")
      BY <1>6 DEF StartWrite, May, Somebody
    <3> QED BY <3>1, ReadyCalm DEF ReadySet
  <2>2. ~Somebody("start")'
    <3>1. pc[p] = "start" /\ pc'[p] # "start" /\ \A q \in Procs : q # p => pc'[q] = pc[q]
      BY <1>6, ProcFacts DEF StartWrite, May, Finish
    <3>2. \A q \in Procs : pc[q] = "start" => q = p
      BY <3>1 DEF RunInv
    <3> QED BY <3>1, <3>2 DEF Somebody
  <2>3. ints' = ints
    BY <1>6 DEF StartWrite
  <2>4. CASE DataSendReady' = DataSendReady
    BY <2>1, <2>2, <2>3, <2>4
  <2>5. CASE DataSendReady' # DataSendReady
    <3>1. ~pcan_usb_refused
      BY <2>1 DEF pcan_usb_refused
    <3>2. ~pcan_fifo_empty(wf) /\ UNCHANGED <<wf, tx>>
      BY <1>6, <2>1, <2>5, <3>1 DEF StartWrite
    <3>3. ~(wf'.nStored > 0)
      BY <3>2 DEF pcan_fifo_empty
    <3> QED BY <2>1, <2>2, <2>3, <3>2, <3>3
  <2> QED BY <2>4, <2>5
<1>7. ASSUME NEW p \in Procs, \/ \E e \in BOOLEAN : CallInit(p, e)
                              \/ WaitOver(p) \/ Reopen(p) \/ InitLine(p)
      PROVE  ReadyInv'
  <2>1. Own(p)
    BY <1>7, OwnSteps
  <2>2. ASSUME NEW e \in BOOLEAN, CallInit(p, e) PROVE ReadyInv'
    <3>1. UNCHANGED <<DataSendReady, tx, ints>> /\ wf'.nStored = 0
      BY <2>2, Sizes, RingReset DEF CallInit, chip, TypeInv, RingTypes
    <3>2. pc[p] = "idle" /\ pc'[p] = "wait_until_fifo_empty"
      BY <2>2, ProcFacts DEF CallInit, May
    <3>3. ReadyQuiet
      BY <1>2, <2>1, <3>1, <3>2, OwnPlaces DEF ReadyQuiet
    <3> QED BY <1>1, <3>3, QuietReady
  <2>3. CASE WaitOver(p)
    <3>1. "timeout" \in trouble' \/ UNCHANGED DataSendReady
      BY <2>3 DEF WaitOver, Once, TypeInv, DevTypes
    <3>2. CASE "timeout" \in trouble'
      BY <3>2 DEF ReadyInv, Calm
    <3>3. CASE UNCHANGED DataSendReady
      <4>1. UNCHANGED <<tx, ints, wf>> /\ pc[p] = "wait_until_fifo_empty" /\ pc'[p] = "reopen"
        BY <2>3, ProcFacts DEF WaitOver, May, chip
      <4>2. ReadyQuiet
        BY <1>2, <2>1, <3>3, <4>1, OwnPlaces DEF ReadyQuiet
      <4> QED BY <1>1, <4>2, QuietReady
    <3> QED BY <3>1, <3>2, <3>3
  <2>4. CASE Reopen(p)
    <3>1. UNCHANGED <<wf, DataSendReady>> /\ tx' = <<>> /\ ints' = {}
      BY <2>4 DEF Reopen, ChipReset, queues
    <3>2. pc[p] = "reopen" /\ pc'[p] = "idle"
      BY <2>4, ProcFacts DEF Reopen, May
    <3>3. (Somebody("start")' => Somebody("start")) /\ (Somebody("pull") => Somebody("pull")')
      BY <1>2, <2>1, <3>2, OwnPlaces
    <3> QED BY <1>1, <3>1, <3>3, CalmBefore DEF ReadyInv
  <2>5. CASE InitLine(p)
    BY <2>5 DEF InitLine, ReadyInv, Calm
  <2> QED BY <1>7, <2>2, <2>3, <2>4, <2>5
<1>8. ASSUME SjaIrq
      PROVE  ReadyInv'
  <2>1. \A place \in Locked : Somebody(place)' <=> Somebody(place)
    BY <1>8, HandlerWakes, AwakePlaces
  <2>2. /\ ints' = {}
        /\ DataSendReady' = (DataSendReady \/ Drained \/ ints \cap {"BEI", "EPI"} # {})
        /\ IF "TI" \in ints /\ ~Drained THEN sja1000_write ELSE UNCHANGED <<wf, tx, trouble>>
    BY <1>8 DEF SjaIrq
  <2> SUFFICES ASSUME Calm(ReadySet)'
               PROVE  /\ DataSendReady' => tx' = <<>> /\ (wf'.nStored > 0 => Somebody("pull")')
                      /\ Somebody("start")' => tx' = <<>> /\ ~DataSendReady'
    BY <2>2 DEF ReadyInv, ReadySet
  <2>3. /\ ints \cap {"BEI", "EPI"} = {}
        /\ DataSendReady => tx = <<>> /\ "TI" \notin ints /\ (wf.nStored > 0 => Somebody("pull"))
        /\ "TI" \in ints => tx = <<>>
        /\ Somebody("start") => tx = <<>> /\ "TI" \notin ints /\ ~DataSendReady
    BY ReadyCalm
  <2>4. CASE "TI" \notin ints
    <3>1. ~Drained
      BY <2>4 DEF Drained
    <3>2. (DataSendReady' <=> DataSendReady) /\ UNCHANGED <<wf, tx>>
      BY <2>2, <2>3, <2>4, <3>1
    <3> QED BY <1>2, <2>1, <2>3, <3>2
  <2>5. CASE "TI" \in ints /\ Drained
    <3>1. UNCHANGED <<wf, tx>> /\ tx = <<>> /\ ~(wf.nStored > 0) /\ ~Somebody("start")
      BY <2>2, <2>3, <2>5 DEF Drained, pcan_fifo_empty
    <3> QED BY <1>2, <2>1, <3>1
  <2>6. CASE "TI" \in ints /\ ~Drained
    <3>1. ~DataSendReady' /\ ~Somebody("start")
      BY <2>2, <2>3, <2>6
    <3> QED BY <1>2, <2>1, <3>1
  <2> QED BY <2>4, <2>5, <2>6
<1>9. ASSUME UsbWriteNotify
      PROVE  ReadyInv'
  <2>1. \A place \in Locked : Somebody(place)' <=> Somebody(place)
    BY <1>9, HandlerWakes, AwakePlaces
  <2>2. "TI" \in ints /\ "TI" \notin ints'
    BY <1>9 DEF UsbWriteNotify
  <2> SUFFICES ASSUME Calm(ReadySet)'
               PROVE  /\ DataSendReady' => tx' = <<>> /\ (wf'.nStored > 0 => Somebody("pull")')
                      /\ Somebody("start")' => tx' = <<>> /\ ~DataSendReady'
    BY <2>2 DEF ReadyInv, ReadySet
  <2>3. /\ tx = <<>> /\ ~DataSendReady /\ ~Somebody("start")
    BY <2>2, ReadyCalm
  <2>4. DataSendReady' => UNCHANGED tx /\ ~(wf'.nStored > 0)
    <3>1. DataSendReady' => /\ DataSendReady' = TRUE /\ ~pcan_fifo_empty(wf)
                            /\ UNCHANGED <<wf, tx>>
      BY <1>9, <2>3 DEF UsbWriteNotify
    <3> QED BY <3>1 DEF pcan_fifo_empty
  <2> QED BY <1>2, <2>1, <2>3, <2>4
<1>10. ASSUME NEW n \in 0 .. Block, NEW k \in 0 .. Block, NEW r \in BOOLEAN, UsbReadNotify(n, k, r)
       PROVE  ReadyInv'
  <2>1. \A place \in Locked : Somebody(place)' <=> Somebody(place)
    BY <1>10, HandlerWakes, AwakePlaces
  <2>2. UNCHANGED <<DataSendReady, tx, wf>> /\ ints' = ints \cap {"TI"}
    BY <1>10 DEF UsbReadNotify
  <2>3. ReadyQuiet
    BY <1>2, <2>1, <2>2 DEF ReadyQuiet
  <2> QED BY <1>1, <2>3, QuietReady
<1>11. ASSUME Outside
       PROVE  ReadyInv'
  <2>1. \A place \in Locked : Somebody(place)' <=> Somebody(place)
    BY <1>11, OutsideKeeps DEF Somebody
  <2>2. CASE Transmitted \/ UsbWriteFailed
    <3>1. /\ tx # <<>> /\ tx' = <<>> /\ UNCHANGED <<DataSendReady, wf>>
      BY <2>2 DEF Transmitted, UsbWriteFailed, queues
    <3>2. UsbWriteFailed => ints' = ints
      BY DEF UsbWriteFailed
    <3> QED BY <1>1, <1>2, <2>1, <2>2, <3>1, <3>2, CalmBefore DEF ReadyInv
  <2>3. CASE BusTrouble
    BY <2>3 DEF BusTrouble, Once, ReadyInv, Calm
  <2>4. CASE Unplug
    BY <2>4 DEF Unplug, Once, ReadyInv, Calm
  <2>5. ASSUME NEW f \in Frames, Received(f) PROVE ReadyInv'
    <3>1. UNCHANGED <<DataSendReady, tx, wf>> /\ ("TI" \in ints' <=> "TI" \in ints)
      BY <2>5 DEF Received, queues
    <3>2. ReadyQuiet
      BY <1>2, <2>1, <3>1 DEF ReadyQuiet
    <3> QED BY <1>1, <3>2, QuietReady
  <2> QED BY <1>11, <2>2, <2>3, <2>4, <2>5 DEF Outside
<1> QED BY StepsAre, <1>3, <1>4, <1>5, <1>6, <1>7, <1>8, <1>9, <1>10, <1>11 DEF Outside

LEMMA RunStutter ==
  ASSUME RunInv, UNCHANGED vars
  PROVE  RunInv'
BY DEF RunInv, vars, device, chip, procs, history

LEMMA ReadyStutter ==
  ASSUME ReadyInv, UNCHANGED vars
  PROVE  ReadyInv'
BY DEF ReadyInv, Calm, Somebody, vars, queues, chip, procs, history

(***************************************************************************)
(* DataSendReady (pcan_main.h:348): without trouble a device that is ready *)
(* has nothing under way and nothing left to send but for the message that *)
(* a process is just putting; for every number of processes, FIFO size and *)
(* kind of controller.                                                     *)
(***************************************************************************)
THEOREM CharReadyMeansSent == Spec => []ReadyMeansSent
<1> DEFINE IInv == TypeInv /\ RunInv /\ ReadyInv
<1>1. Init => IInv
  <2>1. Init => RunInv
    BY NoProcIsNone DEF Init, RunInv
  <2>2. Init => ReadyInv
    <3>1. Empty \in Msgs
      BY DEF Empty, Msgs, Types
    <3>2. Init => wf.nStored = 0
      <4>1. pcan_fifo_init(WCount, Empty).nStored = 0
        BY <3>1, Sizes, RingInit
      <4> QED BY <4>1 DEF Init
    <3> QED BY <3>2 DEF Init, ReadyInv, Somebody
  <2> QED BY <2>1, <2>2, InitTypes
<1>2. IInv /\ [Next]_vars => IInv'
  <2>1. IInv /\ Next => IInv'
    BY TypeNext, RunNext, ReadyNext
  <2>2. IInv /\ UNCHANGED vars => IInv'
    BY TypeStutter, RunStutter, ReadyStutter
  <2> QED BY <2>1, <2>2
<1>3. IInv => ReadyMeansSent
  <2> SUFFICES ASSUME TypeInv, RunInv, ReadyInv PROVE ReadyMeansSent
    OBVIOUS
  <2>1. /\ wf.nStored \in 0 .. WCount /\ rf.nStored \in 0 .. RCount
        /\ wf.r \in 0 .. WCount - 1 /\ wf.w \in 0 .. WCount - 1
    BY DEF TypeInv, RingTypes, Ring
  <2>2. running \in Procs \cup {NoProc} /\ ints \subseteq {"TI", "DOI", "BEI", "EPI"}
    BY DEF TypeInv, ProcTypes, ChipTypes
  <2> QED BY <2>1, <2>2 DEF ReadyMeansSent, ReadyInv, Somebody
<1> HIDE DEF IInv
<1> QED BY <1>1, <1>2, <1>3, PTL DEF Spec

----------------------------------------------------------------------------
(* Who waits for what.                                                     *)

BusySet == {"timeout", "killed", "reinit", "open", "submit", "urb", "unplug"}

ReaderInv == Somebody("asleep_read") => rf.nStored = 0
WriterInv ==
  Calm(BusySet) =>
    /\ ~DataSendReady => Sends \/ Somebody("start")
    /\ wf.nStored > 0 => Sends \/ Somebody("pull") \/ Somebody("start")
    /\ Somebody("asleep_write") /\ wf.nStored = 0 => Sends

LEMMA BusyParts == BusyInv <=> ReaderInv /\ WriterInv
BY DEF BusyInv, ReaderInv, WriterInv, BusySet, Busy, Sends, Somebody

LEMMA OwnSleepers ==
  ASSUME NEW p \in Procs, Own(p), NEW place, pc'[p] # place
  PROVE  Somebody(place)' => Somebody(place)
BY DEF Own, Somebody

LEMMA AwakeSleepers ==
  ASSUME Awakes, NEW place \in {"asleep_read", "asleep_write"}
  PROVE  Somebody(place)' => Somebody(place)
BY DEF Awakes, Somebody

\* Everybody who sleeps for it is woken.
LEMMA AllAwake ==
  ASSUME NEW f, NEW to, NEW place, to # place, NEW g, g = Woken(f, place, to)
  PROVE  \A q \in Procs : g[q] # place
BY DEF Woken

LEMMA ReaderNext ==
  ASSUME TypeInv, RunInv, ReaderInv, Next
  PROVE  ReaderInv'
<1>1. ASSUME NEW p \in Procs,
             \/ Parse(p) \/ SleepForRoom(p) \/ Put(p) \/ Claim(p)
             \/ StartWrite(p) \/ WaitOver(p) \/ Reopen(p)
             \/ ClearStatus(p) \/ Interrupted(p) \/ CallStatus(p)
             \/ CallRead(p) \/ ReadRest(p)
             \/ \E m \in Messages : CallWrite(p, m)
             \/ \E l \in Lines : CallWriteText(p, l)
      PROVE  ReaderInv'
  <2>1. Own(p)
    BY <1>1, OwnSteps
  <2>2. UNCHANGED rf
    BY <1>1 DEF Parse, SleepForRoom, Put, Claim, StartWrite, WaitOver, Reopen, ClearStatus,
       Interrupted, CallStatus, CallRead, ReadRest, CallWrite, CallWriteText, queues
  <2>3. pc'[p] # "asleep_read" \/ UNCHANGED pc
    <3>1. CASE StartWrite(p) \/ Claim(p)
      <4>1. Finish(p, TRUE) \/ Finish(p, FALSE) \/ pc' = [pc EXCEPT ![p] = "start"]
        BY <3>1 DEF StartWrite, Claim
      <4> QED BY <4>1, ProcFacts DEF Finish
    <3>2. CASE ~(StartWrite(p) \/ Claim(p))
      BY <1>1, <3>2, ProcFacts DEF Parse, SleepForRoom, Put, WaitOver, Reopen, ClearStatus,
         Interrupted, CallStatus, CallRead, ReadRest, CallWrite, CallWriteText
    <3> QED BY <3>1, <3>2
  <2>4. Somebody("asleep_read")' => Somebody("asleep_read")
    BY <2>1, <2>3, OwnSleepers DEF Somebody
  <2> QED BY <2>2, <2>4 DEF ReaderInv
<1>2. ASSUME NEW p \in Procs, SleepForData(p) PROVE ReaderInv'
  <2>1. UNCHANGED rf /\ ~(rf.nStored > 0)
    BY <1>2 DEF SleepForData, queues, pcan_fifo_empty
  <2> QED BY <2>1, WfSize DEF ReaderInv
<1>3. ASSUME NEW p \in Procs, Get(p) PROVE ReaderInv'
  <2>1. rf.nStored > 0 /\ pc'[p] # "asleep_read" /\ Own(p)
    BY <1>3, ProcFacts, OwnSteps DEF Get, pcan_fifo_empty
  <2>2. ~Somebody("asleep_read")'
    BY <2>1, OwnSleepers, WfSize DEF ReaderInv
  <2> QED BY <2>2 DEF ReaderInv
<1>4. ASSUME NEW p \in Procs, InitLine(p) \/ \E e \in BOOLEAN : CallInit(p, e) PROVE ReaderInv'
  <2>1. Own(p) /\ pc'[p] # "asleep_read"
    <3>1. Own(p)
      BY <1>4, OwnSteps
    <3>2. pc'[p] # "asleep_read"
      BY <1>4, ProcFacts DEF InitLine, CallInit, May
    <3> QED BY <3>1, <3>2
  <2>2. rf' = pcan_fifo_reset(rf) \/ UNCHANGED rf
    BY <1>4 DEF InitLine, CallInit
  <2>3. pcan_fifo_reset(rf).nStored = 0
    BY Sizes, RingReset DEF TypeInv, RingTypes
  <2>4. Somebody("asleep_read")' => Somebody("asleep_read")
    BY <2>1, OwnSleepers
  <2> QED BY <2>2, <2>3, <2>4 DEF ReaderInv
<1>5. ASSUME SjaIrq PROVE ReaderInv'
  <2>1. Somebody("asleep_read")' => Somebody("asleep_read")
    BY <1>5, HandlerWakes, AwakeSleepers
  <2>2. CASE rx # <<>> \/ ints \cap {"BEI", "EPI"} # {} \/ "DOI" \in ints
    <3> DEFINE w == IF Drained \/ ints \cap {"BEI", "EPI"} # {}
                    THEN Woken(pc, "asleep_write", "write") ELSE pc
    <3>1. pc' = Woken(w, "asleep_read", "read")
      BY <1>5, <2>2 DEF SjaIrq
    <3> HIDE DEF w
    <3>2. \A q \in Procs : pc'[q] # "asleep_read"
      BY <3>1, AllAwake
    <3> QED BY <3>2 DEF ReaderInv, Somebody
  <2>3. CASE ~(rx # <<>> \/ ints \cap {"BEI", "EPI"} # {} \/ "DOI" \in ints)
    <3>1. ErrorsOf(ints) = {}
      BY <2>3 DEF ErrorsOf, When
    <3>2. rf' = rf
      BY <1>5, <2>3, <3>1 DEF SjaIrq
    <3> QED BY <2>1, <3>2 DEF ReaderInv
  <2> QED BY <2>2, <2>3
<1>6. ASSUME NEW n \in 0 .. Block, NEW k \in 0 .. Block, NEW r \in BOOLEAN, UsbReadNotify(n, k, r)
      PROVE  ReaderInv'
  <2>1. Somebody("asleep_read")' => Somebody("asleep_read")
    BY <1>6, HandlerWakes, AwakeSleepers
  <2>2. CASE rf.nStored = 0
    <3>1. BlockOne(n, k).wakes
      BY <1>6, <2>2, UsbRead
    <3>2. BlockOne(n, k).wakes => pc' = Woken(pc, "asleep_read", "read")
      BY <1>6 DEF UsbReadNotify, BlockOne
    <3>3. \A q \in Procs : pc'[q] # "asleep_read"
      BY <3>1, <3>2, AllAwake
    <3> QED BY <3>3 DEF ReaderInv, Somebody
  <2>3. CASE rf.nStored # 0
    BY <2>1, <2>3 DEF ReaderInv
  <2> QED BY <2>2, <2>3
<1>7. ASSUME UsbWriteNotify PROVE ReaderInv'
  <2>1. Somebody("asleep_read")' => Somebody("asleep_read")
    BY <1>7, HandlerWakes, AwakeSleepers
  <2>2. UNCHANGED rf
    BY <1>7 DEF UsbWriteNotify
  <2> QED BY <2>1, <2>2 DEF ReaderInv
<1>8. ASSUME Outside PROVE ReaderInv'
  <2>1. UNCHANGED <<pc, rf>>
    BY <1>8 DEF Outside, Transmitted, BusTrouble, UsbWriteFailed, Unplug, Received, procs, queues
  <2> QED BY <2>1 DEF ReaderInv, Somebody
<1> QED BY StepsAre, <1>1, <1>2, <1>3, <1>4, <1>5, <1>6, <1>7, <1>8 DEF Outside

LEMMA WriterCalm ==
  ASSUME TypeInv, RunInv, WriterInv, Next, Calm(BusySet)'
  PROVE  /\ Calm(BusySet) /\ ucPhysicallyInstalled /\ \A e \in BusySet : e \notin trouble'
         /\ ~DataSendReady => Sends \/ Somebody("start")
         /\ wf.nStored > 0 => Sends \/ Somebody("pull") \/ Somebody("start")
         /\ Somebody("asleep_write") /\ wf.nStored = 0 => Sends
<1>1. trouble \subseteq trouble'
  BY TroubleGrows
<1>2. Calm(BusySet)
  BY <1>1, CalmBefore
<1>3. ucPhysicallyInstalled
  BY <1>2 DEF RunInv, Calm, BusySet
<1>4. \A e \in BusySet : e \notin trouble'
  BY DEF Calm
<1> QED BY <1>2, <1>3, <1>4 DEF WriterInv

\* While a process is in its critical place no other one is.
LEMMA Alone ==
  ASSUME TypeInv, RunInv, NEW p \in Procs, running \in {NoProc, p}
  PROVE  \A q \in Procs : pc[q] \in Locked => q = p
BY NoProcIsNone DEF RunInv, Locked

\* A step that sends ends in a state where the controller is busy.
LEMMA WriterSends ==
  ASSUME Sends'
  PROVE  WriterInv'
BY DEF WriterInv

WriterQuiet ==
  /\ Sends => Sends'
  /\ (DataSendReady => DataSendReady') /\ wf' = wf
  /\ Somebody("pull") => Somebody("pull")'
  /\ Somebody("start") => Somebody("start")'
  /\ wf.nStored = 0 => (Somebody("asleep_write")' => Somebody("asleep_write"))

LEMMA QuietWriter ==
  ASSUME TypeInv, RunInv, WriterInv, Next, WriterQuiet
  PROVE  WriterInv'
<1> SUFFICES ASSUME Calm(BusySet)'
             PROVE  /\ ~DataSendReady' => Sends' \/ Somebody("start")'
                    /\ wf'.nStored > 0 => Sends' \/ Somebody("pull")' \/ Somebody("start")'
                    /\ Somebody("asleep_write")' /\ wf'.nStored = 0 => Sends'
  BY DEF WriterInv
<1>1. /\ ~DataSendReady => Sends \/ Somebody("start")
      /\ wf.nStored > 0 => Sends \/ Somebody("pull") \/ Somebody("start")
      /\ Somebody("asleep_write") /\ wf.nStored = 0 => Sends
  BY WriterCalm
<1> QED BY <1>1 DEF WriterQuiet

LEMMA WriterNext ==
  ASSUME TypeInv, RunInv, WriterInv, Next
  PROVE  WriterInv'
<1>1. "pull" \in Locked /\ "start" \in Locked
  BY DEF Locked
<1>2. ASSUME NEW p \in Procs,
             \/ SleepForData(p) \/ Get(p) \/ Parse(p) \/ SleepForRoom(p) \/ WaitOver(p)
             \/ ClearStatus(p) \/ Interrupted(p) \/ CallStatus(p)
             \/ CallRead(p) \/ ReadRest(p)
             \/ \E m \in Messages : CallWrite(p, m)
             \/ \E l \in Lines : CallWriteText(p, l)
      PROVE  WriterInv'
  <2>1. Own(p)
    BY <1>2, OwnSteps
  <2>2. UNCHANGED <<tx, ints, wf>> /\ (DataSendReady => DataSendReady')
    <3>1. CASE WaitOver(p)
      BY <3>1 DEF WaitOver, chip
    <3>2. CASE ~WaitOver(p)
      <4>1. UNCHANGED <<DataSendReady, tx, ints, wf>>
        BY <1>2, <3>2 DEF SleepForData, Get, Parse, SleepForRoom, ClearStatus, Interrupted,
           CallStatus, CallRead, ReadRest, CallWrite, CallWriteText, queues, chip
      <4> QED BY <4>1
    <3> QED BY <3>1, <3>2
  <2>3. pc[p] \notin {"pull", "start"}
    BY <1>2 DEF SleepForData, Get, Parse, SleepForRoom, WaitOver, ClearStatus, Interrupted,
       CallStatus, CallRead, ReadRest, CallWrite, CallWriteText, May
  <2>4. pc'[p] # "asleep_write" \/ UNCHANGED pc \/ SleepForRoom(p)
    BY <1>2, ProcFacts DEF SleepForData, Get, Parse, WaitOver, ClearStatus, Interrupted,
       CallStatus, CallRead, ReadRest, CallWrite, CallWriteText
  <2>5. SleepForRoom(p) => wf.nStored # 0
    <3>1. wf.nCount = WCount /\ WCount > 1 /\ WCount \in Nat
      BY Sizes DEF TypeInv, RingTypes, Ring
    <3> QED BY <3>1 DEF SleepForRoom, MayPut, pcan_fifo_near_full
  <2>6. wf.nStored = 0 => (Somebody("asleep_write")' => Somebody("asleep_write"))
    BY <2>1, <2>4, <2>5, OwnSleepers DEF Somebody
  <2>7. WriterQuiet
    BY <1>1, <2>1, <2>2, <2>3, <2>6, OwnPlaces DEF WriterQuiet, Sends
  <2> QED BY <2>7, QuietWriter
<1>3. ASSUME NEW p \in Procs, Put(p) PROVE WriterInv'
  <2>1. Own(p) /\ pc[p] = "write" /\ UNCHANGED <<tx, ints, DataSendReady>>
    BY <1>3, OwnSteps DEF Put, May, device, chip
  <2>2. CASE pc'[p] = "pull"
    <3>1. wf'.nStored # 0
      <4> DEFINE m == [call[p].msg EXCEPT !.pos = Len(accepted) + 1]
      <4>1. call[p].msg \in Msgs /\ Len(accepted) + 1 \in Nat
        BY ProcFacts, Elements DEF TypeInv, HistTypes
      <4>2. m \in Msgs
        BY <4>1 DEF Msgs
      <4>3. wf' = pcan_fifo_put(wf, m) /\ ~Refuses(wf)
        BY <1>3, <2>2, ProcFacts DEF Put
      <4> HIDE DEF m
      <4>4. wf \in Ring(WCount, Msgs)
        BY DEF TypeInv, RingTypes
      <4>5. wf.nStored < WCount
        <5>1. (Refuses(wf) <=> wf.nStored = WCount) /\ WCount \in Nat
          BY <4>2, <4>4, Sizes, RingPut
        <5> QED BY <4>3, <5>1, WfSize
      <4>6. wf'.nStored = wf.nStored + 1
        BY <4>2, <4>3, <4>4, <4>5, Sizes, RingPut
      <4> QED BY <4>6, WfSize
    <3>2. Somebody("pull")' /\ (Somebody("start") => Somebody("start")')
      BY <1>1, <2>1, <2>2, OwnPlaces
    <3>3. Calm(BusySet)' => (~DataSendReady => Sends \/ Somebody("start"))
      BY WriterCalm
    <3> QED BY <2>1, <3>1, <3>2, <3>3 DEF WriterInv, Sends
  <2>3. CASE pc'[p] # "pull"
    <3>1. UNCHANGED wf /\ pc'[p] = "idle"
      BY <1>3, <2>3, ProcFacts DEF Put
    <3>2. Somebody("asleep_write")' => Somebody("asleep_write")
      BY <2>1, <3>1, OwnSleepers
    <3>3. WriterQuiet
      BY <1>1, <2>1, <3>1, <3>2, OwnPlaces DEF WriterQuiet, Sends
    <3> QED BY <3>3, QuietWriter
  <2> QED BY <2>2, <2>3
<1>4. ASSUME NEW p \in Procs, Claim(p) PROVE WriterInv'
  <2>1. Own(p) /\ pc[p] = "pull" /\ UNCHANGED <<tx, ints, wf>> /\ running \in {NoProc, p}
    BY <1>4, OwnSteps DEF Claim, May, chip
  <2>2. pc'[p] \in {"start", "parse", "idle"}
    BY <1>4, ProcFacts DEF Claim, Finish
  <2>3. Somebody("asleep_write")' => Somebody("asleep_write")
    BY <2>1, <2>2, OwnSleepers
  <2>4. CASE DataSendReady
    <3>1. pc'[p] = "start"
      BY <1>4, <2>4, ProcFacts DEF Claim
    <3>2. Somebody("start")'
      BY <1>1, <2>1, <3>1, OwnPlaces
    <3>3. Calm(BusySet)' => (Somebody("asleep_write") /\ wf.nStored = 0 => Sends)
      BY WriterCalm
    <3> QED BY <2>1, <2>3, <3>2, <3>3 DEF WriterInv, Sends
  <2>5. CASE ~DataSendReady
    <3>1. DataSendReady' = DataSendReady
      BY <1>4, <2>5 DEF Claim
    <3>2. ~Somebody("start")
      BY <2>1, Alone DEF Somebody, Locked
    <3>3. Calm(BusySet)' => Sends
      BY <2>5, <3>2, WriterCalm
    <3> QED BY <2>1, <3>1, <3>3 DEF WriterInv, Sends
  <2> QED BY <2>4, <2>5
<1>5. ASSUME sja1000_write PROVE tx' # <<>>
  BY <1>5 DEF sja1000_write
<1>6. ASSUME pcan_usb_submitted PROVE tx' # <<>>
  <2>1. Len(tx') = Encoded /\ Encoded \in 1 .. wf.nStored /\ wf.nStored \in Nat
    BY <1>6, SubmittedType, UsbEncodeType DEF pcan_usb_submitted
  <2> QED BY <2>1
<1>7. ASSUME NEW p \in Procs, StartWrite(p) PROVE WriterInv'
  <2>1. CASE sja1000_write \/ pcan_usb_submitted
    BY <1>5, <1>6, <2>1, WriterSends DEF Sends
  <2>2. CASE pcan_usb_refused
    BY <2>2 DEF pcan_usb_refused, WriterInv, Calm, BusySet
  <2>3. CASE ~(sja1000_write \/ pcan_usb_submitted \/ pcan_usb_refused)
    <3>1. /\ DataSendReady' = TRUE /\ UNCHANGED <<wf, tx, ints>>
          /\ ~pcan_fifo_empty(wf) \/ ~ucPhysicallyInstalled
      BY <1>7, <2>3 DEF StartWrite
    <3>2. pc'[p] # "asleep_write" /\ Own(p)
      <4>1. Finish(p, TRUE) \/ Finish(p, FALSE)
        BY <1>7 DEF StartWrite
      <4>2. pc'[p] # "asleep_write"
        BY <4>1, ProcFacts DEF Finish
      <4> QED BY <1>7, <4>2, OwnSteps
    <3>3. Somebody("asleep_write")' => Somebody("asleep_write")
      BY <3>2, OwnSleepers
    <3>4. Calm(BusySet)' => ~(wf.nStored > 0) /\ (Somebody("asleep_write") /\ wf.nStored = 0 => Sends)
      BY <3>1, WriterCalm DEF pcan_fifo_empty
    <3> QED BY <3>1, <3>3, <3>4 DEF WriterInv, Sends
  <2> QED BY <2>1, <2>2, <2>3
<1>8. ASSUME NEW p \in Procs, NEW e \in BOOLEAN, CallInit(p, e) PROVE WriterInv'
  <2>1. UNCHANGED <<DataSendReady, tx, ints>> /\ wf'.nStored = 0 /\ running \in {NoProc, p}
    BY <1>8, Sizes, RingReset DEF CallInit, chip, TypeInv, RingTypes, May
  <2>2. Own(p) /\ pc[p] = "idle" /\ pc'[p] = "wait_until_fifo_empty"
    BY <1>8, ProcFacts, OwnSteps DEF CallInit, May
  <2>3. (Somebody("start") => Somebody("start")') /\ (Somebody("asleep_write")' => Somebody("asleep_write"))
    BY <1>1, <2>2, OwnPlaces, OwnSleepers
  <2>4. ~Somebody("start") /\ ~Somebody("pull")
    BY <2>1, <2>2, Alone DEF Somebody, Locked
  <2>5. Calm(BusySet)' => /\ ~DataSendReady => Sends \/ Somebody("start")
                          /\ Somebody("asleep_write") => Sends
    <3>1. wf.nStored > 0 \/ wf.nStored = 0
      BY WfSize
    <3> QED BY <2>4, <3>1, WriterCalm
  <2> QED BY <2>1, <2>3, <2>5 DEF WriterInv, Sends
<1>9. ASSUME NEW p \in Procs, Reopen(p) PROVE WriterInv'
  <2>1. /\ UNCHANGED <<DataSendReady, wf>> /\ Own(p) /\ pc[p] = "reopen" /\ pc'[p] = "idle"
    BY <1>9, ProcFacts, OwnSteps DEF Reopen, queues, May
  <2>2. Calm(BusySet)' => ~Sends
    <3>1. SUFFICES ASSUME Calm(BusySet)', Sends PROVE FALSE
      OBVIOUS
    <3>2. ucPhysicallyInstalled /\ "open" \notin trouble' /\ "killed" \notin trouble'
      BY <3>1, WriterCalm DEF BusySet
    <3> QED BY <1>9, <3>1, <3>2 DEF Reopen, Once, When, Sends
  <2>3. /\ Somebody("start") => Somebody("start")'
        /\ Somebody("pull") => Somebody("pull")'
        /\ Somebody("asleep_write")' => Somebody("asleep_write")
    BY <1>1, <2>1, OwnPlaces, OwnSleepers
  <2>4. Calm(BusySet)' => /\ ~DataSendReady => Sends \/ Somebody("start")
                          /\ wf.nStored > 0 => Sends \/ Somebody("pull") \/ Somebody("start")
                          /\ Somebody("asleep_write") /\ wf.nStored = 0 => Sends
    BY WriterCalm
  <2> QED BY <2>1, <2>2, <2>3, <2>4 DEF WriterInv
<1>10. ASSUME NEW p \in Procs, InitLine(p) PROVE WriterInv'
  BY <1>10 DEF InitLine, WriterInv, Calm, BusySet
<1>11. ASSUME SjaIrq PROVE WriterInv'
  <2>1. /\ \A place \in Locked : Somebody(place)' <=> Somebody(place)
        /\ Somebody("asleep_write")' => Somebody("asleep_write")
    BY <1>11, HandlerWakes, AwakePlaces, AwakeSleepers
  <2>2. /\ DataSendReady' = (DataSendReady \/ Drained \/ ints \cap {"BEI", "EPI"} # {})
        /\ IF "TI" \in ints /\ ~Drained THEN sja1000_write ELSE UNCHANGED <<wf, tx, trouble>>
    BY <1>11 DEF SjaIrq
  <2>3. CASE "TI" \in ints /\ ~Drained
    BY <1>5, <2>2, <2>3, WriterSends DEF Sends
  <2>4. CASE "TI" \in ints /\ Drained
    <3> DEFINE w == Woken(pc, "asleep_write", "write")
    <3>1. pc' = w \/ pc' = Woken(w, "asleep_read", "read")
      BY <1>11, <2>4 DEF SjaIrq
    <3>2. \A q \in Procs : w[q] # "asleep_write"
      BY AllAwake
    <3>3. \A q \in Procs : Woken(w, "asleep_read", "read")[q] = IF w[q] = "asleep_read" THEN "read" ELSE w[q]
      BY WokenIs
    <3> HIDE DEF w
    <3>4. ~Somebody("asleep_write")'
      BY <3>1, <3>2, <3>3 DEF Somebody
    <3>5. DataSendReady' /\ UNCHANGED wf /\ ~(wf.nStored > 0)
      BY <2>2, <2>4 DEF Drained, pcan_fifo_empty
    <3> QED BY <3>4, <3>5 DEF WriterInv
  <2>5. CASE "TI" \notin ints
    <3>1. (Sends => Sends') /\ (DataSendReady => DataSendReady') /\ wf' = wf
      BY <2>2, <2>5 DEF Sends
    <3>2. WriterQuiet
      BY <1>1, <2>1, <3>1 DEF WriterQuiet
    <3> QED BY <3>2, QuietWriter
  <2> QED BY <2>3, <2>4, <2>5
<1>12. ASSUME UsbWriteNotify PROVE WriterInv'
  <2>1. CASE pcan_usb_submitted
    BY <1>6, <2>1, WriterSends DEF Sends
  <2>2. CASE pcan_usb_refused
    BY <2>2 DEF pcan_usb_refused, WriterInv, Calm, BusySet
  <2>3. CASE ~ucPhysicallyInstalled
    <3>1. ~Calm(BusySet)'
      BY <2>3, WriterCalm
    <3> QED BY <3>1 DEF WriterInv
  <2>4. CASE ~pcan_fifo_empty(wf) /\ DataSendReady' = TRUE /\ UNCHANGED wf
             /\ pc' = Woken(pc, "asleep_write", "write")
    <3>1. ~Somebody("asleep_write")'
      BY <2>4, AllAwake DEF Somebody
    <3> QED BY <2>4, <3>1 DEF WriterInv, pcan_fifo_empty
  <2> QED BY <1>12, <2>1, <2>2, <2>3, <2>4 DEF UsbWriteNotify
<1>13. ASSUME NEW n \in 0 .. Block, NEW k \in 0 .. Block, NEW r \in BOOLEAN, UsbReadNotify(n, k, r)
       PROVE  WriterInv'
  <2>1. /\ \A place \in Locked : Somebody(place)' <=> Somebody(place)
        /\ Somebody("asleep_write")' => Somebody("asleep_write")
    BY <1>13, HandlerWakes, AwakePlaces, AwakeSleepers
  <2>2. UNCHANGED <<DataSendReady, tx, wf>> /\ ints' = ints \cap {"TI"}
    BY <1>13 DEF UsbReadNotify
  <2>3. WriterQuiet
    BY <1>1, <2>1, <2>2 DEF WriterQuiet, Sends
  <2> QED BY <2>3, QuietWriter
<1>14. ASSUME Transmitted PROVE WriterInv'
  BY <1>14, WriterSends DEF Transmitted, Sends
<1>15. ASSUME UsbWriteFailed \/ Unplug PROVE WriterInv'
  BY <1>15 DEF UsbWriteFailed, Unplug, Once, WriterInv, Calm, BusySet
<1>16. ASSUME BusTrouble \/ \E f \in Frames : Received(f) PROVE WriterInv'
  <2>1. UNCHANGED <<pc, DataSendReady, tx, wf>> /\ ints \subseteq ints'
    BY <1>16 DEF BusTrouble, Received, procs, queues
  <2>2. WriterQuiet
    BY <2>1 DEF WriterQuiet, Sends, Somebody
  <2> QED BY <2>2, QuietWriter
<1> QED BY StepsAre, <1>2, <1>3, <1>4, <1>7, <1>8, <1>9, <1>10, <1>11, <1>12, <1>13, <1>14, <1>15, <1>16

LEMMA BusyStutter ==
  ASSUME BusyInv, UNCHANGED vars
  PROVE  BusyInv'
BY DEF BusyInv, Calm, Somebody, Sends, Busy, vars, queues, chip, procs, history

(***************************************************************************)
(* Nobody sleeps for what is there: no reader while readFifo holds a       *)
(* message, and no writer, nor a message in writeFifo, without a frame     *)
(* under way, its interrupt or completion pending, or a process that is    *)
(* about to start it.                                                      *)
(***************************************************************************)
THEOREM CharNoLostWakeup == Spec => []NoLostWakeup
<1> DEFINE IInv == TypeInv /\ RunInv /\ BusyInv
<1>1. Init => IInv
  <2>1. Init => RunInv
    BY NoProcIsNone DEF Init, RunInv
  <2>2. Init => BusyInv
    <3>1. Empty \in Msgs
      BY DEF Empty, Msgs, Types
    <3>2. pcan_fifo_init(WCount, Empty).nStored = 0
      BY <3>1, Sizes, RingInit
    <3> QED BY <3>2 DEF Init, BusyInv, Somebody
  <2> QED BY <2>1, <2>2, InitTypes
<1>2. IInv /\ [Next]_vars => IInv'
  <2>1. IInv /\ Next => IInv'
    <3> SUFFICES ASSUME TypeInv, RunInv, BusyInv, Next PROVE TypeInv' /\ RunInv' /\ BusyInv'
      OBVIOUS
    <3>1. ReaderInv /\ WriterInv
      BY BusyParts
    <3>2. ReaderInv' /\ WriterInv'
      BY <3>1, ReaderNext, WriterNext
    <3>3. BusyInv'
      BY <3>2 DEF BusyInv, ReaderInv, WriterInv, BusySet, Busy, Sends, Somebody
    <3> QED BY <3>3, TypeNext, RunNext
  <2>2. IInv /\ UNCHANGED vars => IInv'
    BY TypeStutter, RunStutter, BusyStutter
  <2> QED BY <2>1, <2>2
<1>3. IInv => NoLostWakeup
  <2> SUFFICES ASSUME TypeInv, BusyInv PROVE NoLostWakeup
    OBVIOUS
  <2>1. wf.nStored > 0 \/ wf.nStored = 0
    BY WfSize
  <2> QED BY <2>1 DEF NoLostWakeup, BusyInv, Somebody, Sends, Busy
<1> HIDE DEF IInv
<1> QED BY <1>1, <1>2, <1>3, PTL DEF Spec

----------------------------------------------------------------------------
(* What is under way: on the bus, with the controller, in writeFifo.       *)

LossSet == {"reset", "reinit", "open", "overwritten", "submit", "urb", "unplug"}

LEMMA WFacts ==
  ASSUME TypeInv
  PROVE  /\ W \in Seq(Msgs) /\ Len(W) = wf.nStored /\ Len(W) \in Nat
         /\ wf \in Ring(WCount, Msgs) /\ tx \in Seq(Sendings) /\ Len(tx) \in Nat
         /\ bus \in Seq(OnBusTypes) /\ Len(bus) \in Nat
         /\ accepted \in Seq(Msgs) /\ Len(accepted) \in Nat
<1>1. /\ wf \in Ring(WCount, Msgs) /\ tx \in Seq(Sendings) /\ bus \in Seq(OnBusTypes)
      /\ accepted \in Seq(Msgs)
  BY DEF TypeInv, RingTypes, ChipTypes, HistTypes, Sendings, OnBusTypes
<1>2. W \in Seq(Msgs) /\ Len(W) = wf.nStored
  BY <1>1, Sizes, ContentsAre DEF W
<1> QED BY <1>1, <1>2, Elements

\* The four things a step may do: put, take k messages, transmit, discard.
PutStep(m) ==
  /\ W' = Append(W, m) /\ accepted' = Append(accepted, m) /\ m.pos = Len(accepted) + 1
  /\ UNCHANGED <<bus, tx>>
TakeStep(k) ==
  /\ Len(W') = Len(W) - k /\ \A i \in 1 .. Len(W) - k : W'[i] = W[i + k]
  /\ UNCHANGED <<bus, accepted>>
  /\ \/ /\ tx = <<>> /\ Len(tx') = k
        /\ \A i \in 1 .. k : tx'[i] = [regs |-> RegsOf(W[i]), pos |-> W[i].pos]
     \/ tx' = tx /\ ~Calm(LossSet)'
MoveStep ==
  /\ tx' = <<>> /\ UNCHANGED <<wf, accepted>> /\ Len(bus') = Len(bus) + Len(tx)
  /\ \A i \in 1 .. Len(bus) : bus'[i] = bus[i]
  /\ \A i \in 1 .. Len(tx) : bus'[Len(bus) + i] = OnBus(tx[i])
DropStep ==
  /\ UNCHANGED <<bus, accepted>> /\ tx' \in {tx, <<>>} /\ W' \in {W, <<>>}
  /\ (tx' = tx /\ W' = W) \/ ~Calm(LossSet)'

SendStep ==
  \/ \E m \in Msgs : PutStep(m)
  \/ \E k \in 1 .. Len(W) : TakeStep(k)
  \/ MoveStep \/ DropStep

LEMMA PutPuts ==
  ASSUME TypeInv, NEW p \in Procs, Put(p), pc'[p] = "pull"
  PROVE  PutStep([call[p].msg EXCEPT !.pos = Len(accepted) + 1])
         /\ [call[p].msg EXCEPT !.pos = Len(accepted) + 1] \in Msgs
         /\ ucPhysicallyInstalled
<1> DEFINE m == [call[p].msg EXCEPT !.pos = Len(accepted) + 1]
<1>1. call[p].msg \in Msgs /\ Len(accepted) + 1 \in Nat
  BY ProcFacts, Elements DEF TypeInv, HistTypes
<1>2. m \in Msgs /\ m.pos = Len(accepted) + 1
  BY <1>1 DEF Msgs
<1>3. /\ wf' = pcan_fifo_put(wf, m) /\ ~Refuses(wf) /\ accepted' = Append(accepted, m)
      /\ ucPhysicallyInstalled /\ UNCHANGED <<bus, tx>>
  BY ProcFacts DEF Put, chip
<1> HIDE DEF m
<1>4. wf \in Ring(WCount, Msgs) /\ WCount \in Nat \ {0}
  BY WFacts, Sizes
<1>5. (Refuses(wf) <=> wf.nStored = WCount) /\ wf.nStored \in 0 .. WCount
  BY <1>2, <1>4, RingPut, WfSize
<1>6. wf.nStored < WCount
  BY <1>3, <1>4, <1>5
<1>7. Contents(pcan_fifo_put(wf, m)) = Append(Contents(wf), m)
  BY <1>2, <1>4, <1>6, RingPut
<1>8. W' = Append(W, m)
  BY <1>3, <1>7 DEF W
<1>9. PutStep(m)
  BY <1>2, <1>3, <1>8 DEF PutStep
<1> QED BY <1>2, <1>3, <1>9 DEF m

LEMMA SjaTakes ==
  ASSUME TypeInv, TypeInv', sja1000_write, ~Usb, UNCHANGED <<bus, accepted>>
  PROVE  1 \in 1 .. Len(W) /\ TakeStep(1)
<1>1. /\ wf \in Ring(WCount, Msgs) /\ wf.nStored > 0 /\ wf' = pcan_fifo_get(wf)
      /\ FirstOf(wf) = Contents(wf)[1]
  BY SjaWriteType, WFacts
<1>2. \A i \in 1 .. wf.nStored - 1 : Contents(pcan_fifo_get(wf))[i] = Contents(wf)[i + 1]
  BY <1>1, Sizes, RingGet
<1>3. wf'.nStored = wf.nStored - 1
  BY SjaWriteType
<1>4. Len(W') = wf'.nStored /\ Len(W) = wf.nStored /\ wf.nStored \in Nat
  <2>1. wf' \in Ring(WCount, Msgs)
    BY SjaWriteType
  <2>2. Len(Contents(wf')) = wf'.nStored
    BY <2>1, Sizes, ContentsAre
  <2> QED BY <2>2, WFacts DEF W
<1>5. \A i \in 1 .. Len(W) - 1 : W'[i] = W[i + 1]
  BY <1>1, <1>2, <1>4 DEF W
<1>6. \/ /\ tx = <<>> /\ tx' = <<[regs |-> RegsOf(W[1]), pos |-> W[1].pos]>>
      \/ tx' = tx /\ ~Calm(LossSet)'
  <2>1. CASE tx = <<>>
    BY <1>1, <2>1 DEF sja1000_write, RegsOf, W
  <2>2. CASE tx # <<>>
    BY <2>2 DEF sja1000_write, Calm, LossSet
  <2> QED BY <2>1, <2>2
<1>7. ASSUME tx = <<>>, tx' = <<[regs |-> RegsOf(W[1]), pos |-> W[1].pos]>>
      PROVE  Len(tx') = 1 /\ \A i \in 1 .. 1 : tx'[i] = [regs |-> RegsOf(W[i]), pos |-> W[i].pos]
  <2>1. Len(tx') = 1 /\ tx'[1] = [regs |-> RegsOf(W[1]), pos |-> W[1].pos]
    BY <1>7
  <2>2. \A i \in 1 .. 1 : i = 1
    OBVIOUS
  <2> QED BY <2>1, <2>2
<1>8. TakeStep(1)
  BY <1>3, <1>4, <1>5, <1>6, <1>7 DEF TakeStep
<1> QED BY <1>1, <1>4, <1>8

LEMMA UsbTakes ==
  ASSUME TypeInv, pcan_usb_submitted \/ pcan_usb_refused, Usb, UNCHANGED <<bus, accepted>>
  PROVE  Encoded \in 1 .. Len(W) /\ TakeStep(Encoded)
<1>1. pcan_usb_encode
  BY DEF pcan_usb_submitted, pcan_usb_refused
<1>2. /\ wf' \in Ring(WCount, Msgs) /\ Encoded \in 1 .. wf.nStored
      /\ wf'.nStored = wf.nStored - Encoded /\ wf.nStored \in Nat
      /\ \A i \in 1 .. wf.nStored - Encoded : Contents(wf')[i] = Contents(wf)[i + Encoded]
  BY <1>1, UsbEncodeType
<1>3. Len(W') = wf'.nStored /\ Len(W) = wf.nStored
  <2>1. Len(Contents(wf')) = wf'.nStored
    BY <1>2, Sizes, ContentsAre
  <2> QED BY <2>1, WFacts DEF W
<1>4. \A i \in 1 .. Len(W) - Encoded : W'[i] = W[i + Encoded]
  BY <1>2, <1>3 DEF W
<1>5. \/ /\ tx = <<>> /\ Len(tx') = Encoded
         /\ \A i \in 1 .. Encoded : tx'[i] = [regs |-> RegsOf(W[i]), pos |-> W[i].pos]
      \/ tx' = tx /\ ~Calm(LossSet)'
  <2>1. CASE pcan_usb_submitted
    <3>1. tx = <<>> /\ \A m : RegsOf(m) = pcan_hw_EncodeMessage(m)
      BY <2>1 DEF pcan_usb_submitted, RegsOf
    <3> QED BY <2>1, <3>1, SubmittedType
  <2>2. CASE pcan_usb_refused
    BY <2>2 DEF pcan_usb_refused, Calm, LossSet
  <2> QED BY <2>1, <2>2
<1>6. TakeStep(Encoded)
  BY <1>2, <1>3, <1>4, <1>5 DEF TakeStep
<1> QED BY <1>2, <1>3, <1>6

LEMMA SendSteps ==
  ASSUME TypeInv, TypeInv', RunInv, Next
  PROVE  SendStep
<1>1. ASSUME NEW p \in Procs,
             \/ SleepForData(p) \/ Get(p) \/ Parse(p) \/ SleepForRoom(p) \/ Claim(p) \/ WaitOver(p)
             \/ ClearStatus(p) \/ Interrupted(p) \/ CallStatus(p)
             \/ CallRead(p) \/ ReadRest(p)
             \/ \E m \in Messages : CallWrite(p, m)
             \/ \E l \in Lines : CallWriteText(p, l)
      PROVE  UNCHANGED <<bus, accepted, tx, wf>>
  BY <1>1 DEF SleepForData, Get, Parse, SleepForRoom, Claim, WaitOver, ClearStatus, Interrupted,
     CallStatus, CallRead, ReadRest, CallWrite, CallWriteText, queues, chip, history
<1>2. ASSUME NEW p \in Procs, Put(p) PROVE SendStep
  <2>1. CASE pc'[p] = "pull"
    BY <1>2, <2>1, PutPuts DEF SendStep
  <2>2. CASE pc'[p] # "pull"
    <3>1. UNCHANGED <<bus, accepted, tx, wf>>
      BY <1>2, <2>2, ProcFacts DEF Put, chip
    <3> QED BY <3>1 DEF SendStep, DropStep, W
  <2> QED BY <2>1, <2>2
<1>3. ASSUME NEW p \in Procs, StartWrite(p) PROVE SendStep
  <2>1. UNCHANGED <<bus, accepted>>
    BY <1>3 DEF StartWrite
  <2>2. \/ (~Usb /\ sja1000_write)
        \/ (Usb /\ (pcan_usb_submitted \/ pcan_usb_refused))
        \/ UNCHANGED <<tx, wf>>
    BY <1>3, Zenon DEF StartWrite
  <2>3. CASE UNCHANGED <<tx, wf>>
    BY <2>1, <2>3 DEF SendStep, DropStep, W
  <2> QED BY <2>1, <2>2, <2>3, SjaTakes, UsbTakes DEF SendStep
<1>4. ASSUME SjaIrq PROVE SendStep
  <2>1. UNCHANGED <<bus, accepted>> /\ ~Usb /\ (sja1000_write \/ UNCHANGED <<tx, wf>>)
    BY <1>4 DEF SjaIrq
  <2>2. CASE UNCHANGED <<tx, wf>>
    BY <2>1, <2>2 DEF SendStep, DropStep, W
  <2> QED BY <2>1, <2>2, SjaTakes DEF SendStep
<1>5. ASSUME UsbWriteNotify PROVE SendStep
  <2>1. UNCHANGED <<bus, accepted>> /\ Usb
        /\ (pcan_usb_submitted \/ pcan_usb_refused \/ UNCHANGED <<tx, wf>>)
    BY <1>5 DEF UsbWriteNotify
  <2>2. CASE UNCHANGED <<tx, wf>>
    BY <2>1, <2>2 DEF SendStep, DropStep, W
  <2> QED BY <2>1, <2>2, UsbTakes DEF SendStep
<1>6. ASSUME NEW p \in Procs, \/ Reopen(p) \/ InitLine(p) \/ \E e \in BOOLEAN : CallInit(p, e)
      PROVE  SendStep
  <2>1. UNCHANGED <<bus, accepted>>
    BY <1>6 DEF Reopen, InitLine, CallInit
  <2>2. tx' \in {tx, <<>>}
    BY <1>6 DEF Reopen, InitLine, CallInit, chip, ChipReset
  <2>3. W' \in {W, <<>>}
    <3>1. Contents(pcan_fifo_reset(wf)) = <<>>
      BY Sizes, RingReset, WFacts
    <3>2. wf' = pcan_fifo_reset(wf) \/ wf' = wf
      BY <1>6 DEF Reopen, InitLine, CallInit, queues
    <3> QED BY <3>1, <3>2 DEF W
  <2>4. ~Calm(LossSet)'
    <3>1. "reset" \in trouble' \/ "reinit" \in trouble'
      <4>1. Reopen(p) => "reset" \in trouble /\ trouble \subseteq trouble'
        BY TroubleGrows DEF RunInv, Reopen, May
      <4>2. InitLine(p) => "reinit" \in trouble'
        BY DEF InitLine
      <4>3. (\E e \in BOOLEAN : CallInit(p, e)) => "reset" \in trouble'
        BY DEF CallInit, Once
      <4> QED BY <1>6, <4>1, <4>2, <4>3
    <3> QED BY <3>1 DEF Calm, LossSet
  <2> QED BY <2>1, <2>2, <2>3, <2>4 DEF SendStep, DropStep
<1>7. ASSUME Transmitted PROVE SendStep
  <2>1. /\ Len(bus') = Len(bus) + Len(tx)
        /\ \A i \in 1 .. Len(bus) : bus'[i] = bus[i]
        /\ \A i \in 1 .. Len(tx) : bus'[Len(bus) + i] = OnBus(tx[i])
    BY <1>7, TransmittedBus
  <2>2. tx' = <<>> /\ UNCHANGED <<wf, accepted>>
    BY <1>7 DEF Transmitted, queues
  <2> QED BY <2>1, <2>2 DEF SendStep, MoveStep
<1>8. ASSUME UsbWriteFailed \/ Unplug PROVE SendStep
  <2>1. /\ tx' = <<>> /\ UNCHANGED <<wf, accepted, bus>>
        /\ "urb" \in trouble' \/ "unplug" \in trouble'
    BY <1>8 DEF UsbWriteFailed, Unplug, Once, queues
  <2> QED BY <2>1 DEF SendStep, DropStep, Calm, LossSet, W
<1>9. ASSUME \/ \E n, k \in 0 .. Block, r \in BOOLEAN : UsbReadNotify(n, k, r)
             \/ BusTrouble \/ \E f \in Frames : Received(f)
      PROVE  UNCHANGED <<bus, accepted, tx, wf>>
  BY <1>9, ZenonT(60) DEF UsbReadNotify, BusTrouble, Received, queues
<1>10. ASSUME UNCHANGED <<bus, accepted, tx, wf>> PROVE SendStep
  BY <1>10 DEF SendStep, DropStep, W
<1> QED BY StepsAre, <1>1, <1>2, <1>3, <1>4, <1>5, <1>6, <1>7, <1>8, <1>9, <1>10

LEMMA HwKept ==
  ASSUME Next
  PROVE  hw' = hw
<1>1. ASSUME NEW p \in Procs,
             \/ SleepForData(p) \/ Get(p) \/ Parse(p) \/ InitLine(p) \/ SleepForRoom(p)
             \/ Put(p) \/ Claim(p) \/ StartWrite(p) \/ WaitOver(p) \/ Reopen(p)
             \/ ClearStatus(p) \/ Interrupted(p) \/ CallStatus(p)
             \/ CallRead(p) \/ ReadRest(p)
             \/ \E e \in BOOLEAN : CallInit(p, e)
             \/ \E m \in Messages : CallWrite(p, m)
             \/ \E l \in Lines : CallWriteText(p, l)
      PROVE  hw' = hw
  BY <1>1 DEF SleepForData, Get, Parse, InitLine, SleepForRoom, Put, Claim, StartWrite, WaitOver,
     Reopen, ClearStatus, Interrupted, CallStatus, CallRead, ReadRest, CallInit, CallWrite,
     CallWriteText, device
<1>2. ASSUME \/ SjaIrq \/ UsbWriteNotify \/ \E n, k \in 0 .. Block, r \in BOOLEAN : UsbReadNotify(n, k, r)
             \/ Transmitted \/ BusTrouble \/ UsbWriteFailed \/ Unplug
             \/ \E f \in Frames : Received(f)
      PROVE  hw' = hw
  BY <1>2, ZenonT(60) DEF SjaIrq, UsbWriteNotify, UsbReadNotify, Transmitted, BusTrouble, UsbWriteFailed, Unplug,
     Received, device
<1> QED BY StepsAre, <1>1, <1>2

LEMMA AppendIs ==
  ASSUME NEW S, NEW s \in Seq(S), NEW e \in S
  PROVE  /\ Append(s, e) \in Seq(S) /\ Len(s) \in Nat /\ Len(Append(s, e)) = Len(s) + 1
         /\ \A i \in 1 .. Len(s) : Append(s, e)[i] = s[i]
         /\ Append(s, e)[Len(s) + 1] = e
OBVIOUS

\* Positions grow: the four kinds of step.
LEMMA OrderPut ==
  ASSUME TypeInv, OrderInv, NEW m \in Msgs, PutStep(m)
  PROVE  OrderInv'
<1>1. /\ Len(W') = Len(W) + 1 /\ Len(W) \in Nat
      /\ \A i \in 1 .. Len(W) : W'[i] = W[i]
      /\ W'[Len(W) + 1] = m
  BY WFacts, AppendIs DEF PutStep
<1>2. Len(accepted') = Len(accepted) + 1 /\ Len(accepted) \in Nat
  BY WFacts, AppendIs DEF PutStep
<1>3. m.pos = Len(accepted) + 1 /\ bus' = bus /\ tx' = tx
  BY DEF PutStep
<1>4. Inc(bus)' /\ Inc(tx)' /\ Before(bus, tx)'
  BY <1>3 DEF OrderInv, Inc, Before
<1>5. Within(bus)' /\ Within(tx)'
  BY <1>2, <1>3 DEF OrderInv, Within
<1>6. Within(W)'
  <2> SUFFICES ASSUME NEW i \in 1 .. Len(W) + 1 PROVE W'[i].pos \in 1 .. Len(accepted')
    BY <1>1 DEF Within
  <2>1. CASE i = Len(W) + 1
    BY <1>1, <1>2, <1>3, <2>1
  <2>2. CASE i \in 1 .. Len(W)
    BY <1>1, <1>2, <2>2 DEF OrderInv, Within
  <2> QED BY <1>1, <2>1, <2>2
<1>7. Inc(W)'
  <2> SUFFICES ASSUME NEW i \in 1 .. Len(W) + 1, NEW j \in 1 .. Len(W) + 1, i < j
               PROVE  W'[i].pos < W'[j].pos
    BY <1>1 DEF Inc
  <2>1. i \in 1 .. Len(W) /\ W'[i] = W[i] /\ W[i].pos \in 1 .. Len(accepted)
    BY <1>1 DEF OrderInv, Within
  <2>2. CASE j = Len(W) + 1
    BY <1>1, <1>2, <1>3, <2>1, <2>2
  <2>3. CASE j \in 1 .. Len(W)
    BY <1>1, <2>1, <2>3 DEF OrderInv, Inc
  <2> QED BY <1>1, <2>2, <2>3
<1>8. ASSUME NEW s, Within(s), Before(s, W)
      PROVE  \A i \in 1 .. Len(s), j \in 1 .. Len(W') : s[i].pos < W'[j].pos
  <2> SUFFICES ASSUME NEW i \in 1 .. Len(s), NEW j \in 1 .. Len(W) + 1
               PROVE  s[i].pos < W'[j].pos
    BY <1>1
  <2>1. s[i].pos \in 1 .. Len(accepted)
    BY <1>8 DEF Within
  <2>2. CASE j = Len(W) + 1
    BY <1>1, <1>2, <1>3, <2>1, <2>2
  <2>3. CASE j \in 1 .. Len(W)
    BY <1>1, <1>8, <2>3 DEF Before
  <2> QED BY <1>1, <2>2, <2>3
<1>9. Before(bus, W)' /\ Before(tx, W)'
  BY <1>3, <1>8 DEF OrderInv, Before
<1> QED BY <1>4, <1>5, <1>6, <1>7, <1>9 DEF OrderInv

LEMMA OrderTake ==
  ASSUME TypeInv, OrderInv, NEW k \in 1 .. Len(W), TakeStep(k)
  PROVE  OrderInv'
<1>1. Len(W) \in Nat /\ Len(tx) \in Nat /\ Len(bus) \in Nat /\ Len(accepted) \in Nat
  BY WFacts
<1>2. /\ Len(W') = Len(W) - k /\ k \in Nat
      /\ \A i \in 1 .. Len(W') : i + k \in 1 .. Len(W) /\ W'[i] = W[i + k]
  BY <1>1 DEF TakeStep
<1>3. bus' = bus /\ accepted' = accepted
  BY DEF TakeStep
<1>4. Inc(bus)' /\ Within(bus)'
  BY <1>3 DEF OrderInv, Inc, Within
<1>5. Within(W)'
  BY <1>2, <1>3 DEF OrderInv, Within
<1>6. Inc(W)'
  <2> SUFFICES ASSUME NEW i \in 1 .. Len(W'), NEW j \in 1 .. Len(W'), i < j
               PROVE  W'[i].pos < W'[j].pos
    BY DEF Inc
  <2>1. i + k \in 1 .. Len(W) /\ j + k \in 1 .. Len(W) /\ i + k < j + k
    BY <1>1, <1>2
  <2> QED BY <1>2, <2>1 DEF OrderInv, Inc
<1>7. Before(bus, W)'
  BY <1>2, <1>3 DEF OrderInv, Before
<1>8. ASSUME tx' = tx PROVE OrderInv'
  <2>1. Inc(tx)' /\ Before(bus, tx)' /\ Within(tx)'
    BY <1>3, <1>8 DEF OrderInv, Inc, Before, Within
  <2>2. Before(tx, W)'
    BY <1>2, <1>8 DEF OrderInv, Before
  <2> QED BY <1>4, <1>5, <1>6, <1>7, <2>1, <2>2 DEF OrderInv
<1>9. ASSUME Len(tx') = k,
             \A i \in 1 .. k : tx'[i] = [regs |-> RegsOf(W[i]), pos |-> W[i].pos]
      PROVE  OrderInv'
  <2>1. \A i \in 1 .. k : i \in 1 .. Len(W) /\ tx'[i].pos = W[i].pos
    BY <1>1, <1>9
  <2>2. Inc(tx)'
    BY <1>9, <2>1 DEF OrderInv, Inc
  <2>3. Within(tx)' /\ Before(bus, tx)'
    BY <1>3, <1>9, <2>1 DEF OrderInv, Within, Before
  <2>4. Before(tx, W)'
    <3> SUFFICES ASSUME NEW i \in 1 .. k, NEW j \in 1 .. Len(W') PROVE tx'[i].pos < W'[j].pos
      BY <1>9 DEF Before
    <3>1. i \in 1 .. Len(W) /\ j + k \in 1 .. Len(W) /\ i < j + k
      BY <1>1, <1>2
    <3>2. W[i].pos < W[j + k].pos
      BY <3>1 DEF OrderInv, Inc
    <3> QED BY <1>2, <2>1, <3>2
  <2> QED BY <1>4, <1>5, <1>6, <1>7, <2>2, <2>3, <2>4 DEF OrderInv
<1> QED BY <1>8, <1>9 DEF TakeStep

LEMMA OrderMove ==
  ASSUME TypeInv, OrderInv, MoveStep
  PROVE  OrderInv'
<1>1. Len(W) \in Nat /\ Len(tx) \in Nat /\ Len(bus) \in Nat
  BY WFacts
<1>2. /\ tx' = <<>> /\ W' = W /\ accepted' = accepted /\ Len(bus') = Len(bus) + Len(tx)
      /\ \A i \in 1 .. Len(bus) : bus'[i] = bus[i]
      /\ \A i \in 1 .. Len(tx) : bus'[Len(bus) + i].pos = tx[i].pos
  <2>1. \A t : OnBus(t).pos = t.pos
    BY DEF OnBus
  <2> QED BY <2>1 DEF MoveStep, W
<1>3. \A i \in 1 .. Len(bus') : \/ i \in 1 .. Len(bus)
                                \/ i - Len(bus) \in 1 .. Len(tx) /\ i = Len(bus) + (i - Len(bus))
  BY <1>1, <1>2
<1>4. ASSUME NEW i \in 1 .. Len(bus')
      PROVE  \/ i \in 1 .. Len(bus) /\ bus'[i].pos = bus[i].pos
             \/ i - Len(bus) \in 1 .. Len(tx) /\ bus'[i].pos = tx[i - Len(bus)].pos
  <2>1. CASE i \in 1 .. Len(bus)
    BY <1>2, <2>1
  <2>2. CASE i - Len(bus) \in 1 .. Len(tx) /\ i = Len(bus) + (i - Len(bus))
    <3> DEFINE k == i - Len(bus)
    <3>1. k \in 1 .. Len(tx) /\ i = Len(bus) + k
      BY <2>2
    <3> HIDE DEF k
    <3>2. bus'[i].pos = tx[k].pos
      BY <1>2, <3>1
    <3> QED BY <3>1, <3>2 DEF k
  <2> QED BY <1>3, <2>1, <2>2
<1>5. Inc(tx)' /\ Within(tx)' /\ Before(tx, W)' /\ Before(bus, tx)' /\ Inc(W)' /\ Within(W)'
  BY <1>2 DEF OrderInv, Inc, Within, Before
<1>6. Within(bus)'
  BY <1>2, <1>4 DEF OrderInv, Within
<1>7. Before(bus, W)'
  BY <1>2, <1>4 DEF OrderInv, Before
<1>8. Inc(bus)'
  <2> SUFFICES ASSUME NEW i \in 1 .. Len(bus'), NEW j \in 1 .. Len(bus'), i < j
               PROVE  bus'[i].pos < bus'[j].pos
    BY DEF Inc
  <2>1. CASE i \in 1 .. Len(bus) /\ j \in 1 .. Len(bus)
    BY <1>2, <2>1 DEF OrderInv, Inc
  <2>2. CASE i \in 1 .. Len(bus) /\ j \notin 1 .. Len(bus)
    BY <1>2, <1>4, <2>2 DEF OrderInv, Before
  <2>3. CASE i \notin 1 .. Len(bus) /\ j \notin 1 .. Len(bus)
    <3>1. i - Len(bus) \in 1 .. Len(tx) /\ j - Len(bus) \in 1 .. Len(tx) /\ i - Len(bus) < j - Len(bus)
      BY <1>1, <1>3, <2>3
    <3>2. tx[i - Len(bus)].pos < tx[j - Len(bus)].pos
      BY <3>1 DEF OrderInv, Inc
    <3> QED BY <1>4, <2>3, <3>2
  <2> QED BY <1>1, <2>1, <2>2, <2>3
<1> QED BY <1>5, <1>6, <1>7, <1>8 DEF OrderInv

LEMMA OrderDrop ==
  ASSUME TypeInv, OrderInv, DropStep
  PROVE  OrderInv'
<1>1. bus' = bus /\ accepted' = accepted /\ Len(<<>>) = 0
  BY DEF DropStep
<1>2. ASSUME NEW s, NEW t \in {s, <<>>}, Inc(s), Within(s)
      PROVE  Inc(t) /\ Within(t)
  BY <1>2 DEF Inc, Within
<1>3. ASSUME NEW s, NEW t \in {s, <<>>}, NEW u, NEW v \in {u, <<>>}, Before(s, u)
      PROVE  Before(t, v)
  BY <1>3 DEF Before
<1>4. /\ Inc(bus) /\ Inc(tx') /\ Inc(W')
      /\ Within(bus) /\ Within(tx') /\ Within(W')
  BY <1>2 DEF DropStep, OrderInv
<1>5. Before(bus, tx') /\ Before(bus, W') /\ Before(tx', W')
  <2>1. bus \in {bus, <<>>} /\ tx' \in {tx, <<>>} /\ W' \in {W, <<>>}
    BY DEF DropStep
  <2>2. Before(bus, tx) /\ Before(bus, W) /\ Before(tx, W)
    BY DEF OrderInv
  <2> QED BY <1>3, <2>1, <2>2
<1>6. Inc(bus)' /\ Inc(tx)' /\ Inc(W)' /\ Within(bus)' /\ Within(tx)' /\ Within(W)'
  BY <1>1, <1>4 DEF Inc, Within
<1>7. Before(bus, tx)' /\ Before(bus, W)' /\ Before(tx, W)'
  BY <1>1, <1>5 DEF Before
<1> QED BY <1>6, <1>7 DEF OrderInv

LEMMA OrderNext ==
  ASSUME TypeInv, OrderInv, SendStep
  PROVE  OrderInv'
BY OrderPut, OrderTake, OrderMove, OrderDrop DEF SendStep

\* What is under way is what was accepted: the four kinds of step.
AsAccepted ==
  /\ \A i \in 1 .. Len(accepted) : accepted[i].pos = i
  /\ \A i \in 1 .. Len(W) : W[i] = accepted[W[i].pos]
  /\ \A i \in 1 .. Len(tx) : tx[i].regs = RegsOf(accepted[tx[i].pos])
  /\ \A i \in 1 .. Len(bus) :
       bus[i] = OnBus([regs |-> RegsOf(accepted[bus[i].pos]), pos |-> bus[i].pos])
Complete == Len(bus) + Len(tx) + Len(W) = Len(accepted)

LEMMA ContentParts ==
  ASSUME TypeInv
  PROVE  ContentInv <=> AsAccepted /\ (Calm(LossSet) => Complete)
BY WFacts DEF ContentInv, AsAccepted, Complete, LossSet

LEMMA SameCodec ==
  ASSUME hw' = hw
  PROVE  /\ \A m : RegsOf(m)' = RegsOf(m)
         /\ \A t : OnBus(t)' = OnBus(t)
<1>1. Usb' = Usb
  BY DEF Usb
<1> QED BY <1>1 DEF RegsOf, OnBus

LEMMA ContentPut ==
  ASSUME TypeInv, OrderInv, AsAccepted, hw' = hw, NEW m \in Msgs, PutStep(m)
  PROVE  AsAccepted' /\ (Complete => Complete')
<1>1. /\ Len(W') = Len(W) + 1 /\ Len(W) \in Nat
      /\ \A i \in 1 .. Len(W) : W'[i] = W[i]
      /\ W'[Len(W) + 1] = m
  BY WFacts, AppendIs DEF PutStep
<1>2. /\ Len(accepted') = Len(accepted) + 1 /\ Len(accepted) \in Nat
      /\ \A i \in 1 .. Len(accepted) : accepted'[i] = accepted[i]
      /\ accepted'[Len(accepted) + 1] = m
  BY WFacts, AppendIs DEF PutStep
<1>3. m.pos = Len(accepted) + 1 /\ bus' = bus /\ tx' = tx
  BY DEF PutStep
<1>4. Len(bus) \in Nat /\ Len(tx) \in Nat
  BY WFacts
<1>5. \A i \in 1 .. Len(accepted') : accepted'[i].pos = i
  <2> SUFFICES ASSUME NEW i \in 1 .. Len(accepted) + 1 PROVE accepted'[i].pos = i
    BY <1>2
  <2>1. CASE i = Len(accepted) + 1
    BY <1>2, <1>3, <2>1
  <2>2. CASE i \in 1 .. Len(accepted)
    BY <1>2, <2>2 DEF AsAccepted
  <2> QED BY <1>2, <2>1, <2>2
<1>6. \A i \in 1 .. Len(W') : W'[i] = accepted'[W'[i].pos]
  <2> SUFFICES ASSUME NEW i \in 1 .. Len(W) + 1 PROVE W'[i] = accepted'[W'[i].pos]
    BY <1>1
  <2>1. CASE i = Len(W) + 1
    BY <1>1, <1>2, <1>3, <2>1
  <2>2. CASE i \in 1 .. Len(W)
    BY <1>1, <1>2, <2>2 DEF AsAccepted, OrderInv, Within
  <2> QED BY <1>1, <2>1, <2>2
<1>7. \A i \in 1 .. Len(tx) : accepted'[tx[i].pos] = accepted[tx[i].pos]
  BY <1>2 DEF OrderInv, Within
<1>8. \A i \in 1 .. Len(bus) : accepted'[bus[i].pos] = accepted[bus[i].pos]
  BY <1>2 DEF OrderInv, Within
<1>9. \A i \in 1 .. Len(tx') : tx'[i].regs = RegsOf(accepted'[tx'[i].pos])
  BY <1>3, <1>7 DEF AsAccepted
<1>10. \A i \in 1 .. Len(bus') :
          bus'[i] = OnBus([regs |-> RegsOf(accepted'[bus'[i].pos]), pos |-> bus'[i].pos])
  BY <1>3, <1>8 DEF AsAccepted
<1>11. AsAccepted'
  <2>1. /\ \A m_1 : RegsOf(m_1)' = RegsOf(m_1)
        /\ \A t : OnBus(t)' = OnBus(t)
    BY SameCodec
  <2> QED BY <1>5, <1>6, <1>9, <1>10, <2>1 DEF AsAccepted
<1>12. Complete => Complete'
  BY <1>1, <1>2, <1>3, <1>4 DEF Complete
<1> QED BY <1>11, <1>12

LEMMA ContentTake ==
  ASSUME TypeInv, AsAccepted, hw' = hw, NEW k \in 1 .. Len(W), TakeStep(k)
  PROVE  AsAccepted' /\ (Calm(LossSet)' /\ Complete => Complete')
<1>1. Len(W) \in Nat /\ Len(tx) \in Nat /\ Len(bus) \in Nat /\ Len(accepted) \in Nat
  BY WFacts
<1>2. /\ Len(W') = Len(W) - k /\ k \in Nat
      /\ \A i \in 1 .. Len(W') : i + k \in 1 .. Len(W) /\ W'[i] = W[i + k]
  BY <1>1 DEF TakeStep
<1>3. bus' = bus /\ accepted' = accepted
  BY DEF TakeStep
<1>4. /\ \A m : RegsOf(m)' = RegsOf(m)
      /\ \A t : OnBus(t)' = OnBus(t)
  BY SameCodec
<1>5. \A i \in 1 .. Len(W') : W'[i] = accepted[W'[i].pos]
  BY <1>2 DEF AsAccepted
<1>6. \A i \in 1 .. Len(tx') : tx'[i].regs = RegsOf(accepted[tx'[i].pos])
  <2>1. CASE tx' = tx
    BY <2>1 DEF AsAccepted
  <2>2. ASSUME Len(tx') = k,
               \A i \in 1 .. k : tx'[i] = [regs |-> RegsOf(W[i]), pos |-> W[i].pos]
        PROVE  \A i \in 1 .. Len(tx') : tx'[i].regs = RegsOf(accepted[tx'[i].pos])
    <3> SUFFICES ASSUME NEW i \in 1 .. k PROVE tx'[i].regs = RegsOf(accepted[tx'[i].pos])
      BY <2>2
    <3>1. tx'[i].regs = RegsOf(W[i]) /\ tx'[i].pos = W[i].pos
      BY <2>2
    <3>2. W[i] = accepted[W[i].pos]
      BY <1>1 DEF AsAccepted
    <3> QED BY <3>1, <3>2
  <2> QED BY <2>1, <2>2 DEF TakeStep
<1>7. AsAccepted'
  BY <1>3, <1>4, <1>5, <1>6 DEF AsAccepted
<1>8. Calm(LossSet)' /\ Complete => Complete'
  BY <1>1, <1>2, <1>3 DEF TakeStep, Complete
<1> QED BY <1>7, <1>8

LEMMA ContentMove ==
  ASSUME TypeInv, AsAccepted, hw' = hw, MoveStep
  PROVE  AsAccepted' /\ (Complete => Complete')
<1>1. /\ Len(W) \in Nat /\ Len(tx) \in Nat /\ Len(bus) \in Nat /\ Len(accepted) \in Nat
      /\ tx \in Seq(Sendings)
  BY WFacts
<1>2. /\ tx' = <<>> /\ W' = W /\ accepted' = accepted /\ Len(bus') = Len(bus) + Len(tx)
      /\ \A i \in 1 .. Len(bus) : bus'[i] = bus[i]
      /\ \A i \in 1 .. Len(tx) : bus'[Len(bus) + i] = OnBus(tx[i])
  BY DEF MoveStep, W
<1>3. /\ \A m : RegsOf(m)' = RegsOf(m)
      /\ \A t : OnBus(t)' = OnBus(t)
  BY SameCodec
<1>4. \A i \in 1 .. Len(bus') :
         bus'[i] = OnBus([regs |-> RegsOf(accepted[bus'[i].pos]), pos |-> bus'[i].pos])
  <2> SUFFICES ASSUME NEW i \in 1 .. Len(bus) + Len(tx)
               PROVE bus'[i] = OnBus([regs |-> RegsOf(accepted[bus'[i].pos]), pos |-> bus'[i].pos])
    BY <1>2
  <2>1. CASE i \in 1 .. Len(bus)
    BY <1>2, <2>1 DEF AsAccepted
  <2>2. CASE i \notin 1 .. Len(bus)
    <3> DEFINE j == i - Len(bus)
    <3>1. j \in 1 .. Len(tx) /\ i = Len(bus) + j
      BY <1>1, <2>2
    <3> HIDE DEF j
    <3>2. tx[j] \in Sendings
      BY <1>1, <3>1, Elements
    <3>3. tx[j] = [regs |-> tx[j].regs, pos |-> tx[j].pos]
      BY <3>2 DEF Sendings
    <3>4. tx[j].regs = RegsOf(accepted[tx[j].pos])
      BY <3>1 DEF AsAccepted
    <3>5. bus'[i] = OnBus(tx[j]) /\ OnBus(tx[j]).pos = tx[j].pos
      BY <1>2, <3>1 DEF OnBus
    <3> QED BY <3>3, <3>4, <3>5
  <2> QED BY <2>1, <2>2
<1>5. AsAccepted'
  BY <1>2, <1>3, <1>4 DEF AsAccepted
<1>6. Complete => Complete'
  BY <1>1, <1>2 DEF Complete
<1> QED BY <1>5, <1>6

LEMMA ContentDrop ==
  ASSUME TypeInv, AsAccepted, hw' = hw, DropStep
  PROVE  AsAccepted' /\ (Calm(LossSet)' /\ Complete => Complete')
<1>1. bus' = bus /\ accepted' = accepted /\ tx' \in {tx, <<>>} /\ W' \in {W, <<>>}
  BY DEF DropStep
<1>2. /\ \A m : RegsOf(m)' = RegsOf(m)
      /\ \A t : OnBus(t)' = OnBus(t)
  BY SameCodec
<1>3. AsAccepted'
  BY <1>1, <1>2 DEF AsAccepted
<1>4. Calm(LossSet)' /\ Complete => Complete'
  BY <1>1 DEF DropStep, Complete
<1> QED BY <1>3, <1>4

LEMMA ContentNext ==
  ASSUME TypeInv, TypeInv', OrderInv, ContentInv, trouble \subseteq trouble', hw' = hw, SendStep
  PROVE  ContentInv'
<1>1. AsAccepted /\ (Calm(LossSet) => Complete)
  BY ContentParts
<1>2. AsAccepted' /\ (Calm(LossSet)' /\ Complete => Complete')
  BY <1>1, ContentPut, ContentTake, ContentMove, ContentDrop DEF SendStep
<1>3. Calm(LossSet)' => Calm(LossSet)
  BY CalmBefore
<1>4. Calm(LossSet)' = (trouble' \cap LossSet = {})
  BY DEF Calm
<1>5. AsAccepted' /\ (Calm(LossSet)' => Complete')
  BY <1>1, <1>2, <1>3
<1>6. Len(W)' = wf'.nStored
  <2>1. wf' \in Ring(WCount, Msgs)
    BY DEF TypeInv, RingTypes
  <2>2. Len(Contents(wf')) = wf'.nStored
    BY <2>1, Sizes, ContentsAre
  <2> QED BY <2>2 DEF W
<1> QED BY <1>5, <1>6 DEF ContentInv, AsAccepted, Complete, LossSet

----------------------------------------------------------------------------
(* What is read from the registers is what was written to them.            *)

LEMMA StdRoundTrip ==
  ASSUME NEW id \in Nat, id < STD_IDS
  PROVE  BytesId(IdBytes(id, FALSE)) = id
<1> DEFINE a == (id \div 8) % 256
           b == (id % 8) * 32
<1>1. IdBytes(id, FALSE) = <<a, b>>
  BY DEF IdBytes
<1>2. a \in Nat /\ a * 8 + b \div 32 = id
  BY SMT DEF STD_IDS
<1> HIDE DEF a, b
<1>3. Len(<<a, b>>) = 2 /\ <<a, b>>[1] = a /\ <<a, b>>[2] = b
  OBVIOUS
<1>4. BytesId(<<a, b>>) = a * 8 + b \div 32
  BY <1>3 DEF BytesId
<1> QED BY <1>1, <1>2, <1>4

LEMMA ExtRoundTrip ==
  ASSUME NEW id \in Nat, id < EXT_IDS
  PROVE  BytesId(IdBytes(id, TRUE)) = id
<1> DEFINE a == (id \div 2097152) % 256
           b == (id \div 8192) % 256
           c == (id \div 32) % 256
           d == (id % 32) * 8
           e == a * 2097152 + b * 8192 + c * 32 + d \div 8
<1>1. IdBytes(id, TRUE) = <<a, b, c, d>>
  BY SMT DEF IdBytes
<1>2. e = id
  BY SMTT(60) DEF EXT_IDS
<1> HIDE DEF a, b, c, d
<1>3. /\ Len(<<a, b, c, d>>) = 4 /\ <<a, b, c, d>>[1] = a /\ <<a, b, c, d>>[2] = b
      /\ <<a, b, c, d>>[3] = c /\ <<a, b, c, d>>[4] = d
  OBVIOUS
<1>4. BytesId(<<a, b, c, d>>) = e
  BY <1>3, SMT DEF BytesId
<1> HIDE DEF e
<1> QED BY <1>1, <1>2, <1>4

\* Two increasing sequences, the first below the second.
Grows(s) == \A i, j \in 1 .. Len(s) : i < j => s[i] < s[j]

LEMMA GrowsOn ==
  ASSUME NEW a \in Seq(Nat), NEW b \in Seq(Nat), Grows(a), Grows(b),
         \A i \in 1 .. Len(a), j \in 1 .. Len(b) : a[i] < b[j]
  PROVE  /\ a \o b \in Seq(Nat) /\ Len(a \o b) = Len(a) + Len(b) /\ Grows(a \o b)
         /\ \A i \in 1 .. Len(a) : (a \o b)[i] = a[i]
         /\ \A i \in 1 .. Len(b) : (a \o b)[Len(a) + i] = b[i]
         /\ \A i \in 1 .. Len(a \o b) :
              \/ \E j \in 1 .. Len(a) : (a \o b)[i] = a[j]
              \/ \E j \in 1 .. Len(b) : (a \o b)[i] = b[j]
<1> DEFINE s == a \o b
<1>1. /\ s \in Seq(Nat) /\ Len(s) = Len(a) + Len(b) /\ Len(a) \in Nat /\ Len(b) \in Nat
      /\ \A i \in 1 .. Len(a) : s[i] = a[i]
      /\ \A i \in 1 .. Len(b) : s[Len(a) + i] = b[i]
  OBVIOUS
<1> HIDE DEF s
<1>2. ASSUME NEW i \in 1 .. Len(s), i \notin 1 .. Len(a)
      PROVE  i - Len(a) \in 1 .. Len(b) /\ s[i] = b[i - Len(a)]
  <2> DEFINE j == i - Len(a)
  <2>1. j \in 1 .. Len(b) /\ i = Len(a) + j
    BY <1>1, <1>2
  <2> HIDE DEF j
  <2>2. s[i] = b[j]
    BY <1>1, <2>1
  <2> QED BY <2>1, <2>2 DEF j
<1>3. Grows(s)
  <2> SUFFICES ASSUME NEW i \in 1 .. Len(s), NEW j \in 1 .. Len(s), i < j PROVE s[i] < s[j]
    BY DEF Grows
  <2>1. CASE i \in 1 .. Len(a) /\ j \in 1 .. Len(a)
    BY <1>1, <2>1 DEF Grows
  <2>2. CASE i \in 1 .. Len(a) /\ j \notin 1 .. Len(a)
    BY <1>1, <1>2, <2>2
  <2>3. CASE i \notin 1 .. Len(a) /\ j \notin 1 .. Len(a)
    <3>1. /\ i - Len(a) \in 1 .. Len(b) /\ j - Len(a) \in 1 .. Len(b)
          /\ i - Len(a) < j - Len(a)
      BY <1>1, <1>2, <2>3
    <3>2. b[i - Len(a)] < b[j - Len(a)]
      BY <3>1 DEF Grows
    <3> QED BY <1>2, <2>3, <3>2
  <2> QED BY <1>1, <2>1, <2>2, <2>3
<1>4. \A i \in 1 .. Len(s) :
              \/ \E j \in 1 .. Len(a) : s[i] = a[j]
              \/ \E j \in 1 .. Len(b) : s[i] = b[j]
  BY <1>1, <1>2
<1> QED BY <1>1, <1>3, <1>4 DEF s

LEMMA PositionsAre ==
  ASSUME NEW s, Inc(s), Within(s), Len(s) \in Nat
  PROVE  /\ Positions(s) \in Seq(Nat) /\ Len(Positions(s)) = Len(s) /\ Grows(Positions(s))
         /\ \A i \in 1 .. Len(s) : Positions(s)[i] = s[i].pos
<1>1. \A i \in 1 .. Len(s) : s[i].pos \in Nat
  BY DEF Within
<1>2. Positions(s) = [i \in 1 .. Len(s) |-> s[i].pos]
  BY DEF Positions
<1>3. Positions(s) \in [1 .. Len(s) -> Nat]
  BY <1>1, <1>2
<1>4. Positions(s) \in Seq(Nat) /\ Len(Positions(s)) = Len(s)
  BY <1>2, <1>3
<1> QED BY <1>2, <1>4 DEF Inc, Grows

LEMMA OnBusAsWritten ==
  ASSUME NEW m \in Msgs, Representable(m), NEW k \in Nat
  PROVE  OnBus([regs |-> RegsOf(m), pos |-> k])
           = [id |-> m.ID, eff |-> "EXTENDED" \in m.MSGTYPE, rtr |-> "RTR" \in m.MSGTYPE,
              data |-> m.DATA, pos |-> k]
<1> DEFINE eff == "EXTENDED" \in m.MSGTYPE
           rtr == "RTR" \in m.MSGTYPE
           b == IdBytes(m.ID, eff)
<1>1. m.ID \in Nat /\ eff \in BOOLEAN /\ m.MSGTYPE \subseteq Types
  BY DEF Msgs
<1>2. b \in Bytes
  BY <1>1, IdBytesType
<1>3. BytesId(b) = m.ID
  <2>1. CASE eff
    <3>1. m.ID < EXT_IDS
      BY <2>1 DEF Representable
    <3>2. eff = TRUE
      BY <2>1
    <3> QED BY <1>1, <3>1, <3>2, ExtRoundTrip
  <2>2. CASE ~eff
    <3>1. m.ID < STD_IDS
      BY <2>2 DEF Representable
    <3>2. eff = FALSE
      BY <2>2
    <3> QED BY <1>1, <3>1, <3>2, StdRoundTrip
  <2> QED BY <2>1, <2>2
<1>4. RegsOf(m) = [eff |-> eff, rtr |-> rtr, bytes |-> IF Usb THEN Swapped(b) ELSE b, data |-> m.DATA]
  <2>1. CASE Usb
    BY <2>1 DEF RegsOf, pcan_hw_EncodeMessage
  <2>2. CASE ~Usb
    <3> DEFINE cf == msg2frame(m)
    <3>1. /\ cf.id = m.ID /\ cf.data = m.DATA
          /\ ("EFF" \in cf.flags) = eff /\ ("RTR" \in cf.flags) = rtr
      BY DEF msg2frame, When
    <3> HIDE DEF cf
    <3>2. sja1000_write_frame(cf) = [eff |-> eff, rtr |-> rtr, bytes |-> b, data |-> m.DATA]
      BY <3>1 DEF sja1000_write_frame
    <3>3. RegsOf(m) = sja1000_write_frame(cf)
      BY <2>2 DEF RegsOf, cf
    <3> QED BY <2>2, <3>2, <3>3
  <2> QED BY <2>1, <2>2
<1>5. (IF Usb THEN Swapped(IF Usb THEN Swapped(b) ELSE b) ELSE IF Usb THEN Swapped(b) ELSE b) = b
  BY <1>2, SwappedType
<1> HIDE DEF eff, rtr, b
<1>6. OnBus([regs |-> RegsOf(m), pos |-> k])
        = [id |-> BytesId(b), eff |-> eff, rtr |-> rtr, data |-> m.DATA, pos |-> k]
  BY <1>4, <1>5 DEF OnBus
<1> QED BY <1>3, <1>6 DEF eff, rtr

LEMMA UnderWayIs ==
  ASSUME TypeInv, OrderInv
  PROVE  /\ UnderWay \in Seq(Nat) /\ Len(UnderWay) = Len(bus) + Len(tx) + Len(W)
         /\ Len(UnderWay) \in Nat
         /\ Grows(UnderWay)
         /\ \A i \in 1 .. Len(UnderWay) : UnderWay[i] \in Away
<1> DEFINE a == Positions(bus)
           b == Positions(tx)
           c == Positions(W)
<1>1. /\ Len(bus) \in Nat /\ Len(tx) \in Nat /\ Len(W) \in Nat
      /\ Inc(bus) /\ Inc(tx) /\ Inc(W) /\ Within(bus) /\ Within(tx) /\ Within(W)
  BY WFacts DEF OrderInv
<1>2. /\ a \in Seq(Nat) /\ Len(a) = Len(bus) /\ Grows(a)
      /\ \A i \in 1 .. Len(bus) : a[i] = bus[i].pos
  BY <1>1, PositionsAre
<1>3. /\ b \in Seq(Nat) /\ Len(b) = Len(tx) /\ Grows(b)
      /\ \A i \in 1 .. Len(tx) : b[i] = tx[i].pos
  BY <1>1, PositionsAre
<1>4. /\ c \in Seq(Nat) /\ Len(c) = Len(W) /\ Grows(c)
      /\ \A i \in 1 .. Len(W) : c[i] = W[i].pos
  BY <1>1, PositionsAre
<1>5. UnderWay = (a \o b) \o c
  BY DEF UnderWay, W
<1> HIDE DEF a, b, c
<1>6. /\ \A i \in 1 .. Len(a), j \in 1 .. Len(b) : a[i] < b[j]
      /\ \A i \in 1 .. Len(a), j \in 1 .. Len(c) : a[i] < c[j]
      /\ \A i \in 1 .. Len(b), j \in 1 .. Len(c) : b[i] < c[j]
  BY <1>2, <1>3, <1>4 DEF OrderInv, Before
<1> DEFINE s == a \o b
<1>7. /\ s \in Seq(Nat) /\ Len(s) = Len(a) + Len(b) /\ Grows(s)
      /\ \A i \in 1 .. Len(s) :
              \/ \E j \in 1 .. Len(a) : s[i] = a[j]
              \/ \E j \in 1 .. Len(b) : s[i] = b[j]
  BY <1>2, <1>3, <1>6, GrowsOn
<1> HIDE DEF s
<1>8. \A i \in 1 .. Len(s), j \in 1 .. Len(c) : s[i] < c[j]
  BY <1>6, <1>7
<1> DEFINE u == s \o c
<1>9. /\ u \in Seq(Nat) /\ Len(u) = Len(s) + Len(c) /\ Grows(u)
      /\ \A i \in 1 .. Len(u) :
              \/ \E j \in 1 .. Len(s) : u[i] = s[j]
              \/ \E j \in 1 .. Len(c) : u[i] = c[j]
  BY <1>4, <1>7, <1>8, GrowsOn
<1>10. UnderWay = u
  BY <1>5 DEF s
<1> HIDE DEF u
<1>11. /\ \A j \in 1 .. Len(a) : a[j] \in Away
       /\ \A j \in 1 .. Len(b) : b[j] \in Away
       /\ \A j \in 1 .. Len(c) : c[j] \in Away
  BY <1>2, <1>3, <1>4 DEF Away
<1>12. \A j \in 1 .. Len(s) : s[j] \in Away
  BY <1>7, <1>11
<1>13. \A i \in 1 .. Len(u) : u[i] \in Away
  BY <1>9, <1>11, <1>12
<1>14. Len(u) = Len(bus) + Len(tx) + Len(W) /\ Len(u) \in Nat
  BY <1>1, <1>2, <1>3, <1>4, <1>7, <1>9
<1> QED BY <1>9, <1>10, <1>13, <1>14

LEMMA SentInOrderHolds ==
  ASSUME TypeInv, OrderInv, ContentInv
  PROVE  SentInOrder
<1>1. \A i, j \in 1 .. Len(UnderWay) : i < j => UnderWay[i] < UnderWay[j]
  BY UnderWayIs DEF Grows
<1>2. ASSUME NEW i \in 1 .. Len(bus), Representable(accepted[bus[i].pos])
      PROVE  bus[i] = [id |-> accepted[bus[i].pos].ID,
                       eff |-> "EXTENDED" \in accepted[bus[i].pos].MSGTYPE,
                       rtr |-> "RTR" \in accepted[bus[i].pos].MSGTYPE,
                       data |-> accepted[bus[i].pos].DATA, pos |-> accepted[bus[i].pos].pos]
  <2> DEFINE k == bus[i].pos
             m == accepted[k]
  <2>1. k \in 1 .. Len(accepted) /\ accepted \in Seq(Msgs)
    BY WFacts DEF OrderInv, Within
  <2>2. m \in Msgs /\ k \in Nat /\ m.pos = k
    BY <2>1, Elements DEF ContentInv
  <2>3. bus[i] = OnBus([regs |-> RegsOf(m), pos |-> k])
    BY DEF ContentInv
  <2>4. Representable(m)
    BY <1>2
  <2> HIDE DEF m, k
  <2>5. bus[i] = [id |-> m.ID, eff |-> "EXTENDED" \in m.MSGTYPE, rtr |-> "RTR" \in m.MSGTYPE,
                  data |-> m.DATA, pos |-> k]
    BY <2>2, <2>3, <2>4, OnBusAsWritten
  <2> QED BY <2>2, <2>5 DEF m, k
<1>3. Calm(LossSet) => Len(UnderWay) = Len(accepted)
  BY UnderWayIs, ContentParts DEF Complete
<1> QED BY <1>1, <1>2, <1>3 DEF SentInOrder, LossSet

----------------------------------------------------------------------------
(* Numbers of calls, lines and messages.                                   *)

OnceSet == {"nodata", "left"}

\* A step that accepts nothing and begins no call.
LessText(q) == text'[q] = text[q] \/ (text[q] # <<>> /\ text'[q] = Tail(text[q]))
Quiet ==
  /\ accepted' = accepted /\ count'.writes = count.writes
  /\ \A q \in Procs : LessText(q)
  /\ \A q \in Procs : Active(q)' => /\ Active(q) /\ call'[q] = call[q]
                                    /\ call[q].text => text'[q] = text[q]
  /\ \A q \in Procs : PutBy(q) /\ Active(q)' => PutBy(q)'
  /\ \A q \in Procs : PutBy(q)' => PutBy(q)
\* Who still has its line after it was put is not done with it.
Settled ==
  \A q \in Procs :
    /\ PutBy(q) /\ call[q].text /\ text'[q] = text[q] /\ Len(accepted) \in Away'
    /\ Calm(OnceSet)' /\ ucPhysicallyInstalled'
    => PutBy(q)'
\* Of what is under way nothing is new, and the last message in writeFifo stays the last.
Slides ==
  /\ Away' \subseteq Away
  /\ Len(W') > 0 => Len(W) > 0 /\ W'[Len(W')].pos = W[Len(W)].pos

LEMMA StepSlides ==
  ASSUME TypeInv, SendStep, accepted' = accepted
  PROVE  Slides
<1>1. /\ Len(W) \in Nat /\ Len(tx) \in Nat /\ Len(bus) \in Nat /\ Len(accepted) \in Nat
      /\ accepted \in Seq(Msgs)
  BY WFacts
<1>2. ASSUME NEW m \in Msgs, PutStep(m) PROVE FALSE
  <2>1. Len(Append(accepted, m)) = Len(accepted) + 1
    BY <1>1, AppendIs
  <2> QED BY <1>1, <1>2, <2>1 DEF PutStep
<1>3. ASSUME NEW k \in 1 .. Len(W), TakeStep(k) PROVE Slides
  <2>1. /\ Len(W') = Len(W) - k /\ k \in Nat /\ bus' = bus
        /\ \A i \in 1 .. Len(W') : i + k \in 1 .. Len(W) /\ W'[i] = W[i + k]
    BY <1>1, <1>3 DEF TakeStep
  <2>2. \A i \in 1 .. Len(W') : W'[i].pos \in {W[j].pos : j \in 1 .. Len(W)}
    BY <2>1
  <2>3. \A i \in 1 .. Len(tx') : \/ tx'[i].pos \in {W[j].pos : j \in 1 .. Len(W)}
                                 \/ tx' = tx
    <3>1. CASE tx' = tx
      BY <3>1
    <3>2. ASSUME Len(tx') = k,
                 \A i \in 1 .. k : tx'[i] = [regs |-> RegsOf(W[i]), pos |-> W[i].pos]
          PROVE  \A i \in 1 .. Len(tx') : tx'[i].pos \in {W[j].pos : j \in 1 .. Len(W)}
      <4>1. \A i \in 1 .. k : i \in 1 .. Len(W) /\ tx'[i].pos = W[i].pos
        BY <1>1, <3>2
      <4> QED BY <3>2, <4>1
    <3> QED BY <1>3, <3>1, <3>2 DEF TakeStep
  <2>4. Away' \subseteq Away
    BY <2>1, <2>2, <2>3 DEF Away
  <2>5. Len(W') > 0 => Len(W) > 0 /\ W'[Len(W')].pos = W[Len(W)].pos
    <3> SUFFICES ASSUME Len(W') > 0 PROVE Len(W) > 0 /\ W'[Len(W')].pos = W[Len(W)].pos
      OBVIOUS
    <3>1. Len(W') \in 1 .. Len(W') /\ Len(W') + k = Len(W) /\ Len(W) > 0
      BY <1>1, <2>1
    <3>2. W'[Len(W')] = W[Len(W') + k]
      BY <2>1, <3>1
    <3> QED BY <3>1, <3>2
  <2> QED BY <2>4, <2>5 DEF Slides
<1>4. ASSUME MoveStep PROVE Slides
  <2>1. /\ tx' = <<>> /\ W' = W /\ Len(bus') = Len(bus) + Len(tx)
        /\ \A i \in 1 .. Len(bus) : bus'[i] = bus[i]
        /\ \A i \in 1 .. Len(tx) : bus'[Len(bus) + i] = OnBus(tx[i])
    BY <1>4 DEF MoveStep, W
  <2>2. \A i \in 1 .. Len(bus') : bus'[i].pos \in Away
    <3> SUFFICES ASSUME NEW i \in 1 .. Len(bus) + Len(tx) PROVE bus'[i].pos \in Away
      BY <2>1
    <3>1. CASE i \in 1 .. Len(bus)
      BY <2>1, <3>1 DEF Away
    <3>2. CASE i \notin 1 .. Len(bus)
      <4> DEFINE j == i - Len(bus)
      <4>1. j \in 1 .. Len(tx) /\ i = Len(bus) + j
        BY <1>1, <3>2
      <4> HIDE DEF j
      <4>2. bus'[i] = OnBus(tx[j]) /\ OnBus(tx[j]).pos = tx[j].pos
        BY <2>1, <4>1 DEF OnBus
      <4> QED BY <4>1, <4>2 DEF Away
    <3> QED BY <3>1, <3>2
  <2>3. Len(tx') = 0 /\ \A i \in 1 .. Len(W') : W'[i].pos \in Away
    BY <2>1 DEF Away
  <2>4. Away' = {bus'[i].pos : i \in 1 .. Len(bus')} \cup {tx'[i].pos : i \in 1 .. Len(tx')}
                  \cup {W'[i].pos : i \in 1 .. Len(W')}
    BY DEF Away
  <2>5. Away' \subseteq Away
    BY <2>2, <2>3, <2>4
  <2> QED BY <2>1, <2>5 DEF Slides
<1>5. ASSUME DropStep PROVE Slides
  <2>1. Away' \subseteq Away
    BY <1>5 DEF DropStep, Away
  <2>2. Len(W') > 0 => W' = W
    BY <1>5 DEF DropStep
  <2> QED BY <2>1, <2>2 DEF Slides
<1> QED BY <1>2, <1>3, <1>4, <1>5 DEF SendStep

\* A line keeps its number and its place among the others.
LEMMA LessLines ==
  ASSUME TypeInv, NEW q \in Procs, LessText(q)
  PROVE  \E d \in {0, 1} :
           /\ \A k \in LinesOf(q)' : k + d \in LinesOf(q) /\ Number(q, k)' = Number(q, k + d)
           /\ d = 0 => text'[q] = text[q]
<1>1. text[q] \in Seq(LineSet)
  BY ProcFacts
<1>2. CASE text'[q] = text[q]
  <2>1. LinesOf(q)' = LinesOf(q) /\ \A k \in LinesOf(q) : k + 0 = k
    BY <1>2 DEF LinesOf
  <2>2. \A k : Number(q, k)' = Number(q, k)
    BY <1>2 DEF Number
  <2>3. \A k \in LinesOf(q)' : k + 0 \in LinesOf(q) /\ Number(q, k)' = Number(q, k + 0)
    BY <2>1, <2>2
  <2> QED BY <1>2, <2>3
<1>3. CASE text[q] # <<>> /\ text'[q] = Tail(text[q])
  <2>1. /\ Len(text[q]) \in Nat \ {0} /\ Len(text'[q]) = Len(text[q]) - 1
        /\ \A k \in 1 .. Len(text[q]) - 1 : text'[q][k] = text[q][k + 1]
    BY <1>1, <1>3, HeadTail
  <2>2. \A k \in LinesOf(q)' : k + 1 \in LinesOf(q) /\ Number(q, k)' = Number(q, k + 1)
    BY <2>1 DEF LinesOf, Number
  <2> QED BY <2>2
<1> QED BY <1>2, <1>3 DEF LessText

LEMMA NumbersQuiet ==
  ASSUME TypeInv, NumbersInv, Quiet, Slides
  PROVE  NumbersInv'
<1>1. accepted' = accepted /\ count'.writes = count.writes /\ \A q \in Procs : LessText(q)
  BY DEF Quiet
<1>2. AcceptedNumbers'
  BY <1>1 DEF NumbersInv, AcceptedNumbers
<1>3. ASSUME NEW q \in Procs, NEW k \in LinesOf(q)'
      PROVE  \E j \in LinesOf(q) : Number(q, k)' = Number(q, j)
  BY <1>1, LessLines
<1>4. \A q \in Procs : \A k \in LinesOf(q)' : Number(q, k)' \in 1 .. count'.writes
  BY <1>1, <1>3 DEF NumbersInv, LineNumbers
<1>5. ASSUME NEW p \in Procs, NEW q \in Procs, NEW k \in LinesOf(p)', NEW l \in LinesOf(q)',
             Number(p, k)' = Number(q, l)'
      PROVE  p = q /\ k = l
  <2>1. PICK d \in {0, 1} :
           \A kk \in LinesOf(p)' : kk + d \in LinesOf(p) /\ Number(p, kk)' = Number(p, kk + d)
    BY <1>1, LessLines
  <2>2. PICK e \in {0, 1} :
           \A kk \in LinesOf(q)' : kk + e \in LinesOf(q) /\ Number(q, kk)' = Number(q, kk + e)
    BY <1>1, LessLines
  <2>3. p = q /\ k + d = l + e
    BY <1>5, <2>1, <2>2 DEF NumbersInv, LineNumbers
  <2>4. l + d \in LinesOf(p) /\ Number(p, l)' = Number(p, l + d) /\ l + e \in LinesOf(p)
        /\ Number(p, l)' = Number(p, l + e)
    BY <2>1, <2>2, <2>3
  <2>5. l + d = l + e
    BY <2>4 DEF NumbersInv, LineNumbers
  <2>6. k \in Int /\ l \in Int
    BY DEF LinesOf
  <2> QED BY <2>3, <2>5, <2>6
<1>6. LineNumbers'
  BY <1>4, <1>5 DEF LineNumbers
<1>7. ASSUME NEW p \in Procs, Active(p)'
      PROVE  OwnNumber(p)'
  <2>1. Active(p) /\ call'[p] = call[p] /\ (call[p].text => text'[p] = text[p])
    BY <1>7 DEF Quiet
  <2>2. OwnNumber(p)
    BY <2>1 DEF NumbersInv, CallNumbers
  <2>3. call[p].text => text'[p] # <<>> /\ call[p].msg.DATA \in {Garbage, Number(p, 1)'}
    BY <2>1, <2>2 DEF OwnNumber, Number
  <2>4. ~call[p].text => \A q \in Procs : \A k \in LinesOf(q)' : Number(q, k)' # call[p].msg.DATA
    BY <1>3, <2>2 DEF OwnNumber
  <2>5. ~call[p].text => \A q \in Procs : q # p /\ Active(q)' /\ ~call'[q].text
                                           => call'[q].msg.DATA # call[p].msg.DATA
    BY <2>2 DEF OwnNumber, Quiet
  <2>6. ~call[p].text => call[p].msg.DATA \in 1 .. count'.writes
    BY <1>1, <2>2 DEF OwnNumber
  <2> QED BY <2>1, <2>3, <2>4, <2>5, <2>6 DEF OwnNumber
<1>8. CallNumbers'
  BY <1>7 DEF CallNumbers
<1>9. LastNumber'
  <2> SUFFICES ASSUME NEW p \in Procs, PutBy(p)'
               PROVE  /\ accepted' # <<>> /\ accepted'[Len(accepted')].DATA = call'[p].msg.DATA
                      /\ Len(W') > 0 => W'[Len(W')].pos = Len(accepted')
    BY DEF LastNumber
  <2>1. PutBy(p) /\ Active(p)' /\ call'[p] = call[p]
    BY DEF Quiet, PutBy, Active
  <2> QED BY <1>1, <2>1 DEF NumbersInv, LastNumber, Slides
<1> QED BY <1>2, <1>6, <1>8, <1>9 DEF NumbersInv

LEMMA OnceQuiet ==
  ASSUME TypeInv, NumbersInv, OnceInv, Quiet, Settled, Slides, trouble \subseteq trouble',
         ucPhysicallyInstalled' => ucPhysicallyInstalled
  PROVE  OnceInv'
<1> SUFFICES ASSUME Calm(OnceSet)' PROVE OnceInv'
  BY DEF OnceInv, OnceSet
<1>1. accepted' = accepted /\ Away' \subseteq Away /\ \A q \in Procs : LessText(q)
  BY DEF Quiet, Slides
<1>2. Calm(OnceSet)
  BY CalmBefore
<1>3. \A x, y \in Away' :
         accepted'[x].DATA = accepted'[y].DATA => x = y \/ accepted'[x].DATA = Garbage
  BY <1>1, <1>2 DEF OnceInv, OnceSet
<1>4. ASSUME ucPhysicallyInstalled', NEW x \in Away', NEW p \in Procs
      PROVE  Fresh(x, p)'
  <2>1. Fresh(x, p) /\ x \in Away
    BY <1>1, <1>2, <1>4 DEF OnceInv, OnceSet
  <2>2. ASSUME NEW k \in LinesOf(p)', accepted[x].DATA = Number(p, k)'
        PROVE  k = 1 /\ PutBy(p)' /\ call'[p].text /\ x = Len(accepted)
    <3>1. PICK d \in {0, 1} :
             /\ \A kk \in LinesOf(p)' : kk + d \in LinesOf(p) /\ Number(p, kk)' = Number(p, kk + d)
             /\ d = 0 => text'[p] = text[p]
      BY <1>1, LessLines
    <3>2. k + d = 1 /\ PutBy(p) /\ call[p].text /\ x = Len(accepted)
      BY <2>1, <2>2, <3>1 DEF Fresh
    <3>3. k \in Int /\ k >= 1
      BY DEF LinesOf
    <3>4. k = 1 /\ d = 0
      BY <3>2, <3>3
    <3>5. PutBy(p)'
      BY <1>4, <3>1, <3>2, <3>4 DEF Settled
    <3>6. call'[p] = call[p]
      BY <3>5 DEF Quiet, PutBy, Active
    <3> QED BY <3>2, <3>4, <3>5, <3>6
  <2>3. ASSUME Active(p)', ~call'[p].text, accepted[x].DATA = call'[p].msg.DATA
        PROVE  PutBy(p)' /\ x = Len(accepted)
    BY <2>1, <2>3 DEF Fresh, Quiet
  <2> QED BY <1>1, <2>2, <2>3 DEF Fresh
<1> QED BY <1>3, <1>4 DEF OnceInv

LEMMA SameText ==
  ASSUME text' = text
  PROVE  \A q \in Procs : LessText(q)
BY DEF LessText

\* A step of a process that neither has put nor begins to write.
LEMMA QuietProc ==
  ASSUME TypeInv, NEW p \in Procs, accepted' = accepted, count'.writes = count.writes,
         pc[p] \notin {"pull", "start"}, pc'[p] \notin {"pull", "start"},
         \A q \in Procs : q # p => pc'[q] = pc[q] /\ call'[q] = call[q] /\ text'[q] = text[q],
         LessText(p),
         Active(p)' => Active(p) /\ call'[p] = call[p] /\ text'[p] = text[p]
  PROVE  Quiet /\ Settled
<1>1. \A q \in Procs : LessText(q)
  BY DEF LessText
<1>2. \A q \in Procs : q # p => (Active(q)' <=> Active(q)) /\ (PutBy(q)' <=> PutBy(q))
  BY DEF Active, PutBy
<1>3. ~PutBy(p) /\ ~PutBy(p)'
  BY DEF PutBy
<1> QED BY <1>1, <1>2, <1>3 DEF Quiet, Settled

LEMMA QuietHandler ==
  ASSUME TypeInv, Awakes, UNCHANGED <<call, text>>, accepted' = accepted,
         count'.writes = count.writes
  PROVE  Quiet /\ Settled
<1>1. \A q \in Procs : LessText(q)
  BY SameText
<1>2. \A q \in Procs : (Active(q)' <=> Active(q)) /\ (PutBy(q)' <=> PutBy(q))
  BY DEF Active, PutBy, Awakes
<1> QED BY <1>1, <1>2 DEF Quiet, Settled

\* A call that ends: either its line leaves the buffer or its message is lost.
LEMMA QuietFinish ==
  ASSUME TypeInv, NEW p \in Procs, NEW ok \in BOOLEAN, Active(p), Finish(p, ok),
         accepted' = accepted, count' = count,
         ok \/ (Len(accepted) \in Away' /\ Calm(OnceSet)' => ~ucPhysicallyInstalled')
  PROVE  Quiet /\ Settled
<1>1. /\ text \in [Procs -> Seq(LineSet)] /\ pc \in [Procs -> Places]
      /\ call \in [Procs -> [msg : Msgs, text : BOOLEAN]]
      /\ \A q \in Procs : Active(q) /\ call[q].text => text[q] # <<>>
  BY ProcFacts
<1>2. /\ \A q \in Procs : q # p => pc'[q] = pc[q] /\ call'[q] = call[q] /\ text'[q] = text[q]
      /\ pc'[p] \in {"parse", "idle"}
  <2>1. \A q \in Procs : q # p => pc'[q] = pc[q] /\ call'[q] = call[q]
    BY <1>1 DEF Finish
  <2>2. \A q \in Procs : q # p => text'[q] = text[q]
    BY <1>1 DEF Finish
  <2>3. pc'[p] \in {"parse", "idle"}
    BY <1>1 DEF Finish
  <2> QED BY <2>1, <2>2, <2>3
<1>3. IF ok /\ call[p].text THEN text[p] # <<>> /\ text'[p] = Tail(text[p]) ELSE text'[p] = text[p]
  BY <1>1 DEF Finish
<1>4. \A q \in Procs : LessText(q)
  BY <1>2, <1>3 DEF LessText
<1>5. \A q \in Procs : q # p => (Active(q)' <=> Active(q)) /\ (PutBy(q)' <=> PutBy(q))
  BY <1>2 DEF Active, PutBy
<1>6. ~Active(p)' /\ ~PutBy(p)'
  BY <1>2 DEF Active, PutBy
<1>7. Quiet
  BY <1>2, <1>4, <1>5, <1>6 DEF Quiet
<1>8. ASSUME call[p].text, text'[p] = text[p], ok PROVE FALSE
  <2>1. text[p] \in Seq(LineSet) /\ text[p] # <<>> /\ text[p] = Tail(text[p])
    BY <1>1, <1>3, <1>8
  <2>2. Len(text[p]) \in Nat /\ Len(Tail(text[p])) = Len(text[p]) - 1
    BY <2>1, HeadTail
  <2> DEFINE n == Len(text[p])
  <2>3. n \in Nat /\ n = n - 1
    BY <2>1, <2>2
  <2> HIDE DEF n
  <2> QED BY <2>3
<1>9. Settled
  BY <1>5, <1>8 DEF Settled
<1> QED BY <1>7, <1>9

\* The message that was put is the last in writeFifo; when it has left that and is lost ...
LEMMA LastIsLost ==
  ASSUME TypeInv, OrderInv, NumbersInv, NEW p \in Procs, PutBy(p), Len(W) > 0,
         Len(W') = 0, UNCHANGED <<bus, tx, accepted>>
  PROVE  Len(accepted) \notin Away'
<1>1. W[Len(W)].pos = Len(accepted) /\ Len(W) \in 1 .. Len(W)
  BY WFacts DEF NumbersInv, LastNumber
<1>2. /\ \A i \in 1 .. Len(bus) : bus[i].pos < Len(accepted)
      /\ \A i \in 1 .. Len(tx) : tx[i].pos < Len(accepted)
  BY <1>1 DEF OrderInv, Before
<1>3. Len(accepted) \in Nat
  BY WFacts
<1>4. 1 .. Len(W') = {}
  OBVIOUS
<1>5. Away' = {bus[i].pos : i \in 1 .. Len(bus)} \cup {tx[i].pos : i \in 1 .. Len(tx)}
  <2>1. Away' = {bus'[i].pos : i \in 1 .. Len(bus')} \cup {tx'[i].pos : i \in 1 .. Len(tx')}
                  \cup {W'[i].pos : i \in 1 .. Len(W')}
    BY DEF Away
  <2> QED BY <1>4, <2>1
<1> QED BY <1>2, <1>3, <1>5

LEMMA QuietStart ==
  ASSUME TypeInv, RunInv, OrderInv, NumbersInv, NEW p \in Procs, StartWrite(p)
  PROVE  Quiet /\ Settled
<1>1. /\ pc[p] = "start" /\ accepted' = accepted /\ count' = count /\ bus' = bus
      /\ ucPhysicallyInstalled' = ucPhysicallyInstalled
  BY DEF StartWrite, May, device
<1>2. Active(p) /\ PutBy(p)
  BY <1>1 DEF Active, PutBy
<1>3. CASE Finish(p, TRUE)
  BY <1>1, <1>2, <1>3, QuietFinish
<1>4. CASE Usb /\ pcan_usb_refused /\ Finish(p, FALSE)
  <2>1. Len(accepted) \in Away' => ~Calm(OnceSet)'
    <3> SUFFICES ASSUME Calm(OnceSet)' PROVE Len(accepted) \notin Away'
      OBVIOUS
    <3>1. pcan_usb_encode /\ tx' = tx
          /\ trouble' = trouble \cup {"submit"} \cup When(Encoded < wf.nStored, "left")
      BY <1>4 DEF pcan_usb_refused
    <3>2. "left" \notin trouble'
      BY DEF Calm, OnceSet
    <3>3. ~(Encoded < wf.nStored)
      BY <3>1, <3>2 DEF When
    <3>4. /\ wf' \in Ring(WCount, Msgs) /\ Encoded \in 1 .. wf.nStored
          /\ wf'.nStored = wf.nStored - Encoded /\ wf.nStored \in Nat
      BY <3>1, UsbEncodeType
    <3>5. wf'.nStored = 0 /\ wf.nStored > 0
      BY <3>3, <3>4
    <3>6. Len(Contents(wf')) = wf'.nStored
      BY <3>4, Sizes, ContentsAre
    <3>7. Len(W') = 0 /\ Len(W) > 0
      BY <3>5, <3>6, WFacts DEF W
    <3> QED BY <1>1, <1>2, <3>1, <3>7, LastIsLost
  <2> QED BY <1>1, <1>2, <1>4, <2>1, QuietFinish
<1>5. CASE /\ Finish(p, FALSE)
           /\ ~pcan_fifo_empty(wf) \/ (Usb /\ ~ucPhysicallyInstalled)
           /\ trouble' = trouble \cup When(~pcan_fifo_empty(wf), "nodata")
  <2>1. Calm(OnceSet)' => ~ucPhysicallyInstalled'
    <3>1. ~pcan_fifo_empty(wf) => "nodata" \in trouble'
      BY <1>5 DEF When
    <3>2. "nodata" \in trouble' => ~Calm(OnceSet)'
      BY DEF Calm, OnceSet
    <3> QED BY <1>1, <1>5, <3>1, <3>2
  <2>2. Finish(p, FALSE)
    BY <1>5
  <2> QED BY <1>1, <1>2, <2>1, <2>2, QuietFinish
<1>6. \/ Finish(p, TRUE)
      \/ Usb /\ pcan_usb_refused /\ Finish(p, FALSE)
      \/ /\ Finish(p, FALSE)
         /\ ~pcan_fifo_empty(wf) \/ (Usb /\ ~ucPhysicallyInstalled)
         /\ trouble' = trouble \cup When(~pcan_fifo_empty(wf), "nodata")
  BY DEF StartWrite
<1> QED BY <1>3, <1>4, <1>5, <1>6

LEMMA QuietClaim ==
  ASSUME TypeInv, NEW p \in Procs, Claim(p)
  PROVE  Quiet /\ Settled
<1>1. pc[p] = "pull" /\ accepted' = accepted /\ count' = count
  BY DEF Claim, May, history
<1>2. Active(p) /\ PutBy(p)
  BY <1>1 DEF Active, PutBy
<1>3. CASE Finish(p, TRUE)
  BY <1>1, <1>2, <1>3, QuietFinish
<1>4. CASE pc' = [pc EXCEPT ![p] = "start"] /\ UNCHANGED <<text, running, call>>
  <2>1. pc'[p] = "start" /\ \A q \in Procs : q # p => pc'[q] = pc[q]
    BY <1>4, ProcFacts DEF Places
  <2>2. \A q \in Procs : (Active(q)' <=> Active(q)) /\ (PutBy(q)' <=> PutBy(q))
    BY <1>1, <2>1 DEF Active, PutBy
  <2>3. \A q \in Procs : LessText(q)
    BY <1>4, SameText
  <2> QED BY <1>1, <1>4, <2>2, <2>3 DEF Quiet, Settled
<1> QED BY <1>3, <1>4 DEF Claim

BeginsLine(p) ==
  /\ pc[p] = "parse" /\ text[p] # <<>> /\ text' = text
  /\ UNCHANGED history /\ UNCHANGED device
  /\ pc' = [pc EXCEPT ![p] = "write"]
  /\ \E m \in Parsed(Head(text[p]), {Garbage}) :
       call' = [call EXCEPT ![p] = [msg |-> m, text |-> TRUE]]

LEMMA QuietParse ==
  ASSUME TypeInv, NEW p \in Procs, Parse(p)
  PROVE  (Quiet /\ Settled) \/ BeginsLine(p)
<1>1. pc[p] = "parse" /\ accepted' = accepted /\ count' = count
      /\ UNCHANGED history /\ UNCHANGED device
  BY DEF Parse, May, history
<1>2. CASE pc' = [pc EXCEPT ![p] = "idle"] /\ UNCHANGED <<call, text>>
  <2>1. pc'[p] = "idle" /\ \A q \in Procs : q # p => pc'[q] = pc[q]
    BY <1>2, ProcFacts DEF Places
  <2>2. ~Active(p)' /\ LessText(p)
    BY <1>2, <2>1 DEF Active, LessText
  <2> QED BY <1>1, <1>2, <2>1, <2>2, QuietProc
<1>3. CASE text[p] # <<>> /\ text' = [text EXCEPT ![p] = Tail(@)] /\ UNCHANGED <<pc, call>>
  <2>1. text'[p] = Tail(text[p]) /\ \A q \in Procs : q # p => text'[q] = text[q]
    BY <1>3, ProcFacts
  <2>2. ~Active(p)' /\ LessText(p)
    BY <1>1, <1>3, <2>1 DEF Active, LessText
  <2> QED BY <1>1, <1>3, <2>1, <2>2, QuietProc
<1>4. CASE BeginsLine(p)
  BY <1>4
<1> QED BY <1>1, <1>2, <1>3, <1>4 DEF Parse, BeginsLine

\* The other calls.
LEMMA QuietCalls ==
  ASSUME TypeInv, NEW p \in Procs,
         \/ SleepForData(p) \/ Get(p) \/ InitLine(p) \/ SleepForRoom(p)
         \/ WaitOver(p) \/ Reopen(p) \/ ClearStatus(p) \/ Interrupted(p) \/ CallStatus(p)
         \/ CallRead(p) \/ ReadRest(p) \/ \E e \in BOOLEAN : CallInit(p, e)
  PROVE  Quiet /\ Settled
<1>1. accepted' = accepted /\ count'.writes = count.writes
  BY DEF SleepForData, Get, InitLine, SleepForRoom, WaitOver, Reopen, ClearStatus, Interrupted,
     CallStatus, CallRead, ReadRest, CallInit, history
<1>2. pc[p] \notin {"pull", "start"}
  BY DEF SleepForData, Get, InitLine, SleepForRoom, WaitOver, Reopen, ClearStatus, Interrupted,
     CallStatus, CallRead, ReadRest, CallInit, May
<1>3. \A q \in Procs : q # p => pc'[q] = pc[q]
  BY ProcFacts DEF SleepForData, Get, InitLine, SleepForRoom, WaitOver, Reopen, ClearStatus, Interrupted,
     CallStatus, CallRead, ReadRest, CallInit
<1>4. \A q \in Procs : q # p => call'[q] = call[q]
  BY ProcFacts DEF SleepForData, Get, InitLine, SleepForRoom, WaitOver, Reopen, ClearStatus, Interrupted,
     CallStatus, CallRead, ReadRest, CallInit
<1>5. LessText(p) /\ \A q \in Procs : q # p => text'[q] = text[q]
  <2>1. CASE text' = text
    BY <2>1 DEF LessText
  <2>2. CASE text[p] # <<>> /\ text' = [text EXCEPT ![p] = Tail(@)]
    BY <2>2, ProcFacts DEF LessText
  <2>3. text' = text \/ (text[p] # <<>> /\ text' = [text EXCEPT ![p] = Tail(@)])
    BY DEF SleepForData, Get, InitLine, SleepForRoom, WaitOver, Reopen, ClearStatus, Interrupted,
       CallStatus, CallRead, ReadRest, CallInit
  <2> QED BY <2>1, <2>2, <2>3
<1>6. /\ pc'[p] \notin {"pull", "start"}
      /\ Active(p)' => Active(p) /\ call'[p] = call[p] /\ text'[p] = text[p]
  <2>1. CASE \/ SleepForData(p) \/ Get(p) \/ WaitOver(p) \/ Reopen(p) \/ ClearStatus(p)
             \/ Interrupted(p) \/ CallRead(p) \/ \E e \in BOOLEAN : CallInit(p, e)
    <3>1. pc'[p] \in {"idle", "asleep_read", "reopen", "read", "wait_until_fifo_empty"}
      BY <2>1, ProcFacts DEF SleepForData, Get, WaitOver, Reopen, ClearStatus, Interrupted, CallRead,
         CallInit
    <3> QED BY <3>1 DEF Active
  <2>2. CASE ReadRest(p) \/ CallStatus(p)
    <3>1. pc'[p] \in {"idle", "status"}
      BY <2>2, ProcFacts DEF ReadRest, CallStatus, May
    <3> QED BY <3>1 DEF Active
  <2>3. CASE InitLine(p)
    <3>1. pc'[p] \in {"idle", "parse"}
      BY <2>3, ProcFacts DEF InitLine, May
    <3> QED BY <3>1 DEF Active
  <2>4. CASE SleepForRoom(p)
    <3>1. pc[p] = "write" /\ pc'[p] \in {"idle", "asleep_write"} /\ UNCHANGED <<call, text>>
      BY <2>4, ProcFacts DEF SleepForRoom, May
    <3> QED BY <3>1 DEF Active
  <2> QED BY <2>1, <2>2, <2>3, <2>4
<1> QED BY <1>1, <1>2, <1>3, <1>4, <1>5, <1>6, QuietProc

HasPut(p) == Put(p) /\ pc'[p] = "pull"

LEMMA QuietPut ==
  ASSUME TypeInv, NEW p \in Procs, Put(p)
  PROVE  (Quiet /\ Settled) \/ HasPut(p)
<1>1. CASE pc'[p] = "pull"
  BY <1>1 DEF HasPut
<1>2. CASE pc'[p] # "pull"
  <2>1. /\ pc[p] = "write" /\ accepted' = accepted /\ count' = count /\ UNCHANGED <<call, text>>
        /\ pc'[p] = "idle" /\ \A q \in Procs : q # p => pc'[q] = pc[q]
    BY <1>2, ProcFacts DEF Put, May
  <2>2. ~Active(p)' /\ LessText(p)
    BY <2>1 DEF Active, LessText
  <2> QED BY <2>1, <2>2, QuietProc
<1> QED BY <1>1, <1>2

LEMMA QuietHandlers ==
  ASSUME TypeInv, \/ SjaIrq \/ UsbWriteNotify
                  \/ (\E n, k \in 0 .. Block, r \in BOOLEAN : UsbReadNotify(n, k, r))
  PROVE  Quiet /\ Settled
<1>1. Awakes /\ UNCHANGED <<call, text>>
  BY HandlerWakes
<1>2. accepted' = accepted /\ count' = count
  BY DEF SjaIrq, UsbWriteNotify, UsbReadNotify
<1> QED BY <1>1, <1>2, QuietHandler

LEMMA QuietOutside ==
  ASSUME TypeInv, Outside
  PROVE  Quiet /\ Settled
<1>1. UNCHANGED <<pc, call, text>>
  BY OutsideKeeps
<1>2. accepted' = accepted
  BY DEF Outside, Transmitted, BusTrouble, UsbWriteFailed, Unplug, Received
<1>3. count'.writes = count.writes
  <2>1. CASE Transmitted \/ BusTrouble \/ UsbWriteFailed \/ Unplug
    BY <2>1 DEF Transmitted, BusTrouble, UsbWriteFailed, Unplug
  <2>2. CASE \E f \in Frames : Received(f)
    <3>1. Counted("rx")
      BY <2>2 DEF Received
    <3> QED BY <3>1, CountedType
  <2> QED BY <2>1, <2>2 DEF Outside
<1>4. Awakes
  BY <1>1 DEF Awakes
<1> QED BY <1>1, <1>2, <1>3, <1>4, QuietHandler

LEMMA QuietSteps ==
  ASSUME TypeInv, RunInv, OrderInv, NumbersInv, Next
  PROVE  \/ Quiet /\ Settled
         \/ \E p \in Procs : BeginsLine(p) \/ HasPut(p)
         \/ \E p \in Procs, m \in Messages : CallWrite(p, m)
         \/ \E p \in Procs, l \in Lines : CallWriteText(p, l)
BY StepsAre, QuietClaim, QuietParse, QuietCalls, QuietPut, QuietHandlers, QuietOutside, QuietStart
   DEF Outside

\* What a call of write() or the ioctl begins.
LEMMA OnceCallWrite ==
  ASSUME TypeInv, OrderInv, NumbersInv, OnceInv, Slides, trouble' = trouble,
         NEW p \in Procs, NEW m \in Messages, CallWrite(p, m)
  PROVE  NumbersInv' /\ OnceInv'
<1> DEFINE n == count.writes + 1
<1>1. /\ count.writes \in Nat /\ count'.writes = n /\ n \in Nat
      /\ \A i \in 1 .. Len(accepted) : accepted[i].DATA \in Nat
  <2>1. count.writes \in Nat
    BY DEF TypeInv, HistTypes
  <2>2. count'.writes = n
    BY CountedType DEF CallWrite
  <2>3. \A i \in 1 .. Len(accepted) : accepted[i] \in Msgs
    BY WFacts, Elements
  <2> QED BY <2>1, <2>2, <2>3 DEF Msgs
<1>2. /\ pc[p] = "idle" /\ accepted' = accepted /\ text' = text
      /\ ucPhysicallyInstalled' = ucPhysicallyInstalled
  BY DEF CallWrite, May, device
<1>3. /\ pc'[p] = "write" /\ \A q \in Procs : q # p => pc'[q] = pc[q] /\ call'[q] = call[q]
      /\ call'[p].text = FALSE /\ call'[p].msg.DATA = n
  <2>1. call' = [call EXCEPT ![p] = [msg |-> Numbered(m), text |-> FALSE]]
        /\ pc' = [pc EXCEPT ![p] = "write"]
    BY DEF CallWrite
  <2>2. Numbered(m).DATA = n
    BY DEF Numbered
  <2>3. pc'[p] = "write" /\ \A q \in Procs : q # p => pc'[q] = pc[q]
    BY <2>1, ProcFacts
  <2>4. call'[p] = [msg |-> Numbered(m), text |-> FALSE] /\ \A q \in Procs : q # p => call'[q] = call[q]
    BY <2>1, ProcFacts
  <2> QED BY <2>2, <2>3, <2>4
<1> HIDE DEF n
<1>4. /\ ~Active(p) /\ ~PutBy(p) /\ ~PutBy(p)'
      /\ \A q \in Procs : q # p => (Active(q)' <=> Active(q)) /\ (PutBy(q)' <=> PutBy(q))
  BY <1>2, <1>3 DEF Active, PutBy
<1>5. \A q \in Procs : LinesOf(q)' = LinesOf(q) /\ \A k : Number(q, k)' = Number(q, k)
  BY <1>2 DEF LinesOf, Number
<1>6. /\ count.writes < n
      /\ \A k : k \in 1 .. count.writes => k \in 1 .. n /\ k # n
  BY <1>1 DEF n
<1>7. AcceptedNumbers' /\ \A i \in 1 .. Len(accepted) : accepted[i].DATA # n
  BY <1>1, <1>2, <1>6 DEF NumbersInv, AcceptedNumbers
<1>8. /\ LineNumbers' /\ \A q \in Procs : \A k \in LinesOf(q) : Number(q, k) # n
  BY <1>1, <1>5, <1>6 DEF NumbersInv, LineNumbers
<1>9. CallNumbers'
  <2> SUFFICES ASSUME NEW q \in Procs, Active(q)' PROVE OwnNumber(q)'
    BY DEF CallNumbers
  <2>1. \A r \in Procs : Active(r) /\ ~call[r].text => call[r].msg.DATA # n
    BY <1>6 DEF NumbersInv, CallNumbers, OwnNumber
  <2>2. CASE q = p
    <3>1. n \in 1 .. n
      BY <1>1, <1>6
    <3>2. \A r \in Procs : r # p /\ Active(r)' /\ ~call'[r].text => call'[r].msg.DATA # n
      BY <1>3, <1>4, <2>1
    <3> QED BY <1>1, <1>3, <1>5, <1>8, <2>2, <3>1, <3>2 DEF OwnNumber
  <2>3. CASE q # p
    <3>1. OwnNumber(q) /\ Active(q) /\ call'[q] = call[q]
      BY <1>3, <1>4, <2>3 DEF NumbersInv, CallNumbers
    <3>2. \A r \in Procs : r # q /\ Active(r)' /\ ~call'[r].text
                                  /\ ~call[q].text
             => call'[r].msg.DATA # call[q].msg.DATA
      BY <1>3, <1>4, <2>1, <3>1 DEF OwnNumber
    <3>3. ~call[q].text => call[q].msg.DATA \in 1 .. count'.writes
      BY <1>1, <1>6, <3>1 DEF OwnNumber
    <3> QED BY <1>2, <1>5, <3>1, <3>2, <3>3 DEF OwnNumber
  <2> QED BY <2>2, <2>3
<1>10. LastNumber'
  BY <1>2, <1>3, <1>4 DEF NumbersInv, LastNumber, Slides
<1>11. OnceInv'
  <2> SUFFICES ASSUME Calm(OnceSet)' PROVE OnceInv'
    BY DEF OnceInv, OnceSet
  <2>1. Calm(OnceSet) /\ Away' \subseteq Away
    BY DEF Calm, Slides
  <2>2. ASSUME NEW x \in Away', NEW q \in Procs, ucPhysicallyInstalled' PROVE Fresh(x, q)'
    <3>1. Fresh(x, q) /\ x \in 1 .. Len(accepted)
      BY <1>2, <2>1, <2>2 DEF OnceInv, OnceSet, Away, OrderInv, Within
    <3>2. CASE q = p
      BY <1>2, <1>3, <1>4, <1>5, <1>7, <3>1, <3>2 DEF Fresh
    <3>3. CASE q # p
      BY <1>2, <1>3, <1>4, <1>5, <3>1, <3>3 DEF Fresh
    <3> QED BY <3>2, <3>3
  <2> QED BY <1>2, <2>1, <2>2 DEF OnceInv, OnceSet
<1> QED BY <1>7, <1>8, <1>9, <1>10, <1>11 DEF NumbersInv

LEMMA OnceCallText ==
  ASSUME TypeInv, OrderInv, NumbersInv, OnceInv, Slides, trouble' = trouble,
         NEW p \in Procs, NEW l \in Lines, CallWriteText(p, l)
  PROVE  NumbersInv' /\ OnceInv'
<1> DEFINE n == count.writes + 1
<1>1. /\ count.writes \in Nat /\ count'.writes = n /\ n \in Nat
      /\ \A i \in 1 .. Len(accepted) : accepted[i].DATA \in Nat
  <2>1. count.writes \in Nat
    BY DEF TypeInv, HistTypes
  <2>2. count'.writes = n
    BY CountedType DEF CallWriteText
  <2>3. \A i \in 1 .. Len(accepted) : accepted[i] \in Msgs
    BY WFacts, Elements
  <2> QED BY <2>1, <2>2, <2>3 DEF Msgs
<1>2. /\ pc[p] = "idle" /\ accepted' = accepted /\ call' = call
      /\ ucPhysicallyInstalled' = ucPhysicallyInstalled
  BY DEF CallWriteText, May, device
<1>3. pc'[p] = "parse" /\ \A q \in Procs : q # p => pc'[q] = pc[q]
  BY ProcFacts DEF CallWriteText
<1>14. PICK t \in Nat : t = Len(text[p]) + 1
  <2>1. text[p] \in Seq(LineSet)
    BY ProcFacts
  <2> QED BY <2>1, Elements
<1>4. /\ LinesOf(p)' = LinesOf(p) \cup {t} /\ t \notin LinesOf(p) /\ Number(p, t)' = n
      /\ \A k \in LinesOf(p) : Number(p, k)' = Number(p, k)
      /\ \A q \in Procs : q # p => LinesOf(q)' = LinesOf(q) /\ \A k : Number(q, k)' = Number(q, k)
      /\ text[p] # <<>> => 1 \in LinesOf(p)
  <2> DEFINE line == [l EXCEPT !.msg = Numbered(@)]
  <2>1. text' = [text EXCEPT ![p] = Append(@, line)]
    BY DEF CallWriteText
  <2>2. l \in [kind : {"message", "comment", "error", "init"},
               msg : [ID : Nat, MSGTYPE : SUBSET {"EXTENDED", "RTR"}]]
    BY PcanAssumption
  <2>3. line.msg = Numbered(l.msg) /\ line \in LineSet
    BY <2>2, NumberedType DEF LineSet
  <2>4. line.msg.DATA = n
    BY <2>3 DEF Numbered
  <2> HIDE DEF line, n
  <2>5. text[p] \in Seq(LineSet) /\ Len(text[p]) \in Nat
    BY ProcFacts, Elements
  <2>6. /\ Len(Append(text[p], line)) = t
        /\ \A i \in 1 .. Len(text[p]) : Append(text[p], line)[i] = text[p][i]
        /\ Append(text[p], line)[t] = line
    BY <1>14, <2>3, <2>5, AppendIs
  <2>7. text'[p] = Append(text[p], line) /\ \A q \in Procs : q # p => text'[q] = text[q]
    BY <2>1, ProcFacts
  <2>8. LinesOf(p)' = 1 .. t /\ LinesOf(p) = 1 .. Len(text[p])
    BY <2>6, <2>7 DEF LinesOf
  <2>9. LinesOf(p)' = LinesOf(p) \cup {t} /\ t \notin LinesOf(p)
    BY <1>14, <2>5, <2>8
  <2>10. Number(p, t)' = n /\ \A k \in LinesOf(p) : Number(p, k)' = Number(p, k)
    <3>1. text'[p][t] = line /\ \A k \in LinesOf(p) : text'[p][k] = text[p][k]
      BY <2>6, <2>7, <2>8
    <3>2. \A k : Number(p, k)' = text'[p][k].msg.DATA /\ Number(p, k) = text[p][k].msg.DATA
      BY DEF Number
    <3> QED BY <2>4, <3>1, <3>2
  <2>11. \A q \in Procs : q # p => LinesOf(q)' = LinesOf(q) /\ \A k : Number(q, k)' = Number(q, k)
    BY <2>7 DEF LinesOf, Number
  <2>12. text[p] # <<>> => 1 \in LinesOf(p)
    BY <2>5, <2>8
  <2> QED BY <2>9, <2>10, <2>11, <2>12
<1>5. /\ count.writes < n
      /\ \A k : k \in 1 .. count.writes => k \in 1 .. n /\ k # n
      /\ n \in 1 .. n
  BY <1>1 DEF n
<1>6. /\ ~Active(p) /\ ~PutBy(p) /\ ~PutBy(p)' /\ ~Active(p)'
      /\ \A q \in Procs : (Active(q)' <=> Active(q)) /\ (PutBy(q)' <=> PutBy(q))
      /\ \A q \in Procs : Active(q) => q # p
  BY <1>2, <1>3 DEF Active, PutBy
<1> HIDE DEF n
<1>7. AcceptedNumbers' /\ \A i \in 1 .. Len(accepted) : accepted[i].DATA # n
  BY <1>1, <1>2, <1>5 DEF NumbersInv, AcceptedNumbers
<1>8. \A q \in Procs : \A k \in LinesOf(q) : Number(q, k) \in 1 .. count.writes /\ Number(q, k) # n
  BY <1>5 DEF NumbersInv, LineNumbers
<1>9. ASSUME NEW q \in Procs, NEW k \in LinesOf(q)'
      PROVE  \/ q = p /\ k = t /\ Number(q, k)' = n
             \/ k \in LinesOf(q) /\ Number(q, k)' = Number(q, k)
  <2>1. CASE q = p
    <3>1. k \in LinesOf(p)' /\ Number(q, k)' = Number(p, k)' /\ Number(q, k) = Number(p, k)
      BY <2>1
    <3>2. CASE k = t
      BY <1>4, <2>1, <3>1, <3>2
    <3>3. CASE k \in LinesOf(p)
      BY <1>4, <2>1, <3>1, <3>3
    <3> QED BY <1>4, <3>1, <3>2, <3>3
  <2>2. CASE q # p
    BY <1>4, <2>2
  <2> QED BY <2>1, <2>2
<1>10. LineNumbers'
  <2>1. \A q \in Procs : \A k \in LinesOf(q)' : Number(q, k)' \in 1 .. count'.writes
    BY <1>1, <1>5, <1>8, <1>9
  <2>2. ASSUME NEW q \in Procs, NEW r \in Procs, NEW k \in LinesOf(q)', NEW j \in LinesOf(r)',
               Number(q, k)' = Number(r, j)'
        PROVE  q = r /\ k = j
    <3>1. CASE k \in LinesOf(q) /\ Number(q, k)' = Number(q, k)
      <4>1. Number(r, j)' # n
        BY <1>8, <2>2, <3>1
      <4>2. j \in LinesOf(r) /\ Number(r, j)' = Number(r, j)
        BY <1>9, <4>1
      <4> QED BY <2>2, <3>1, <4>2 DEF NumbersInv, LineNumbers
    <3>2. CASE q = p /\ k = t /\ Number(q, k)' = n
      <4>1. ~(j \in LinesOf(r) /\ Number(r, j)' = Number(r, j))
        BY <1>8, <2>2, <3>2
      <4> QED BY <1>9, <3>2, <4>1
    <3> QED BY <1>9, <3>1, <3>2
  <2> QED BY <2>1, <2>2 DEF LineNumbers
<1>11. CallNumbers'
  <2> SUFFICES ASSUME NEW q \in Procs, Active(q)' PROVE OwnNumber(q)'
    BY DEF CallNumbers
  <2>1. Active(q) /\ OwnNumber(q) /\ q # p
    BY <1>6 DEF NumbersInv, CallNumbers
  <2>2. text'[q] = text[q]
    BY <2>1, ProcFacts DEF CallWriteText
  <2>3. call[q].text => text'[q] # <<>> /\ call[q].msg.DATA \in {Garbage, Number(q, 1)'}
    BY <1>4, <2>1, <2>2 DEF OwnNumber
  <2>4. ~call[q].text => call[q].msg.DATA \in 1 .. count'.writes /\ call[q].msg.DATA # n
    BY <1>1, <1>5, <2>1 DEF OwnNumber
  <2>5. ~call[q].text => \A r \in Procs : \A k \in LinesOf(r)' : Number(r, k)' # call[q].msg.DATA
    BY <1>9, <2>1, <2>4 DEF OwnNumber
  <2>6. ~call[q].text => \A r \in Procs : r # q /\ Active(r)' /\ ~call[r].text
                                              => call[r].msg.DATA # call[q].msg.DATA
    BY <1>6, <2>1 DEF OwnNumber
  <2> QED BY <1>2, <2>3, <2>4, <2>5, <2>6 DEF OwnNumber
<1>12. LastNumber'
  BY <1>2, <1>6 DEF NumbersInv, LastNumber, Slides
<1>13. OnceInv'
  <2> SUFFICES ASSUME Calm(OnceSet)' PROVE OnceInv'
    BY DEF OnceInv, OnceSet
  <2>1. Calm(OnceSet) /\ Away' \subseteq Away
    BY DEF Calm, Slides
  <2>2. ASSUME NEW x \in Away', NEW q \in Procs, ucPhysicallyInstalled' PROVE Fresh(x, q)'
    <3>1. Fresh(x, q) /\ x \in 1 .. Len(accepted)
      BY <1>2, <2>1, <2>2 DEF OnceInv, OnceSet, Away, OrderInv, Within
    <3>2. ASSUME NEW k \in LinesOf(q)', accepted[x].DATA = Number(q, k)'
          PROVE  k \in LinesOf(q) /\ Number(q, k)' = Number(q, k)
      BY <1>7, <1>9, <3>1, <3>2
    <3> QED BY <1>2, <1>6, <3>1, <3>2 DEF Fresh
  <2> QED BY <1>2, <2>1, <2>2 DEF OnceInv, OnceSet
<1> QED BY <1>7, <1>10, <1>11, <1>12, <1>13 DEF NumbersInv

\* The loop over the lines begins to send one.
LEMMA OnceBeginsLine ==
  ASSUME TypeInv, NumbersInv, OnceInv, Slides, trouble' = trouble,
         ucPhysicallyInstalled' = ucPhysicallyInstalled,
         NEW p \in Procs, BeginsLine(p)
  PROVE  NumbersInv' /\ OnceInv'
<1>1. /\ pc[p] = "parse" /\ text[p] # <<>> /\ text' = text /\ accepted' = accepted
      /\ count' = count
  BY DEF BeginsLine, history
<1>2. PICK m \in Parsed(Head(text[p]), {Garbage}) :
        call' = [call EXCEPT ![p] = [msg |-> m, text |-> TRUE]]
  BY DEF BeginsLine
<1>3. m.DATA \in {Garbage, Number(p, 1)}
  <2>1. text[p] \in Seq(LineSet)
    BY ProcFacts
  <2>2. Head(text[p]) = text[p][1] /\ Head(text[p]) \in LineSet
    BY <1>1, <2>1, HeadTail
  <2>3. Head(text[p]).msg \in Msgs /\ Number(p, 1) = Head(text[p]).msg.DATA
    BY <2>2 DEF LineSet, Number
  <2>4. CASE m = Head(text[p]).msg
    BY <2>3, <2>4
  <2>5. CASE m = [Head(text[p]).msg EXCEPT !.DATA = Garbage]
    BY <2>3, <2>5 DEF Msgs
  <2> QED BY <2>4, <2>5 DEF Parsed
<1>4. /\ pc'[p] = "write" /\ call'[p].msg = m /\ call'[p].text = TRUE
      /\ \A q \in Procs : q # p => pc'[q] = pc[q] /\ call'[q] = call[q]
  <2>1. pc'[p] = "write" /\ \A q \in Procs : q # p => pc'[q] = pc[q]
    BY ProcFacts DEF BeginsLine
  <2>2. call'[p] = [msg |-> m, text |-> TRUE] /\ \A q \in Procs : q # p => call'[q] = call[q]
    BY <1>2, ProcFacts
  <2> QED BY <2>1, <2>2
<1>5. /\ ~Active(p) /\ ~PutBy(p) /\ ~PutBy(p)'
      /\ \A q \in Procs : q # p => (Active(q)' <=> Active(q)) /\ (PutBy(q)' <=> PutBy(q))
  BY <1>1, <1>4 DEF Active, PutBy
<1>6. \A q \in Procs : LinesOf(q)' = LinesOf(q) /\ \A k : Number(q, k)' = Number(q, k)
  BY <1>1 DEF LinesOf, Number
<1>7. AcceptedNumbers' /\ LineNumbers'
  BY <1>1, <1>6 DEF NumbersInv, AcceptedNumbers, LineNumbers
<1>8. CallNumbers'
  <2> SUFFICES ASSUME NEW q \in Procs, Active(q)' PROVE OwnNumber(q)'
    BY DEF CallNumbers
  <2>1. CASE q = p
    BY <1>1, <1>3, <1>4, <1>6, <2>1 DEF OwnNumber
  <2>2. CASE q # p
    <3>1. OwnNumber(q) /\ call'[q] = call[q]
      BY <1>4, <1>5, <2>2 DEF NumbersInv, CallNumbers
    <3>2. \A r \in Procs : r # q /\ Active(r)' /\ ~call'[r].text /\ ~call[q].text
             => call'[r].msg.DATA # call[q].msg.DATA
      BY <1>4, <1>5, <3>1 DEF OwnNumber
    <3> QED BY <1>1, <1>6, <3>1, <3>2 DEF OwnNumber
  <2> QED BY <2>1, <2>2
<1>9. LastNumber'
  BY <1>1, <1>4, <1>5 DEF NumbersInv, LastNumber, Slides
<1>10. OnceInv'
  <2> SUFFICES ASSUME Calm(OnceSet)' PROVE OnceInv'
    BY DEF OnceInv, OnceSet
  <2>1. Calm(OnceSet) /\ Away' \subseteq Away
    BY DEF Calm, Slides
  <2>2. ASSUME NEW x \in Away', NEW q \in Procs, ucPhysicallyInstalled' PROVE Fresh(x, q)'
    <3>1. Fresh(x, q)
      BY <2>1, <2>2 DEF OnceInv, OnceSet
    <3>2. CASE q = p
      BY <1>1, <1>4, <1>5, <1>6, <3>1, <3>2 DEF Fresh
    <3>3. CASE q # p
      BY <1>1, <1>4, <1>5, <1>6, <3>1, <3>3 DEF Fresh
    <3> QED BY <3>2, <3>3
  <2> QED BY <1>1, <2>1, <2>2 DEF OnceInv, OnceSet
<1> QED BY <1>7, <1>8, <1>9, <1>10 DEF NumbersInv

\* A message enters writeFifo: nothing with its number is away.
LEMMA OnceHasPut ==
  ASSUME TypeInv, RunInv, OrderInv, NumbersInv, OnceInv, NEW p \in Procs, HasPut(p)
  PROVE  NumbersInv' /\ OnceInv'
<1> DEFINE m == [call[p].msg EXCEPT !.pos = Len(accepted) + 1]
<1>1. /\ PutStep(m) /\ m \in Msgs /\ ucPhysicallyInstalled /\ m.DATA = call[p].msg.DATA
  <2>1. PutStep(m) /\ m \in Msgs /\ ucPhysicallyInstalled
    BY PutPuts DEF HasPut
  <2>2. call[p].msg \in Msgs
    BY ProcFacts
  <2> QED BY <2>1, <2>2 DEF Msgs
<1> HIDE DEF m
<1>2. PICK t \in Nat : t = Len(accepted) + 1
  BY WFacts
<1>3. /\ Len(accepted') = t /\ accepted'[t] = m /\ Len(accepted) \in Nat
      /\ \A i \in 1 .. Len(accepted) : accepted'[i] = accepted[i]
      /\ \A i \in 1 .. t : i = t \/ i \in 1 .. Len(accepted)
  <2>1. accepted' = Append(accepted, m) /\ accepted \in Seq(Msgs)
    BY <1>1, WFacts DEF PutStep
  <2>2. /\ Len(accepted') = t /\ accepted'[t] = m
        /\ \A i \in 1 .. Len(accepted) : accepted'[i] = accepted[i]
    BY <1>1, <1>2, <2>1, AppendIs
  <2>3. \A i \in 1 .. t : i = t \/ i \in 1 .. Len(accepted)
    BY <1>2, WFacts
  <2> QED BY <2>2, <2>3, WFacts
<1>4. /\ bus' = bus /\ tx' = tx /\ m.pos = t
      /\ Len(W') = Len(W) + 1 /\ Len(W) \in Nat /\ W'[Len(W')] = m
      /\ \A i \in 1 .. Len(W) : W'[i] = W[i]
  BY <1>1, <1>2, WFacts, AppendIs DEF PutStep
<1>5. Away' = Away \cup {t}
  <2>1. Away' = {bus'[i].pos : i \in 1 .. Len(bus')} \cup {tx'[i].pos : i \in 1 .. Len(tx')}
                  \cup {W'[i].pos : i \in 1 .. Len(W')}
    BY DEF Away
  <2>2. {W'[i].pos : i \in 1 .. Len(W')} = {W[i].pos : i \in 1 .. Len(W)} \cup {t}
    <3>1. 1 .. Len(W') = 1 .. Len(W) \cup {Len(W')}
      BY <1>4
    <3> QED BY <1>4, <3>1
  <2> QED BY <1>4, <2>1, <2>2 DEF Away
<1>6. /\ pc[p] = "write" /\ UNCHANGED <<call, text, count, ucPhysicallyInstalled, trouble>>
      /\ pc'[p] = "pull" /\ \A q \in Procs : q # p => pc'[q] = pc[q]
  BY ProcFacts DEF HasPut, Put, May, device
<1>7. \A q \in Procs : ~PutBy(q)
  <2>1. running \in {NoProc, p}
    BY DEF HasPut, Put, May
  <2> QED BY <1>6, <2>1, Alone DEF PutBy, Locked
<1>8. /\ \A q \in Procs : (Active(q)' <=> Active(q)) /\ (PutBy(q)' <=> q = p)
      /\ Active(p)
  BY <1>6, <1>7 DEF Active, PutBy
<1>9. \A q \in Procs : LinesOf(q)' = LinesOf(q) /\ \A k : Number(q, k)' = Number(q, k)
  BY <1>6 DEF LinesOf, Number
<1>10. OwnNumber(p) /\ \A q \in Procs : \A k \in LinesOf(q) : Number(q, k) \in 1 .. count.writes
  BY <1>8 DEF NumbersInv, CallNumbers, LineNumbers
<1>11. call[p].text => 1 \in LinesOf(p)
  <2> SUFFICES ASSUME call[p].text PROVE 1 \in LinesOf(p)
    OBVIOUS
  <2>1. text[p] \in Seq(LineSet) /\ text[p] # <<>>
    BY <1>10, ProcFacts DEF OwnNumber
  <2>2. Len(text[p]) \in Nat \ {0}
    BY <2>1, HeadTail
  <2> QED BY <2>2 DEF LinesOf
<1>12. AcceptedNumbers'
  <2> SUFFICES ASSUME NEW i \in 1 .. t PROVE accepted'[i].DATA <= count.writes
    BY <1>3, <1>6 DEF AcceptedNumbers
  <2>1. CASE i \in 1 .. Len(accepted)
    BY <1>3, <2>1 DEF NumbersInv, AcceptedNumbers
  <2>2. m.DATA <= count.writes
    <3>1. count.writes \in Nat
      BY DEF TypeInv, HistTypes
    <3>2. CASE call[p].text
      BY <1>1, <1>10, <1>11, <3>1, <3>2 DEF OwnNumber, Garbage
    <3>3. CASE ~call[p].text
      BY <1>1, <1>10, <3>1, <3>3 DEF OwnNumber
    <3> QED BY <3>2, <3>3
  <2> QED BY <1>3, <2>1, <2>2
<1>13. LineNumbers'
  BY <1>6, <1>9 DEF NumbersInv, LineNumbers
<1>14. CallNumbers'
  <2> SUFFICES ASSUME NEW q \in Procs, Active(q)' PROVE OwnNumber(q)'
    BY DEF CallNumbers
  <2>1. OwnNumber(q)
    BY <1>8 DEF NumbersInv, CallNumbers
  <2> QED BY <1>6, <1>8, <1>9, <2>1 DEF OwnNumber
<1>15. LastNumber'
  <2>1. accepted' # <<>>
    <3>1. Len(accepted') > 0
      BY <1>2, <1>3
    <3> QED BY <3>1
  <2> QED BY <1>1, <1>3, <1>4, <1>6, <1>8, <2>1 DEF LastNumber
<1>16. OnceInv'
  <2> SUFFICES ASSUME Calm(OnceSet)' PROVE OnceInv'
    BY DEF OnceInv, OnceSet
  <2>1. Calm(OnceSet)
    BY <1>6 DEF Calm
  <2>2. \A x \in Away, q \in Procs : Fresh(x, q)
    BY <1>1, <2>1 DEF OnceInv, OnceSet
  <2>3. \A x \in Away : x \in 1 .. Len(accepted) /\ accepted'[x] = accepted[x]
    BY <1>3 DEF Away, OrderInv, Within
  <2>4. ASSUME NEW x \in Away, NEW q \in Procs
        PROVE  /\ \A k \in LinesOf(q) : accepted[x].DATA # Number(q, k)
               /\ Active(q) /\ ~call[q].text => accepted[x].DATA # call[q].msg.DATA
    BY <1>7, <2>2 DEF Fresh
  <2>5. \A x \in Away : accepted[x].DATA = m.DATA => m.DATA = Garbage
    <3>1. CASE call[p].text
      BY <1>1, <1>10, <1>11, <2>4, <3>1 DEF OwnNumber
    <3>2. CASE ~call[p].text
      BY <1>1, <1>8, <2>4, <3>2
    <3> QED BY <3>1, <3>2
  <2>6. \A x, y \in Away' :
          accepted'[x].DATA = accepted'[y].DATA => x = y \/ accepted'[x].DATA = Garbage
    <3>1. \A x, y \in Away : accepted[x].DATA = accepted[y].DATA => x = y \/ accepted[x].DATA = Garbage
      BY <2>1 DEF OnceInv, OnceSet
    <3> QED BY <1>3, <1>5, <2>3, <2>5, <3>1
  <2>7. ASSUME NEW x \in Away', NEW q \in Procs PROVE Fresh(x, q)'
    <3>1. CASE x \in Away
      <4>1. /\ \A k \in LinesOf(q) : accepted'[x].DATA # Number(q, k)
            /\ Active(q) /\ ~call[q].text => accepted'[x].DATA # call[q].msg.DATA
        BY <2>3, <2>4, <3>1
      <4> QED BY <1>6, <1>8, <1>9, <4>1 DEF Fresh
    <3>2. CASE x = t
      <4>1. accepted'[x].DATA = call[p].msg.DATA /\ x = Len(accepted')
        BY <1>1, <1>3, <3>2
      <4>2. ASSUME NEW k \in LinesOf(q), call[p].msg.DATA = Number(q, k)
            PROVE  k = 1 /\ q = p /\ call[p].text
        <5>1. call[p].text
          BY <1>10, <4>2 DEF OwnNumber
        <5>2. Number(q, k) # Garbage
          BY <1>10 DEF Garbage
        <5>3. Number(q, k) = Number(p, 1)
          BY <1>10, <4>2, <5>1, <5>2 DEF OwnNumber
        <5> QED BY <1>11, <5>1, <5>3 DEF NumbersInv, LineNumbers
      <4>3. ASSUME Active(q), ~call[q].text, call[p].msg.DATA = call[q].msg.DATA
            PROVE  q = p
        <5>1. OwnNumber(q)
          BY <4>3 DEF NumbersInv, CallNumbers
        <5>2. CASE ~call[p].text
          BY <1>8, <1>10, <4>3, <5>2 DEF OwnNumber
        <5>3. CASE call[p].text
          <6>1. call[q].msg.DATA \in 1 .. count.writes /\ call[q].msg.DATA # Number(p, 1)
            BY <1>11, <4>3, <5>1, <5>3 DEF OwnNumber
          <6>2. call[p].msg.DATA \in {Garbage, Number(p, 1)}
            BY <1>10, <5>3 DEF OwnNumber
          <6> QED BY <4>3, <6>1, <6>2 DEF Garbage
        <5> QED BY <5>2, <5>3
      <4> QED BY <1>6, <1>8, <1>9, <4>1, <4>2, <4>3 DEF Fresh
    <3> QED BY <1>5, <3>1, <3>2
  <2> QED BY <2>6, <2>7 DEF OnceInv
<1> QED BY <1>12, <1>13, <1>14, <1>15, <1>16 DEF NumbersInv

LEMMA OnceNext ==
  ASSUME TypeInv, RunInv, OrderInv, NumbersInv, OnceInv, SendStep, Next
  PROVE  NumbersInv' /\ OnceInv'
<1>1. trouble \subseteq trouble'
  BY TroubleGrows
<1>2. ucPhysicallyInstalled' => ucPhysicallyInstalled
  <2>1. ASSUME NEW p \in Procs,
               \/ SleepForData(p) \/ Get(p) \/ Parse(p) \/ InitLine(p) \/ SleepForRoom(p)
               \/ Put(p) \/ Claim(p) \/ StartWrite(p) \/ WaitOver(p) \/ Reopen(p)
               \/ ClearStatus(p) \/ Interrupted(p) \/ CallStatus(p)
               \/ CallRead(p) \/ ReadRest(p)
               \/ \E e \in BOOLEAN : CallInit(p, e)
               \/ \E m \in Messages : CallWrite(p, m)
               \/ \E l \in Lines : CallWriteText(p, l)
        PROVE  ucPhysicallyInstalled' => ucPhysicallyInstalled
    BY <2>1 DEF SleepForData, Get, Parse, InitLine, SleepForRoom, Put, Claim, StartWrite, WaitOver,
       Reopen, ClearStatus, Interrupted, CallStatus, CallRead, ReadRest, CallInit, CallWrite,
       CallWriteText, device
  <2>2. ASSUME \/ SjaIrq \/ UsbWriteNotify
               \/ \E n, k \in 0 .. Block, r \in BOOLEAN : UsbReadNotify(n, k, r)
               \/ Transmitted \/ BusTrouble \/ UsbWriteFailed \/ Unplug
               \/ \E f \in Frames : Received(f)
        PROVE  ucPhysicallyInstalled' => ucPhysicallyInstalled
    BY <2>2, ZenonT(60) DEF SjaIrq, UsbWriteNotify, UsbReadNotify, Transmitted, BusTrouble, UsbWriteFailed,
       Unplug, Received, device
  <2> QED BY StepsAre, <2>1, <2>2
<1>3. CASE Quiet /\ Settled
  <2>1. Slides
    BY <1>3, StepSlides DEF Quiet
  <2> QED BY <1>1, <1>2, <1>3, <2>1, NumbersQuiet, OnceQuiet
<1>4. ASSUME NEW p \in Procs, BeginsLine(p) PROVE NumbersInv' /\ OnceInv'
  <2>1. accepted' = accepted /\ trouble' = trouble
    BY <1>4 DEF BeginsLine, history
  <2>2. ucPhysicallyInstalled' = ucPhysicallyInstalled
    BY <1>4 DEF BeginsLine, device
  <2> QED BY <1>4, <2>1, <2>2, StepSlides, OnceBeginsLine
<1>5. ASSUME NEW p \in Procs, HasPut(p) PROVE NumbersInv' /\ OnceInv'
  BY <1>5, OnceHasPut
<1>6. ASSUME NEW p \in Procs, NEW m \in Messages, CallWrite(p, m) PROVE NumbersInv' /\ OnceInv'
  <2>1. accepted' = accepted /\ trouble' = trouble
    BY <1>6 DEF CallWrite
  <2> QED BY <1>6, <2>1, StepSlides, OnceCallWrite
<1>7. ASSUME NEW p \in Procs, NEW l \in Lines, CallWriteText(p, l) PROVE NumbersInv' /\ OnceInv'
  <2>1. accepted' = accepted /\ trouble' = trouble
    BY <1>7 DEF CallWriteText
  <2> QED BY <1>7, <2>1, StepSlides, OnceCallText
<1> QED BY <1>3, <1>4, <1>5, <1>6, <1>7, QuietSteps

LEMMA LinesSentOnceHolds ==
  ASSUME TypeInv, OrderInv, OnceInv
  PROVE  LinesSentOnce
<1> SUFFICES ASSUME Calm({"nodata", "left"}),
                    NEW i \in 1 .. Len(UnderWay), NEW j \in 1 .. Len(UnderWay),
                    accepted[UnderWay[i]].DATA = accepted[UnderWay[j]].DATA
             PROVE  i = j \/ accepted[UnderWay[i]].DATA = Garbage
  BY DEF LinesSentOnce
<1>1. UnderWay[i] \in Away /\ UnderWay[j] \in Away /\ UnderWay \in Seq(Nat)
  BY UnderWayIs
<1>2. UnderWay[i] = UnderWay[j] \/ accepted[UnderWay[i]].DATA = Garbage
  BY <1>1 DEF OnceInv
<1>3. ASSUME UnderWay[i] = UnderWay[j], i # j PROVE FALSE
  <2>1. i < j => UnderWay[i] < UnderWay[j]
    BY UnderWayIs DEF Grows
  <2>2. j < i => UnderWay[j] < UnderWay[i]
    BY UnderWayIs DEF Grows
  <2>3. UnderWay[i] \in Nat /\ UnderWay[j] \in Nat
    BY <1>1, Elements
  <2> QED BY <1>3, <2>1, <2>2, <2>3
<1> QED BY <1>2, <1>3

(***************************************************************************)
(* What write() and the ioctl of pcan_fops.c accept is sent in order, once *)
(* and as it was written: the positions of the messages grow from the bus  *)
(* over the controller to writeFifo, the registers written for a message   *)
(* read back as its identifier, and no line of text is sent a second time, *)
(* because an error that leaves the line in the buffer means that nothing  *)
(* with its number is under way.                                           *)
(***************************************************************************)
THEOREM CharSentAsWritten == Spec => []SentAsWritten
<1> DEFINE IInv == TypeInv /\ RunInv /\ OrderInv /\ ContentInv /\ NumbersInv /\ OnceInv
<1>1. Init => IInv
  <2> SUFFICES ASSUME Init PROVE IInv
    OBVIOUS
  <2>1. TypeInv
    BY InitTypes
  <2>2. RunInv
    BY NoProcIsNone DEF Init, RunInv
  <2>3. Len(W) = 0
    <3>1. Empty \in Msgs
      BY DEF Empty, Msgs, Types
    <3>2. pcan_fifo_init(WCount, Empty).nStored = 0
      BY <3>1, Sizes, RingInit
    <3> QED BY <2>1, <3>2, WFacts DEF Init
  <2>4. /\ Len(bus) = 0 /\ Len(tx) = 0 /\ Len(accepted) = 0
        /\ pc = [p \in Procs |-> "idle"] /\ text = [p \in Procs |-> <<>>]
    BY DEF Init
  <2>5. OrderInv /\ ContentInv
    <3>1. wf.nStored = 0
      BY <2>1, <2>3, WFacts
    <3> QED BY <2>3, <2>4, <3>1 DEF OrderInv, ContentInv, Inc, Before, Within
  <2>6. \A p \in Procs : LinesOf(p) = {} /\ ~Active(p) /\ ~PutBy(p)
    <3>1. \A p \in Procs : text[p] = <<>> /\ pc[p] = "idle"
      BY <2>4
    <3> QED BY <3>1 DEF LinesOf, Active, PutBy
  <2>7. Away = {}
    BY <2>3, <2>4 DEF Away
  <2>8. NumbersInv /\ OnceInv
    BY <2>4, <2>6, <2>7 DEF NumbersInv, AcceptedNumbers, LineNumbers, CallNumbers, LastNumber, OnceInv
  <2> QED BY <2>1, <2>2, <2>5, <2>8
<1>2. IInv /\ [Next]_vars => IInv'
  <2>1. IInv /\ Next => IInv'
    <3> SUFFICES ASSUME IInv, Next PROVE IInv'
      OBVIOUS
    <3>1. TypeInv /\ RunInv /\ OrderInv /\ ContentInv /\ NumbersInv /\ OnceInv
      OBVIOUS
    <3>2. TypeInv' /\ RunInv'
      BY <3>1, TypeNext, RunNext
    <3>3. SendStep
      BY <3>1, <3>2, SendSteps
    <3>4. hw' = hw /\ trouble \subseteq trouble'
      BY HwKept, TroubleGrows
    <3>5. OrderInv' /\ ContentInv'
      BY <3>1, <3>2, <3>3, <3>4, OrderNext, ContentNext
    <3>6. NumbersInv' /\ OnceInv'
      BY <3>1, <3>3, OnceNext
    <3> QED BY <3>2, <3>5, <3>6
  <2>2. IInv /\ UNCHANGED vars => IInv'
    <3> SUFFICES ASSUME IInv, UNCHANGED vars PROVE IInv'
      OBVIOUS
    <3>1. TypeInv' /\ RunInv'
      BY TypeStutter, RunStutter
    <3>2. UNCHANGED <<wf, tx, bus, accepted, trouble, hw, text, call, pc, count,
                      ucPhysicallyInstalled>>
      BY DEF vars, queues, device, chip, procs, history
    <3>3. SendStep
      BY <3>2 DEF SendStep, DropStep, W
    <3>4. OrderInv' /\ ContentInv'
      BY <3>1, <3>2, <3>3, OrderNext, ContentNext
    <3>5. Awakes
      BY <3>2 DEF Awakes
    <3>6. Quiet /\ Settled /\ Slides
      BY <3>2, <3>3, <3>5, QuietHandler, StepSlides
    <3>7. NumbersInv' /\ OnceInv'
      BY <3>2, <3>6, NumbersQuiet, OnceQuiet
    <3> QED BY <3>1, <3>4, <3>7
  <2> QED BY <2>1, <2>2
<1>3. IInv => SentAsWritten
  BY SentInOrderHolds, LinesSentOnceHolds DEF SentAsWritten
<1> HIDE DEF IInv
<1> QED BY <1>1, <1>2, <1>3, PTL DEF Spec
----------------------------------------------------------------------------
(* What is read is what was received, or the loss is told.                 *)

Framed(q) == {i \in 1 .. Len(q) : IsFrame(q[i])}
Has(q, n) == \E i \in Framed(q) : q[i].DATA = n
Sound(q) == \A i \in Framed(q) : q[i].DATA \in 1 .. Len(got) /\ AsSent(q[i], got[q[i].DATA])
Rising(q) == \A i, j \in Framed(q) : i < j => q[i].DATA < q[j].DATA
Below(q, n) == \A i \in Framed(q) : q[i].DATA < n

Added(q, m) == Append(q, m)

LEMMA AddOne ==
  ASSUME NEW q \in Seq(Told), NEW m \in Told
  PROVE  /\ Added(q, m) \in Seq(Told) /\ Len(q) \in Nat
         /\ \A i \in Framed(q) : i \in Framed(Added(q, m)) /\ Added(q, m)[i] = q[i]
                                   /\ i \in Nat /\ i < Len(q) + 1
         /\ \A i \in Framed(Added(q, m)) :
              \/ i \in Framed(q) /\ Added(q, m)[i] = q[i]
              \/ i = Len(q) + 1 /\ Added(q, m)[i] = m
         /\ ~IsFrame(m) => \A i \in Framed(Added(q, m)) : i \in Framed(q) /\ Added(q, m)[i] = q[i]
         /\ IsFrame(m) => Len(q) + 1 \in Framed(Added(q, m)) /\ Added(q, m)[Len(q) + 1] = m
<1> DEFINE r == Added(q, m)
<1>1. /\ r \in Seq(Told) /\ Len(q) \in Nat /\ Len(r) = Len(q) + 1
      /\ \A i \in 1 .. Len(q) : r[i] = q[i]
      /\ r[Len(q) + 1] = m
  BY AppendIs DEF Added
<1> HIDE DEF r
<1>2. \A i \in 1 .. Len(r) : i \in 1 .. Len(q) \/ i = Len(q) + 1
  BY <1>1
<1>3. \A i \in 1 .. Len(q) : i \in 1 .. Len(r) /\ i \in Nat /\ i < Len(q) + 1
  BY <1>1
<1>4. Len(q) + 1 \in 1 .. Len(r)
  BY <1>1
<1> QED BY <1>1, <1>2, <1>3, <1>4 DEF Framed, r

LEMMA AddFrame ==
  ASSUME TypeInv, NEW q \in Seq(Told), NEW m \in Told, IsFrame(m),
         Sound(q), Rising(q), Below(q, m.DATA),
         m.DATA \in 1 .. Len(got), AsSent(m, got[m.DATA])
  PROVE  /\ Sound(Added(q, m)) /\ Rising(Added(q, m)) /\ Has(Added(q, m), m.DATA)
         /\ \A n : Has(q, n) => Has(Added(q, m), n)
         /\ \A n \in Nat : Below(q, n) /\ m.DATA < n => Below(Added(q, m), n)
<1> DEFINE r == Added(q, m)
<1>1. /\ Len(q) \in Nat
      /\ \A i \in Framed(q) : i \in Framed(r) /\ r[i] = q[i] /\ i \in Nat /\ i < Len(q) + 1
      /\ \A i \in Framed(r) : \/ i \in Framed(q) /\ r[i] = q[i]
                              \/ i = Len(q) + 1 /\ r[i] = m
      /\ Len(q) + 1 \in Framed(r) /\ r[Len(q) + 1] = m
  BY AddOne
<1> HIDE DEF r
<1>2. Sound(r)
  BY <1>1 DEF Sound
<1>3. Rising(r)
  <2> SUFFICES ASSUME NEW i \in Framed(r), NEW j \in Framed(r), i < j PROVE r[i].DATA < r[j].DATA
    BY DEF Rising
  <2>1. CASE i \in Framed(q) /\ j \in Framed(q)
    BY <1>1, <2>1 DEF Rising
  <2>2. CASE i \in Framed(q) /\ j = Len(q) + 1
    BY <1>1, <2>2 DEF Below
  <2>3. CASE i = Len(q) + 1
    <3>1. j \in Nat /\ ~(j > Len(q) + 1)
      BY <1>1
    <3> QED BY <1>1, <2>3, <3>1
  <2> QED BY <1>1, <2>1, <2>2, <2>3
<1>4. Has(r, m.DATA) /\ \A n : Has(q, n) => Has(r, n)
  BY <1>1 DEF Has
<1>5. \A n \in Nat : Below(q, n) /\ m.DATA < n => Below(r, n)
  BY <1>1 DEF Below
<1> QED BY <1>2, <1>3, <1>4, <1>5 DEF r

LEMMA AddStatus ==
  ASSUME NEW q \in Seq(Told), NEW m \in Told, ~IsFrame(m)
  PROVE  /\ Sound(q) => Sound(Added(q, m))
         /\ Rising(q) => Rising(Added(q, m))
         /\ \A n : Has(q, n) => Has(Added(q, m), n)
         /\ \A n : Below(q, n) => Below(Added(q, m), n)
<1> DEFINE r == Added(q, m)
<1>1. /\ \A i \in Framed(q) : i \in Framed(r) /\ r[i] = q[i]
      /\ \A i \in Framed(r) : i \in Framed(q) /\ r[i] = q[i]
  BY AddOne
<1> HIDE DEF r
<1> QED BY <1>1 DEF Sound, Rising, Has, Below, r

\* What is stored when readFifo is h.
In(h) == read \o Contents(h)

LEMMA InIs ==
  ASSUME TypeInv, NEW h \in Ring(RCount, Told)
  PROVE  /\ In(h) \in Seq(Told) /\ Len(In(h)) = Len(read) + h.nStored /\ Len(read) \in Nat
         /\ Contents(h) \in Seq(Told) /\ Len(Contents(h)) = h.nStored /\ h.nStored \in Nat
         /\ \A i \in 1 .. Len(read) : In(h)[i] = read[i]
         /\ \A i \in 1 .. h.nStored : In(h)[Len(read) + i] = Contents(h)[i]
<1>1. read \in Seq(Told) /\ Len(read) \in Nat
  BY DEF TypeInv, HistTypes
<1>2. Contents(h) \in Seq(Told) /\ Len(Contents(h)) = h.nStored /\ h.nStored \in Nat
  BY Sizes, ContentsAre DEF Ring
<1> QED BY <1>1, <1>2 DEF In

LEMMA InAppend ==
  ASSUME TypeInv, NEW h \in Ring(RCount, Told), NEW g, NEW m \in Told,
         Contents(g) = Append(Contents(h), m)
  PROVE  In(g) = Added(In(h), m)
<1>1. read \in Seq(Told) /\ Contents(h) \in Seq(Told)
  BY InIs DEF TypeInv, HistTypes
<1> DEFINE c == Contents(h)
<1>2. Append(c, m) = c \o <<m>> /\ <<m>> \in Seq(Told)
  BY <1>1
<1>3. Append(read \o c, m) = (read \o c) \o <<m>> /\ (read \o c) \o <<m>> = read \o (c \o <<m>>)
  <2> HIDE DEF c
  <2> QED BY <1>1, <1>2 DEF c
<1> QED BY <1>2, <1>3 DEF In, Added

\* What the controller holds; a ring that holds what came before rx[b + 1].
GotInv ==
  /\ count.rx = Len(got)
  /\ \A n \in 1 .. Len(got) :
       got[n].data = n /\ got[n].id < (IF "EFF" \in got[n].flags THEN EXT_IDS ELSE STD_IDS)
RxInv ==
  /\ \A i \in 1 .. Len(rx) : rx[i].data \in 1 .. Len(got) /\ rx[i] = RxRegs(got[rx[i].data])
  /\ \A i, j \in 1 .. Len(rx) : i < j => rx[i].data < rx[j].data
Holds(h, b) ==
  /\ Sound(In(h)) /\ Rising(In(h))
  /\ \A j \in 1 .. Len(rx) : b < j => Below(In(h), rx[j].data)
Skipped(n) == ~bExtended /\ "EFF" \in got[n].flags
Decodes(cf, b) ==
  /\ cf \in Heard /\ IsFrame(frame2msg(cf)) /\ frame2msg(cf).DATA = rx[b].data
  /\ AsSent(frame2msg(cf), got[rx[b].data])
  /\ "EFF" \in cf.flags => "EFF" \in got[rx[b].data].flags

LEMMA EnterFrame ==
  ASSUME TypeInv, RxInv, NEW h \in Ring(RCount, Told), NEW b \in 1 .. Len(rx), NEW cf,
         Decodes(cf, b), Holds(h, b - 1)
  PROVE  /\ pcan_chardev_rx(h, cf) \in Ring(RCount, Told) /\ Holds(pcan_chardev_rx(h, cf), b)
         /\ \A n : Has(In(h), n) => Has(In(pcan_chardev_rx(h, cf)), n)
         /\ ~Refused(h, cf) =>
              Has(In(pcan_chardev_rx(h, cf)), rx[b].data) \/ Skipped(rx[b].data)
<1> DEFINE g == pcan_chardev_rx(h, cf)
           m == frame2msg(cf)
           q == In(h)
<1>1. cf \in Heard \cup ErrorFrames
  BY DEF Decodes
<1>2. /\ g \in Ring(RCount, Told) /\ m \in Told
      /\ ~Takes(h, cf) => g = h
      /\ Takes(h, cf) => Contents(g) = Append(Contents(h), m)
  BY <1>1, RxOne
<1>3. Len(rx) \in Nat /\ b \in Nat
  BY Elements DEF TypeInv, ChipTypes
<1>4. q \in Seq(Told)
  BY InIs
<1> HIDE DEF g, m, q
<1>5. CASE ~Takes(h, cf)
  <2>1. g = h
    BY <1>2, <1>5
  <2>2. Holds(h, b)
    <3>1. \A j \in 1 .. Len(rx) : b < j => b - 1 < j
      BY <1>3
    <3> QED BY <3>1 DEF Holds
  <2>3. ~Refused(h, cf) => Skipped(rx[b].data)
    BY <1>5 DEF Refused, Takes, Skipped, Decodes
  <2> QED BY <1>2, <2>1, <2>2, <2>3 DEF g
<1>6. CASE Takes(h, cf)
  <2>1. In(g) = Added(q, m)
    BY <1>2, <1>6, InAppend DEF q
  <2>2. Sound(q) /\ Rising(q) /\ Below(q, m.DATA) /\ m.DATA = rx[b].data
    <3>1. Below(q, rx[b].data)
      <4>1. b - 1 < b
        BY <1>3
      <4> QED BY <4>1 DEF Holds, q
    <3> QED BY <3>1 DEF Holds, Decodes, q, m
  <2>3. IsFrame(m) /\ m.DATA \in 1 .. Len(got) /\ AsSent(m, got[m.DATA])
    <3>1. rx[b].data \in 1 .. Len(got)
      BY DEF RxInv
    <3> QED BY <2>2, <3>1 DEF Decodes, m
  <2>4. /\ Sound(In(g)) /\ Rising(In(g)) /\ Has(In(g), m.DATA)
        /\ \A n : Has(q, n) => Has(In(g), n)
        /\ \A n \in Nat : Below(q, n) /\ m.DATA < n => Below(In(g), n)
    BY <1>2, <1>4, <2>1, <2>2, <2>3, AddFrame
  <2>5. ASSUME NEW j \in 1 .. Len(rx), b < j PROVE Below(In(g), rx[j].data)
    <3>1. b - 1 < j
      BY <1>3, <2>5
    <3>2. Below(q, rx[j].data)
      BY <3>1 DEF Holds, q
    <3>3. m.DATA < rx[j].data
      BY <2>2, <2>5 DEF RxInv
    <3>4. rx[j].data \in Nat
      <4>1. rx \in Seq(Regs)
        BY DEF TypeInv, ChipTypes
      <4>2. rx[j] \in Regs
        BY <4>1, Elements
      <4> QED BY <4>2 DEF Regs
    <3> QED BY <2>4, <3>2, <3>3, <3>4
  <2>6. Holds(g, b)
    BY <2>4, <2>5 DEF Holds
  <2> QED BY <1>2, <2>2, <2>4, <2>6 DEF g, q
<1> QED BY <1>5, <1>6

LEMMA EnterError ==
  ASSUME TypeInv, NEW h \in Ring(RCount, Told), NEW e \in SUBSET Errors, NEW b, Holds(h, b)
  PROVE  /\ pcan_chardev_rx(h, ErrorFrame(e)) \in Ring(RCount, Told)
         /\ Holds(pcan_chardev_rx(h, ErrorFrame(e)), b)
         /\ \A n : Has(In(h), n) => Has(In(pcan_chardev_rx(h, ErrorFrame(e))), n)
<1> DEFINE cf == ErrorFrame(e)
           g == pcan_chardev_rx(h, cf)
           m == frame2msg(cf)
           q == In(h)
<1>1. cf \in Heard \cup ErrorFrames
  BY ErrorsType
<1>2. ~IsFrame(m)
  BY DEF ErrorFrame, frame2msg, IsFrame
<1> HIDE DEF cf
<1>3. /\ g \in Ring(RCount, Told) /\ m \in Told
      /\ ~Takes(h, cf) => g = h
      /\ Takes(h, cf) => Contents(g) = Append(Contents(h), m)
  BY <1>1, RxOne
<1>4. q \in Seq(Told)
  BY InIs
<1> HIDE DEF g, m, q
<1>5. CASE ~Takes(h, cf)
  BY <1>3, <1>5 DEF g, cf
<1>6. CASE Takes(h, cf)
  <2>1. In(g) = Added(q, m)
    BY <1>3, <1>6, InAppend DEF q
  <2>2. Sound(q) /\ Rising(q) /\ \A j \in 1 .. Len(rx) : b < j => Below(q, rx[j].data)
    BY DEF Holds, q
  <2>3. /\ Sound(In(g)) /\ Rising(In(g))
        /\ \A n : Has(q, n) => Has(In(g), n)
        /\ \A n : Below(q, n) => Below(In(g), n)
    BY <1>2, <1>3, <1>4, <2>1, <2>2, AddStatus
  <2>4. Holds(g, b)
    BY <2>2, <2>3 DEF Holds
  <2> QED BY <1>3, <2>3, <2>4 DEF g, q, cf
<1> QED BY <1>5, <1>6

\* Frames come in one after the other.
LEMMA Feed ==
  ASSUME TypeInv, RxInv, NEW f \in Ring(RCount, Told), NEW a \in Nat, NEW n \in Nat,
         a + n <= Len(rx), NEW s, Len(s) \in Nat, n <= Len(s),
         \A i \in 1 .. n : Decodes(s[i], a + i), Holds(f, a)
  PROVE  \A i \in 0 .. n :
           /\ After(f, s)[i] \in Ring(RCount, Told) /\ Holds(After(f, s)[i], a + i)
           /\ \A k : Has(In(f), k) => Has(In(After(f, s)[i]), k)
           /\ (\A j \in 1 .. i : ~Refused(After(f, s)[j - 1], s[j])) =>
                \A j \in 1 .. i :
                  Has(In(After(f, s)[i]), rx[a + j].data) \/ Skipped(rx[a + j].data)
<1> DEFINE g == After(f, s)
           Is(i) == /\ g[i] \in Ring(RCount, Told) /\ Holds(g[i], a + i)
                    /\ \A k : Has(In(f), k) => Has(In(g[i]), k)
                    /\ (\A j \in 1 .. i : ~Refused(g[j - 1], s[j])) =>
                         \A j \in 1 .. i : Has(In(g[i]), rx[a + j].data) \/ Skipped(rx[a + j].data)
           Good == {i \in 0 .. n : Is(i)}
<1>1. g[0] = f /\ \A i \in 1 .. Len(s) : g[i] = pcan_chardev_rx(g[i - 1], s[i])
  BY AfterIs
<1>2. Len(rx) \in Nat
  BY Elements DEF TypeInv, ChipTypes
<1> HIDE DEF g
<1>3. 0 \in Good
  <2>1. a + 0 = a /\ 0 \in 0 .. n /\ \A j \in 1 .. 0 : FALSE
    OBVIOUS
  <2> QED BY <1>1, <2>1
<1>4. ASSUME NEW i \in 1 .. n, i - 1 \in Good PROVE i \in Good
  <2> DEFINE h == g[i - 1]
             b == a + i
  <2>1. g[i] = pcan_chardev_rx(h, s[i])
    BY <1>1
  <2>2. i \in 0 .. n /\ b \in 1 .. Len(rx) /\ a + (i - 1) = b - 1
    BY <1>2
  <2>3. /\ h \in Ring(RCount, Told) /\ Holds(h, b - 1)
        /\ \A k : Has(In(f), k) => Has(In(h), k)
        /\ (\A j \in 1 .. i - 1 : ~Refused(g[j - 1], s[j])) =>
             \A j \in 1 .. i - 1 : Has(In(h), rx[a + j].data) \/ Skipped(rx[a + j].data)
    BY <1>4, <2>2
  <2>4. Decodes(s[i], b)
    OBVIOUS
  <2> HIDE DEF b
  <2>5. /\ g[i] \in Ring(RCount, Told) /\ Holds(g[i], b)
        /\ \A k : Has(In(h), k) => Has(In(g[i]), k)
        /\ ~Refused(h, s[i]) => Has(In(g[i]), rx[b].data) \/ Skipped(rx[b].data)
    <3> HIDE DEF h
    <3> QED BY <2>1, <2>2, <2>3, <2>4, EnterFrame
  <2>6. ASSUME \A j \in 1 .. i : ~Refused(g[j - 1], s[j]), NEW j \in 1 .. i
        PROVE  Has(In(g[i]), rx[a + j].data) \/ Skipped(rx[a + j].data)
    <3>1. CASE j = i
      BY <2>5, <2>6, <3>1 DEF b
    <3>2. CASE j # i
      <4>1. j \in 1 .. i - 1 /\ \A l \in 1 .. i - 1 : l \in 1 .. i
        BY <3>2
      <4>2. Has(In(h), rx[a + j].data) \/ Skipped(rx[a + j].data)
        BY <2>3, <2>6, <4>1
      <4> QED BY <2>5, <4>2
    <3> QED BY <3>1, <3>2
  <2>7. \A k : Has(In(f), k) => Has(In(g[i]), k)
    BY <2>3, <2>5
  <2> QED BY <2>2, <2>5, <2>6, <2>7 DEF b
<1> HIDE DEF Good
<1>5. \A i \in 0 .. n : i \in Good
  BY <1>3, <1>4, UpTo
<1> QED BY <1>5 DEF Good, g

\* A frame becomes a message and is the same frame again.
LEMMA FrameAndBack ==
  ASSUME NEW f \in Heard, f.id < EXT_IDS
  PROVE  /\ frame2msg(f).ID = f.id /\ frame2msg(f).DATA = f.data /\ IsFrame(frame2msg(f))
         /\ ("EXTENDED" \in frame2msg(f).MSGTYPE) = ("EFF" \in f.flags)
         /\ ("RTR" \in frame2msg(f).MSGTYPE) = ("RTR" \in f.flags)
         /\ msg2frame(frame2msg(f)).flags = f.flags
<1> DEFINE t == When("RTR" \in f.flags, "RTR") \cup When("EFF" \in f.flags, "EXTENDED")
<1>1. f.id \in Nat /\ f.flags \subseteq {"EFF", "RTR"} /\ "ERR" \notin f.flags
  BY DEF Heard
<1>2. f.id % EXT_IDS = f.id
  BY <1>1, SMT DEF EXT_IDS
<1>3. frame2msg(f) = [ID |-> f.id, MSGTYPE |-> t, DATA |-> f.data]
  BY <1>1, <1>2 DEF frame2msg
<1>4. /\ "STATUS" \notin t
      /\ ("EXTENDED" \in t) = ("EFF" \in f.flags)
      /\ ("RTR" \in t) = ("RTR" \in f.flags)
  BY DEF When
<1> HIDE DEF t
<1>5. f.flags = When("RTR" \in t, "RTR") \cup When("EXTENDED" \in t, "EFF")
  BY <1>1, <1>4 DEF When
<1>6. msg2frame(frame2msg(f)).flags = When("RTR" \in t, "RTR") \cup When("EXTENDED" \in t, "EFF")
  BY <1>3 DEF msg2frame
<1> QED BY <1>3, <1>4, <1>5, <1>6 DEF IsFrame

LEMMA RegsAndBack ==
  ASSUME NEW f \in Heard, f.id < (IF "EFF" \in f.flags THEN EXT_IDS ELSE STD_IDS)
  PROVE  /\ f.id < EXT_IDS
         /\ IdBytes(f.id, "EFF" \in f.flags) \in Bytes
         /\ BytesId(IdBytes(f.id, "EFF" \in f.flags)) = f.id
<1> DEFINE eff == "EFF" \in f.flags
<1>1. f.id \in Nat /\ eff \in BOOLEAN
  BY DEF Heard
<1>2. STD_IDS <= EXT_IDS /\ STD_IDS \in Nat /\ EXT_IDS \in Nat
  BY SMT DEF STD_IDS, EXT_IDS
<1>3. f.id < EXT_IDS
  BY <1>1, <1>2
<1>4. IdBytes(f.id, eff) \in Bytes
  BY <1>1, IdBytesType
<1>5. CASE eff = TRUE
  BY <1>1, <1>3, <1>4, <1>5, ExtRoundTrip
<1>6. CASE eff = FALSE
  <2>1. f.id < STD_IDS
    BY <1>6
  <2> QED BY <1>1, <1>3, <1>4, <1>6, <2>1, StdRoundTrip
<1> QED BY <1>1, <1>5, <1>6

\* What the driver makes of the registers that hold frame f.
LEMMA SjaDecodes ==
  ASSUME ~Usb, NEW f \in Heard, f.id < (IF "EFF" \in f.flags THEN EXT_IDS ELSE STD_IDS)
  PROVE  sja1000_read_frame(RxRegs(f)) = f
<1> DEFINE b == IdBytes(f.id, "EFF" \in f.flags)
           r == RxRegs(f)
           fl == When("EFF" \in f.flags, "EFF") \cup When("RTR" \in f.flags, "RTR")
<1>1. BytesId(b) = f.id
  BY RegsAndBack
<1>2. r = [eff |-> "EFF" \in f.flags, rtr |-> "RTR" \in f.flags, bytes |-> b, data |-> f.data]
  BY DEF RxRegs, sja1000_write_frame
<1>3. f.flags \subseteq {"EFF", "RTR"} /\ f = [id |-> f.id, flags |-> f.flags, data |-> f.data]
  BY DEF Heard
<1>4. fl = f.flags
  BY <1>3 DEF When
<1> HIDE DEF b
<1>5. sja1000_read_frame(r) = [id |-> BytesId(b), flags |-> fl, data |-> f.data]
  BY <1>2 DEF sja1000_read_frame
<1> HIDE DEF r, fl
<1> QED BY <1>1, <1>3, <1>4, <1>5 DEF r

LEMMA UsbDecodes ==
  ASSUME Usb, NEW f \in Heard, f.id < (IF "EFF" \in f.flags THEN EXT_IDS ELSE STD_IDS), NEW cf,
         cf = pcan_hw_DecodeMessage(RxRegs(f))
  PROVE  /\ cf.data = f.data /\ "EFF" \notin cf.flags /\ cf \in Heard
         /\ "EFF" \notin f.flags => cf.id = f.id /\ cf.flags = f.flags
<1> DEFINE b == IdBytes(f.id, "EFF" \in f.flags)
           m == frame2msg(f)
           r == RxRegs(f)
<1>1. BytesId(b) = f.id /\ b \in Bytes /\ f.id < EXT_IDS
  BY RegsAndBack
<1>2. /\ m.ID = f.id /\ m.DATA = f.data
      /\ ("EXTENDED" \in m.MSGTYPE) = ("EFF" \in f.flags)
      /\ ("RTR" \in m.MSGTYPE) = ("RTR" \in f.flags)
  BY <1>1, FrameAndBack
<1> HIDE DEF m
<1>3. r = pcan_hw_EncodeMessage(m)
  BY DEF RxRegs, m
<1>4. r = [eff |-> "EFF" \in f.flags, rtr |-> "RTR" \in f.flags, bytes |-> Swapped(b), data |-> f.data]
  BY <1>2, <1>3 DEF pcan_hw_EncodeMessage
<1>5. Swapped(Swapped(b)) = b /\ Swapped(b) \in Bytes
  BY <1>1, SwappedType
<1>6. f.data \in Nat /\ f.flags \subseteq {"EFF", "RTR"}
  BY DEF Heard
<1> HIDE DEF b, r
<1>7. r \in Regs
  BY <1>4, <1>5, <1>6 DEF Regs
<1>8. cf \in Heard /\ "EFF" \notin cf.flags
  BY <1>7, ReadFrameType DEF r
<1>9. /\ cf.data = f.data /\ cf.flags = When("RTR" \in f.flags, "RTR")
      /\ "EFF" \notin f.flags => cf.id = BytesId(b)
  <2>1. r.bytes = Swapped(b) /\ r.eff = ("EFF" \in f.flags) /\ r.rtr = ("RTR" \in f.flags) /\ r.data = f.data
    BY <1>4
  <2>2. cf = pcan_hw_DecodeMessage(r)
    BY DEF r
  <2>3. cf = [id |-> IF r.eff THEN WithBit1(BytesId(Swapped(r.bytes))) ELSE BytesId(Swapped(r.bytes)),
              flags |-> When(r.rtr, "RTR"), data |-> r.data]
    BY <2>2 DEF pcan_hw_DecodeMessage
  <2>4. /\ cf.data = r.data /\ cf.flags = When(r.rtr, "RTR")
        /\ ~r.eff => cf.id = BytesId(Swapped(r.bytes))
    BY <2>3
  <2>5. When(r.rtr, "RTR") = When("RTR" \in f.flags, "RTR")
    BY <2>1 DEF When
  <2>6. Swapped(r.bytes) = b
    BY <1>5, <2>1
  <2> QED BY <2>1, <2>4, <2>5, <2>6
<1>10. "EFF" \notin f.flags => When("RTR" \in f.flags, "RTR") = f.flags
  BY <1>6 DEF When
<1> QED BY <1>1, <1>8, <1>9, <1>10

LEMMA RxDecodes ==
  ASSUME TypeInv, GotInv, RxInv, NEW b \in 1 .. Len(rx)
  PROVE  /\ Usb => Decodes(pcan_hw_DecodeMessage(rx[b]), b)
         /\ ~Usb => Decodes(sja1000_read_frame(rx[b]), b)
<1> DEFINE f == got[rx[b].data]
<1>1. rx[b] = RxRegs(f) /\ rx[b].data \in 1 .. Len(got)
  BY DEF RxInv
<1>2. f \in Heard
  <2>1. got \in Seq(Heard)
    BY DEF TypeInv, HistTypes
  <2> QED BY <1>1, <2>1, Elements
<1>3. f.data = rx[b].data /\ f.id < (IF "EFF" \in f.flags THEN EXT_IDS ELSE STD_IDS)
  BY <1>1 DEF GotInv
<1> HIDE DEF f
<1>4. f.id < EXT_IDS
  BY <1>2, <1>3, RegsAndBack
<1>5. ASSUME ~Usb PROVE Decodes(sja1000_read_frame(rx[b]), b)
  <2>1. sja1000_read_frame(rx[b]) = f
    BY <1>1, <1>2, <1>3, <1>5, SjaDecodes
  <2>2. /\ frame2msg(f).ID = f.id /\ frame2msg(f).DATA = f.data /\ IsFrame(frame2msg(f))
        /\ msg2frame(frame2msg(f)).flags = f.flags
    BY <1>2, <1>4, FrameAndBack
  <2>3. AsSent(frame2msg(f), f)
    BY <2>2 DEF AsSent
  <2> QED BY <1>2, <1>3, <2>1, <2>2, <2>3 DEF Decodes, f
<1>6. ASSUME Usb PROVE Decodes(pcan_hw_DecodeMessage(rx[b]), b)
  <2> DEFINE cf == pcan_hw_DecodeMessage(rx[b])
  <2>1. cf = pcan_hw_DecodeMessage(RxRegs(f))
    BY <1>1
  <2> HIDE DEF cf
  <2>2. /\ cf.data = f.data /\ "EFF" \notin cf.flags /\ cf \in Heard
        /\ "EFF" \notin f.flags => cf.id = f.id /\ cf.flags = f.flags
    BY <1>2, <1>3, <1>6, <2>1, UsbDecodes
  <2>3. IsFrame(frame2msg(cf)) /\ frame2msg(cf).DATA = cf.data
    <3>1. "ERR" \notin cf.flags
      BY <2>2 DEF Heard
    <3> QED BY <3>1 DEF frame2msg, IsFrame, When
  <2>4. AsSent(frame2msg(cf), f)
    <3>1. CASE "EFF" \in f.flags
      BY <1>6, <3>1 DEF AsSent
    <3>2. CASE "EFF" \notin f.flags
      <4>1. cf.id < EXT_IDS /\ cf.id = f.id /\ cf.flags = f.flags
        BY <1>4, <2>2, <3>2
      <4>2. frame2msg(cf).ID = cf.id /\ msg2frame(frame2msg(cf)).flags = cf.flags
        BY <2>2, <4>1, FrameAndBack
      <4> QED BY <4>1, <4>2 DEF AsSent
    <3> QED BY <3>1, <3>2
  <2> QED BY <1>3, <2>2, <2>3, <2>4 DEF Decodes, f, cf
<1> QED BY <1>5, <1>6

\* Nothing is lost that is not told.
ReadSet == {"reset", "reinit", "open", "unplug", "status"}
InRx(n) == \E j \in 1 .. Len(rx) : rx[j].data = n
AllKnown == \A n \in 1 .. Len(got) : Has(In(rf), n) \/ InRx(n) \/ Skipped(n)
Reported == (wCANStatus \cup told) \cap {"OVERRUN", "QOVERRUN"} # {} \/ "DOI" \in ints
LossInv == Calm(ReadSet) => Reported \/ AllKnown
ReadInv == GotInv /\ RxInv /\ Holds(rf, 0) /\ LossInv

LEMMA SoundLater ==
  ASSUME TypeInv, hw' = hw, Len(got') \in Nat, Len(got) <= Len(got'),
         \A n \in 1 .. Len(got) : got'[n] = got[n], NEW q, Sound(q)
  PROVE  Sound(q)'
<1>1. Len(got) \in Nat
  BY Elements DEF TypeInv, HistTypes
<1>2. \A m, f : AsSent(m, f)' = AsSent(m, f)
  BY DEF AsSent, Usb
<1>3. ASSUME NEW i \in Framed(q)
      PROVE  q[i].DATA \in 1 .. Len(got') /\ AsSent(q[i], got[q[i].DATA])'
  <2>1. q[i].DATA \in 1 .. Len(got) /\ AsSent(q[i], got[q[i].DATA])
    BY <1>3 DEF Sound
  <2>2. q[i].DATA \in 1 .. Len(got') /\ got'[q[i].DATA] = got[q[i].DATA]
    BY <1>1, <2>1
  <2> QED BY <2>1, <2>2 DEF AsSent, Usb
<1> QED BY <1>3 DEF Sound

LEMMA HoldsLater ==
  ASSUME NEW q, q = In(rf)', Sound(q)', Rising(q),
         \A j \in 1 .. Len(rx') : Below(q, rx'[j].data)
  PROVE  Holds(rf, 0)'
<1>1. Sound(In(rf))'
  BY DEF Sound
<1>2. Rising(In(rf))'
  BY DEF Rising
<1>3. \A j \in 1 .. Len(rx') : Below(In(rf)', rx'[j].data)
  OBVIOUS
<1> QED BY <1>1, <1>2, <1>3 DEF Holds

\* What a step does to what was received: nothing, or it drops some of it.
KeepStep ==
  /\ UNCHANGED <<got, hw>> /\ count'.rx = count.rx
  /\ In(rf)' \in {In(rf), read} /\ rx' \in {rx, <<>>}
  /\ Calm(ReadSet)' =>
       /\ In(rf)' = In(rf) /\ UNCHANGED <<rx, bExtended>>
       /\ Reported => Reported'
\* A frame arrives.
HearStep(f) ==
  /\ UNCHANGED <<hw, read, rf, bExtended, wCANStatus, told>> /\ count'.rx = count.rx + 1
  /\ f.data = Len(got) + 1 /\ got' = Append(got, f)
  /\ f.id < (IF "EFF" \in f.flags THEN EXT_IDS ELSE STD_IDS)
  /\ \/ rx' = Append(rx, RxRegs(f)) /\ ints' = ints
     \/ rx' = rx /\ "DOI" \in ints'
\* The first k frames that the controller holds come in, and d of them are gone.
FeedStep(k, d) ==
  /\ UNCHANGED <<got, hw, read, bExtended>> /\ count'.rx = count.rx
  /\ Holds(rf', k) /\ \A n : Has(In(rf), n) => Has(In(rf'), n)
  /\ k <= d /\ rx' = SubSeq(rx, d + 1, Len(rx))
  /\ Reported => Reported'
  /\ \/ Reported'
     \/ d = k /\ \A j \in 1 .. k : Has(In(rf'), rx[j].data) \/ Skipped(rx[j].data)

LEMMA ReadIsSound ==
  ASSUME TypeInv, Sound(In(rf)), Rising(In(rf))
  PROVE  /\ Sound(read) /\ Rising(read)
         /\ \A n : Below(In(rf), n) => Below(read, n)
<1> DEFINE q == In(rf)
<1>1. /\ Len(read) \in Nat /\ rf.nStored \in Nat /\ Len(q) = Len(read) + rf.nStored
      /\ \A i \in 1 .. Len(read) : q[i] = read[i]
  BY InIs DEF TypeInv, RingTypes
<1>2. \A i \in 1 .. Len(read) : i \in 1 .. Len(q)
  BY <1>1
<1> HIDE DEF q
<1>3. \A i \in Framed(read) : i \in Framed(q) /\ q[i] = read[i]
  BY <1>1, <1>2 DEF Framed
<1> QED BY <1>3 DEF Sound, Rising, Below, q

LEMMA KeepNext ==
  ASSUME TypeInv, TypeInv', ReadInv, trouble \subseteq trouble', KeepStep
  PROVE  ReadInv'
<1>1. got' = got /\ hw' = hw /\ count'.rx = count.rx /\ rx' \in {rx, <<>>} /\ In(rf)' \in {In(rf), read}
  BY DEF KeepStep
<1>2. GotInv'
  BY <1>1 DEF ReadInv, GotInv
<1>3. RxInv'
  <2>1. \A f : RxRegs(f)' = RxRegs(f)
    BY <1>1 DEF RxRegs, Usb
  <2>2. CASE rx' = rx
    BY <1>1, <2>1, <2>2 DEF ReadInv, RxInv
  <2>3. CASE rx' = <<>>
    <3>1. Len(rx') = 0 /\ 1 .. 0 = {}
      BY <2>3
    <3> QED BY <3>1 DEF RxInv
  <2> QED BY <1>1, <2>2, <2>3
<1>4. Holds(rf, 0)'
  <2>1. PICK q : q = In(rf)'
    OBVIOUS
  <2>2. Sound(In(rf)) /\ Rising(In(rf)) /\ \A j \in 1 .. Len(rx) : Below(In(rf), rx[j].data)
    <3>1. \A j \in 1 .. Len(rx) : 0 < j
      BY Elements DEF TypeInv, ChipTypes
    <3> QED BY <3>1 DEF ReadInv, Holds
  <2>3. Sound(q) /\ Rising(q) /\ \A j \in 1 .. Len(rx) : Below(q, rx[j].data)
    BY <1>1, <2>1, <2>2, ReadIsSound
  <2>4. Sound(q)'
    <3>1. Len(got') \in Nat /\ Len(got) <= Len(got') /\ \A n \in 1 .. Len(got) : got'[n] = got[n]
      BY <1>1, Elements DEF TypeInv, HistTypes
    <3> QED BY <1>1, <2>3, <3>1, SoundLater
  <2>5. \A j \in 1 .. Len(rx') : Below(q, rx'[j].data)
    <3>1. CASE rx' = rx
      BY <2>3, <3>1
    <3>2. CASE rx' = <<>>
      <4>1. Len(rx') = 0 /\ 1 .. 0 = {}
        BY <3>2
      <4> QED BY <4>1
    <3> QED BY <1>1, <3>1, <3>2
  <2> QED BY <2>1, <2>3, <2>4, <2>5, HoldsLater
<1>5. LossInv'
  <2> SUFFICES ASSUME Calm(ReadSet)', ~Reported' PROVE AllKnown'
    BY DEF LossInv
  <2>1. In(rf)' = In(rf) /\ rx' = rx /\ bExtended' = bExtended /\ ~Reported
    BY DEF KeepStep
  <2>2. Calm(ReadSet)
    BY CalmBefore
  <2>3. AllKnown
    BY <2>1, <2>2 DEF ReadInv, LossInv
  <2>4. \A n : Skipped(n)' = Skipped(n) /\ InRx(n)' = InRx(n)
    BY <1>1, <2>1 DEF Skipped, InRx
  <2>5. \A n : Has(In(rf)', n) = Has(In(rf), n)
    BY <2>1
  <2> QED BY <1>1, <2>3, <2>4, <2>5 DEF AllKnown
<1> QED BY <1>2, <1>3, <1>4, <1>5 DEF ReadInv

LEMMA HearNext ==
  ASSUME TypeInv, TypeInv', ReadInv, trouble \subseteq trouble', NEW f \in Heard, HearStep(f)
  PROVE  ReadInv'
<1>1. /\ got \in Seq(Heard) /\ Len(got) \in Nat /\ rx \in Seq(Regs) /\ Len(rx) \in Nat
      /\ rx' \in Seq(Regs)
  BY Elements DEF TypeInv, HistTypes, ChipTypes
<1>2. /\ hw' = hw /\ read' = read /\ rf' = rf /\ bExtended' = bExtended
      /\ count'.rx = count.rx + 1 /\ f.data = Len(got) + 1
      /\ f.id < (IF "EFF" \in f.flags THEN EXT_IDS ELSE STD_IDS)
  BY DEF HearStep
<1>3. /\ Len(got') = Len(got) + 1 /\ got'[Len(got) + 1] = f
      /\ \A n \in 1 .. Len(got) : got'[n] = got[n]
  BY <1>1, AppendIs DEF HearStep
<1>4. \A n \in 1 .. Len(got') : n \in 1 .. Len(got) \/ n = Len(got) + 1
  BY <1>1, <1>3
<1>5. GotInv'
  <2>1. count'.rx = Len(got')
    BY <1>2, <1>3 DEF ReadInv, GotInv
  <2> QED BY <1>2, <1>3, <1>4, <2>1 DEF ReadInv, GotInv
<1>6. \/ rx' = rx
      \/ /\ Len(rx') = Len(rx) + 1 /\ rx'[Len(rx) + 1] = RxRegs(f)
         /\ \A i \in 1 .. Len(rx) : rx'[i] = rx[i]
  <2>1. RxRegs(f) \in Regs
    <3>1. /\ f.id \in Nat /\ f.data \in Nat /\ frame2msg(f) \in Told
      BY Frame2msgType DEF Heard
    <3>2. frame2msg(f).ID \in Nat /\ frame2msg(f).DATA \in Nat
      <4>1. f.id < EXT_IDS
        BY <1>2, RegsAndBack
      <4>2. frame2msg(f).ID = f.id /\ frame2msg(f).DATA = f.data
        BY <4>1, FrameAndBack
      <4> QED BY <3>1, <4>2
    <3> QED BY <3>1, <3>2, EncodeType, WriteFrameType DEF RxRegs
  <2> QED BY <1>1, <2>1, AppendIs DEF HearStep
<1>7. RxRegs(f).data = Len(got) + 1
  <2>1. f.id < EXT_IDS
    BY <1>2, RegsAndBack
  <2>2. frame2msg(f).DATA = f.data
    BY <2>1, FrameAndBack
  <2> QED BY <1>2, <2>2 DEF RxRegs, pcan_hw_EncodeMessage, sja1000_write_frame
<1>8. ASSUME NEW i \in 1 .. Len(rx')
      PROVE  \/ i \in 1 .. Len(rx) /\ rx'[i] = rx[i] /\ rx[i].data \in 1 .. Len(got)
             \/ /\ i = Len(rx) + 1 /\ rx'[i] = RxRegs(f) /\ rx'[i].data = Len(got) + 1
                /\ got'[rx'[i].data] = f
  <2>1. \A j \in 1 .. Len(rx) : rx[j].data \in 1 .. Len(got)
    BY DEF ReadInv, RxInv
  <2> QED BY <1>1, <1>3, <1>6, <1>7, <2>1
<1>9. RxInv'
  <2>1. \A g : RxRegs(g)' = RxRegs(g)
    BY <1>2 DEF RxRegs, Usb
  <2>2. ASSUME NEW i \in 1 .. Len(rx')
        PROVE  rx'[i].data \in 1 .. Len(got') /\ rx'[i] = RxRegs(got'[rx'[i].data])
    <3>1. CASE i \in 1 .. Len(rx) /\ rx'[i] = rx[i] /\ rx[i].data \in 1 .. Len(got)
      <4>1. rx[i] = RxRegs(got[rx[i].data])
        BY <3>1 DEF ReadInv, RxInv
      <4> QED BY <1>1, <1>3, <3>1, <4>1
    <3>2. CASE /\ i = Len(rx) + 1 /\ rx'[i] = RxRegs(f) /\ rx'[i].data = Len(got) + 1
               /\ got'[rx'[i].data] = f
      BY <1>1, <1>3, <3>2
    <3> QED BY <1>8, <3>1, <3>2
  <2>3. ASSUME NEW i \in 1 .. Len(rx'), NEW j \in 1 .. Len(rx'), i < j
        PROVE  rx'[i].data < rx'[j].data
    <3>1. i \in 1 .. Len(rx) /\ rx'[i] = rx[i] /\ rx[i].data \in 1 .. Len(got)
      <4>1. j <= Len(rx) + 1
        BY <1>1, <1>8
      <4> QED BY <1>1, <1>8, <2>3, <4>1, SMTT(40)
    <3>2. CASE j \in 1 .. Len(rx) /\ rx'[j] = rx[j]
      BY <2>3, <3>1, <3>2 DEF ReadInv, RxInv
    <3>3. CASE rx'[j].data = Len(got) + 1
      BY <1>1, <3>1, <3>3
    <3> QED BY <1>8, <3>2, <3>3
  <2> QED BY <2>1, <2>2, <2>3 DEF RxInv
<1>10. Holds(rf, 0)'
  <2>1. PICK q : q = In(rf)'
    OBVIOUS
  <2>2. q = In(rf)
    BY <1>2, <2>1 DEF In
  <2>3. Sound(q) /\ Rising(q) /\ \A j \in 1 .. Len(rx) : Below(q, rx[j].data)
    <3>1. \A j \in 1 .. Len(rx) : 0 < j
      BY <1>1
    <3> QED BY <2>2, <3>1 DEF ReadInv, Holds
  <2>4. Sound(q)'
    <3>1. Len(got') \in Nat /\ Len(got) <= Len(got')
      BY <1>1, <1>3
    <3> QED BY <1>2, <1>3, <2>3, <3>1, SoundLater
  <2>5. Below(q, Len(got) + 1)
    <3>1. \A i \in Framed(q) : q[i].DATA \in 1 .. Len(got)
      BY <2>3 DEF Sound
    <3> QED BY <1>1, <3>1 DEF Below
  <2>6. \A j \in 1 .. Len(rx') : Below(q, rx'[j].data)
    BY <1>8, <2>3, <2>5
  <2> QED BY <2>1, <2>3, <2>4, <2>6, HoldsLater
<1>11. LossInv'
  <2> SUFFICES ASSUME Calm(ReadSet)', ~Reported' PROVE AllKnown'
    BY DEF LossInv
  <2>1. ~Reported /\ rx' = Append(rx, RxRegs(f))
    BY DEF Reported, HearStep
  <2>2. Calm(ReadSet)
    BY CalmBefore
  <2>3. AllKnown
    BY <2>1, <2>2 DEF ReadInv, LossInv
  <2>4. RxRegs(f) \in Regs
    BY <1>1, <2>1
  <2>5. Len(rx') = Len(rx) + 1 /\ rx'[Len(rx) + 1] = RxRegs(f) /\ \A i \in 1 .. Len(rx) : rx'[i] = rx[i]
    BY <1>6, <2>1, <1>1
  <2>6. \A i \in 1 .. Len(rx) : i \in 1 .. Len(rx')
    BY <1>1, <2>5
  <2>7. Len(rx) + 1 \in 1 .. Len(rx')
    BY <1>1, <2>5
  <2>8. ASSUME NEW n \in 1 .. Len(got') PROVE Has(In(rf)', n) \/ InRx(n)' \/ Skipped(n)'
    <3>1. CASE n = Len(got) + 1
      BY <1>7, <2>5, <2>7, <3>1 DEF InRx
    <3>2. CASE n \in 1 .. Len(got)
      <4>1. Has(In(rf), n) \/ InRx(n) \/ Skipped(n)
        BY <2>3, <3>2 DEF AllKnown
      <4>2. In(rf)' = In(rf)
        BY <1>2 DEF In
      <4>3. InRx(n) => InRx(n)'
        BY <2>5, <2>6 DEF InRx
      <4>4. Skipped(n) => Skipped(n)'
        BY <1>2, <1>3, <3>2 DEF Skipped
      <4> QED BY <4>1, <4>2, <4>3, <4>4
    <3> QED BY <1>4, <3>1, <3>2
  <2> QED BY <2>8 DEF AllKnown
<1> QED BY <1>5, <1>9, <1>10, <1>11 DEF ReadInv

LEMMA FeedNext ==
  ASSUME TypeInv, TypeInv', ReadInv, trouble \subseteq trouble',
         NEW k \in 0 .. Len(rx), NEW d \in Nat, FeedStep(k, d)
  PROVE  ReadInv'
<1>1. got' = got /\ hw' = hw /\ count'.rx = count.rx /\ read' = read /\ bExtended' = bExtended
  BY DEF FeedStep
<1>2. /\ rx \in Seq(Regs) /\ Len(rx) \in Nat /\ k \in Nat /\ k <= d
      /\ rx' = SubSeq(rx, d + 1, Len(rx)) /\ d + 1 \in Nat \ {0}
  BY Elements DEF TypeInv, ChipTypes, FeedStep
<1>3. /\ Len(rx') = (IF d + 1 <= Len(rx) THEN Len(rx) - (d + 1) + 1 ELSE 0)
      /\ \A i \in 1 .. Len(rx') : rx'[i] = rx[(d + 1) + i - 1]
  BY <1>2, SubSeqType
<1>4. Len(rx') \in Nat /\ \A i \in 1 .. Len(rx') : d + i \in 1 .. Len(rx) /\ rx'[i] = rx[d + i]
  <2>1. \A i \in 1 .. Len(rx') : d + i \in 1 .. Len(rx) /\ (d + 1) + i - 1 = d + i
    BY <1>2, <1>3
  <2> QED BY <1>2, <1>3, <2>1
<1>5. GotInv'
  BY <1>1 DEF ReadInv, GotInv
<1>6. RxInv'
  <2>1. \A f : RxRegs(f)' = RxRegs(f)
    BY <1>1 DEF RxRegs, Usb
  <2>2. \A i \in 1 .. Len(rx') : rx'[i].data \in 1 .. Len(got) /\ rx'[i] = RxRegs(got[rx'[i].data])
    BY <1>4 DEF ReadInv, RxInv
  <2>3. \A i, j \in 1 .. Len(rx') : i < j => rx'[i].data < rx'[j].data
    <3> SUFFICES ASSUME NEW i \in 1 .. Len(rx'), NEW j \in 1 .. Len(rx'), i < j
                 PROVE  rx'[i].data < rx'[j].data
      OBVIOUS
    <3>1. d + i < d + j
      BY <1>4
    <3> QED BY <1>4, <3>1 DEF ReadInv, RxInv
  <2> QED BY <1>1, <2>1, <2>2, <2>3 DEF RxInv
<1>7. In(rf)' = In(rf')
  BY <1>1 DEF In
<1>8. Holds(rf, 0)'
  <2>1. PICK q : q = In(rf')
    OBVIOUS
  <2>2. Sound(q) /\ Rising(q) /\ \A j \in 1 .. Len(rx) : k < j => Below(q, rx[j].data)
    BY <2>1 DEF FeedStep, Holds
  <2>3. Sound(q)'
    <3>1. Len(got') \in Nat /\ Len(got) <= Len(got') /\ \A n \in 1 .. Len(got) : got'[n] = got[n]
      BY <1>1, Elements DEF TypeInv, HistTypes
    <3> QED BY <1>1, <2>2, <3>1, SoundLater
  <2>4. \A j \in 1 .. Len(rx') : Below(q, rx'[j].data)
    <3>1. \A j \in 1 .. Len(rx') : k < d + j
      BY <1>2, <1>4
    <3> QED BY <1>4, <2>2, <3>1
  <2> QED BY <1>7, <2>1, <2>2, <2>3, <2>4, HoldsLater
<1>9. LossInv'
  <2> SUFFICES ASSUME Calm(ReadSet)', ~Reported' PROVE AllKnown'
    BY DEF LossInv
  <2>1. ~Reported /\ d = k /\ \A j \in 1 .. k : Has(In(rf'), rx[j].data) \/ Skipped(rx[j].data)
    BY DEF FeedStep
  <2>2. Calm(ReadSet)
    BY CalmBefore
  <2>3. AllKnown
    BY <2>1, <2>2 DEF ReadInv, LossInv
  <2>4. ASSUME NEW n \in 1 .. Len(got) PROVE Has(In(rf'), n) \/ InRx(n)' \/ Skipped(n)'
    <3>1. Skipped(n)' = Skipped(n)
      BY <1>1 DEF Skipped
    <3>2. CASE Has(In(rf), n)
      BY <3>2 DEF FeedStep
    <3>3. CASE InRx(n)
      <4>1. PICK j \in 1 .. Len(rx) : rx[j].data = n
        BY <3>3 DEF InRx
      <4>2. CASE j \in 1 .. k
        BY <2>1, <3>1, <4>1, <4>2
      <4>3. CASE j \notin 1 .. k
        <5>1. j - k \in 1 .. Len(rx') /\ d + (j - k) = j
          BY <1>2, <1>3, <2>1, <4>3
        <5>2. rx'[j - k] = rx[j]
          BY <1>4, <5>1
        <5> QED BY <4>1, <5>1, <5>2 DEF InRx
      <4> QED BY <4>2, <4>3
    <3> QED BY <2>3, <3>1, <3>2, <3>3 DEF AllKnown
  <2> QED BY <1>1, <1>7, <2>4 DEF AllKnown
<1> QED BY <1>5, <1>6, <1>8, <1>9 DEF ReadInv

LEMMA ConcatIs ==
  ASSUME NEW S, NEW s \in Seq(S), NEW t \in Seq(S)
  PROVE  /\ s \o t \in Seq(S) /\ Len(s \o t) = Len(s) + Len(t)
         /\ \A i \in 1 .. Len(s) : (s \o t)[i] = s[i]
         /\ \A i \in 1 .. Len(t) : (s \o t)[Len(s) + i] = t[i]
<1>1. s \o t \in Seq(S) /\ Len(s \o t) = Len(s) + Len(t)
  OBVIOUS
<1>2. \A i \in 1 .. Len(s) : (s \o t)[i] = s[i]
  OBVIOUS
<1>3. \A i \in 1 .. Len(t) : (s \o t)[Len(s) + i] = t[i]
  OBVIOUS
<1> QED BY <1>1, <1>2, <1>3

\* What a reader takes moves from the FIFO to what was read.
LEMMA Moved ==
  ASSUME NEW S, NEW a \in Seq(S), NEW c \in Seq(S), NEW e \in Seq(S), NEW n \in Nat,
         Len(e) = n, Len(c) = n + 1, \A i \in 1 .. n : e[i] = c[i + 1]
  PROVE  Append(a, c[1]) \o e = a \o c
<1>1. Len(a) \in Nat /\ c[1] \in S
  BY Elements
<1> DEFINE b == Append(a, c[1])
           u == b \o e
           v == a \o c
<1>2. /\ b \in Seq(S) /\ Len(b) = Len(a) + 1 /\ b[Len(a) + 1] = c[1]
      /\ \A i \in 1 .. Len(a) : b[i] = a[i]
  BY <1>1, AppendIs
<1> HIDE DEF b
<1>3. /\ u \in Seq(S) /\ Len(u) = Len(b) + Len(e)
      /\ \A i \in 1 .. Len(b) : u[i] = b[i]
      /\ \A i \in 1 .. Len(e) : u[Len(b) + i] = e[i]
  <2>1. b \in Seq(S) /\ e \in Seq(S)
    BY <1>2
  <2>2. u \in Seq(S) /\ Len(u) = Len(b) + Len(e)
    BY <2>1, ConcatIs
  <2>3. \A i \in 1 .. Len(b) : u[i] = b[i]
    BY <2>1, ConcatIs
  <2>4. \A i \in 1 .. Len(e) : u[Len(b) + i] = e[i]
    BY <2>1, ConcatIs
  <2> QED BY <2>2, <2>3, <2>4
<1>4. /\ v \in Seq(S) /\ Len(v) = Len(a) + Len(c)
      /\ \A i \in 1 .. Len(a) : v[i] = a[i]
      /\ \A i \in 1 .. Len(c) : v[Len(a) + i] = c[i]
  BY ConcatIs
<1> HIDE DEF u, v
<1>5. Len(u) = Len(v) /\ Len(u) \in Nat
  BY <1>1, <1>2, <1>3, <1>4
<1>6. ASSUME NEW i \in 1 .. Len(u) PROVE u[i] = v[i]
  <2>1. CASE i \in 1 .. Len(a)
    <3>1. i \in 1 .. Len(b)
      BY <1>1, <1>2, <2>1
    <3> QED BY <1>2, <1>3, <1>4, <2>1, <3>1
  <2>2. CASE i = Len(a) + 1
    <3>1. i \in 1 .. Len(b) /\ 1 \in 1 .. Len(c)
      BY <1>1, <1>2, <2>2
    <3> QED BY <1>2, <1>3, <1>4, <2>2, <3>1
  <2>3. CASE i \notin 1 .. Len(a) /\ i # Len(a) + 1
    <3> DEFINE j == i - (Len(a) + 1)
    <3>1. j \in 1 .. n /\ i = Len(b) + j /\ i = Len(a) + (j + 1) /\ j + 1 \in 1 .. Len(c)
      BY <1>1, <1>2, <1>3, <2>3
    <3> HIDE DEF j
    <3>2. u[i] = e[j] /\ v[i] = c[j + 1]
      BY <1>3, <1>4, <3>1
    <3> QED BY <3>1, <3>2
  <2> QED BY <2>1, <2>2, <2>3
<1>7. u \in [1 .. Len(u) -> S] /\ v \in [1 .. Len(u) -> S]
  BY <1>3, <1>4, <1>5, Elements
<1>8. u = v
  BY <1>6, <1>7
<1> QED BY <1>8 DEF u, v, b

LEMMA GetKeeps ==
  ASSUME TypeInv, NEW p \in Procs, Get(p)
  PROVE  KeepStep
<1>1. /\ rf \in Ring(RCount, Told) /\ rf.nStored > 0 /\ read \in Seq(Told)
  BY DEF TypeInv, RingTypes, HistTypes, Get, pcan_fifo_empty
<1>2. /\ UNCHANGED <<got, hw, rx, bExtended, count, wCANStatus, told, ints>>
      /\ \/ UNCHANGED <<rf, read>>
         \/ rf' = pcan_fifo_get(rf) /\ read' = Append(read, FirstOf(rf))
  BY DEF Get, device, chip
<1>3. In(rf)' = In(rf)
  <2>1. CASE UNCHANGED <<rf, read>>
    BY <2>1 DEF In
  <2>2. CASE rf' = pcan_fifo_get(rf) /\ read' = Append(read, FirstOf(rf))
    <3> DEFINE c == Contents(rf)
               e == Contents(pcan_fifo_get(rf))
    <3>1. /\ pcan_fifo_get(rf) \in Ring(RCount, Told)
          /\ pcan_fifo_get(rf).nStored = rf.nStored - 1
          /\ \A i \in 1 .. rf.nStored - 1 : e[i] = c[i + 1]
          /\ FirstOf(rf) = c[1]
      BY <1>1, Sizes, RingGet
    <3>2. /\ c \in Seq(Told) /\ Len(c) = rf.nStored /\ rf.nStored - 1 \in Nat
          /\ e \in Seq(Told) /\ Len(e) = rf.nStored - 1
          /\ Len(c) = (rf.nStored - 1) + 1
      <4>1. rf.nStored \in Nat
        BY <1>1, Sizes DEF Ring
      <4>2. c \in Seq(Told) /\ Len(c) = rf.nStored
        BY <1>1, Sizes, ContentsAre
      <4>3. e \in Seq(Told) /\ Len(e) = rf.nStored - 1
        BY <3>1, Sizes, ContentsAre
      <4> QED BY <1>1, <4>1, <4>2, <4>3
    <3>3. In(rf)' = Append(read, c[1]) \o e
      BY <2>2, <3>1 DEF In
    <3>4. In(rf) = read \o c
      BY DEF In
    <3> HIDE DEF c, e
    <3> QED BY <1>1, <3>1, <3>2, <3>3, <3>4, Moved
  <2> QED BY <1>2, <2>1, <2>2
<1> QED BY <1>2, <1>3 DEF KeepStep, Reported

LEMMA KeepSteps ==
  ASSUME TypeInv, RunInv, Next,
         ~SjaIrq, ~\E n, k \in 0 .. Block, r \in BOOLEAN : UsbReadNotify(n, k, r),
         ~\E f \in Frames : Received(f)
  PROVE  KeepStep
<1>1. ASSUME UNCHANGED <<got, hw, rx, bExtended, rf, read, wCANStatus, told>>, count'.rx = count.rx,
             "DOI" \in ints => "DOI" \in ints'
      PROVE  KeepStep
  BY <1>1 DEF KeepStep, Reported, In
<1>2. ASSUME NEW p \in Procs,
             \/ SleepForData(p) \/ Parse(p) \/ SleepForRoom(p) \/ Put(p) \/ Claim(p) \/ WaitOver(p)
             \/ Interrupted(p) \/ CallRead(p) \/ ReadRest(p)
      PROVE  KeepStep
  <2>1. UNCHANGED <<got, hw, rx, bExtended, rf, read, wCANStatus, told, count, ints>>
    BY <1>2 DEF SleepForData, Parse, SleepForRoom, Put, Claim, WaitOver, Interrupted,
       CallRead, ReadRest, queues, device, chip, history
  <2> QED BY <1>1, <2>1
<1>3. ASSUME NEW p \in Procs, \/ \E m \in Messages : CallWrite(p, m)
                              \/ \E l \in Lines : CallWriteText(p, l)
      PROVE  KeepStep
  <2>1. UNCHANGED <<got, hw, rx, bExtended, rf, read, wCANStatus, told, ints>> /\ Counted("writes")
    BY <1>3 DEF CallWrite, CallWriteText, queues, device, chip
  <2>2. count'.rx = count.rx
    BY <2>1 DEF Counted
  <2> QED BY <1>1, <2>1, <2>2
<1>4. ASSUME NEW p \in Procs, StartWrite(p) PROVE KeepStep
  <2>1. UNCHANGED <<got, hw, rx, bExtended, rf, read, wCANStatus, told, count, ints>>
    BY <1>4 DEF StartWrite, device
  <2> QED BY <1>1, <2>1
<1>5. ASSUME NEW p \in Procs, CallStatus(p) PROVE KeepStep
  <2>1. /\ UNCHANGED <<got, hw, rx, bExtended, rf, read, wCANStatus, count, ints>>
        /\ told' = told \cup wCANStatus
    BY <1>5 DEF CallStatus, queues, device, chip
  <2> QED BY <2>1 DEF KeepStep, Reported, In
<1>6. ASSUME NEW p \in Procs, ClearStatus(p) PROVE KeepStep
  <2>1. /\ UNCHANGED <<got, hw, rx, bExtended, rf, read, told, count, ints>>
        /\ trouble' = trouble \cup When(~(wCANStatus \subseteq told), "status")
    BY <1>6 DEF ClearStatus, queues, chip
  <2>2. Calm(ReadSet)' => wCANStatus \subseteq told
    BY <2>1 DEF Calm, ReadSet, When
  <2> QED BY <2>1, <2>2 DEF KeepStep, Reported, In
<1>7. ASSUME NEW p \in Procs, \/ Reopen(p) \/ InitLine(p) \/ \E e \in BOOLEAN : CallInit(p, e)
      PROVE  KeepStep
  <2>1. UNCHANGED <<got, hw, read, count>>
    BY <1>7 DEF Reopen, InitLine, CallInit, device
  <2>2. rx' \in {rx, <<>>}
    BY <1>7 DEF Reopen, InitLine, CallInit, chip, ChipReset
  <2>3. In(rf)' \in {In(rf), read}
    <3>1. Contents(pcan_fifo_reset(rf)) = <<>>
      BY Sizes, RingReset DEF TypeInv, RingTypes
    <3>2. rf' = pcan_fifo_reset(rf) \/ rf' = rf
      BY <1>7 DEF Reopen, InitLine, CallInit, queues
    <3>3. read \o <<>> = read
      BY DEF TypeInv, HistTypes
    <3> QED BY <2>1, <3>1, <3>2, <3>3 DEF In
  <2>4. ~Calm(ReadSet)'
    <3>1. "reset" \in trouble' \/ "reinit" \in trouble'
      <4>1. Reopen(p) => "reset" \in trouble /\ trouble \subseteq trouble'
        BY TroubleGrows DEF RunInv, Reopen, May
      <4>2. InitLine(p) => "reinit" \in trouble'
        BY DEF InitLine
      <4>3. (\E e \in BOOLEAN : CallInit(p, e)) => "reset" \in trouble'
        BY DEF CallInit, Once
      <4> QED BY <1>7, <4>1, <4>2, <4>3
    <3> QED BY <3>1 DEF Calm, ReadSet
  <2> QED BY <2>1, <2>2, <2>3, <2>4 DEF KeepStep
<1>8. ASSUME UsbWriteNotify PROVE KeepStep
  <2>1. /\ UNCHANGED <<got, hw, rx, bExtended, rf, read, told, count>> /\ ints' = ints \ {"TI"}
        /\ wCANStatus' = wCANStatus \/ wCANStatus' = wCANStatus \cup {"QXMTFULL"}
    BY <1>8 DEF UsbWriteNotify
  <2> QED BY <2>1 DEF KeepStep, Reported, In
<1>9. ASSUME Transmitted \/ BusTrouble \/ UsbWriteFailed
      PROVE  KeepStep
  <2>1. /\ UNCHANGED <<got, hw, rx, bExtended, rf, read, wCANStatus, told, count>>
        /\ ints \subseteq ints'
    BY <1>9 DEF Transmitted, BusTrouble, UsbWriteFailed, queues, device
  <2> QED BY <1>1, <2>1
<1>10. ASSUME Unplug PROVE KeepStep
  <2>1. /\ UNCHANGED <<got, hw, rf, read, count>> /\ rx' = <<>> /\ "unplug" \in trouble'
    BY <1>10 DEF Unplug, Once, queues
  <2> QED BY <2>1 DEF KeepStep, In, Calm, ReadSet
<1> QED BY StepsAre, <1>2, <1>3, <1>4, <1>5, <1>6, <1>7, <1>8, <1>9, <1>10, GetKeeps

LEMMA HearSteps ==
  ASSUME TypeInv, GotInv, NEW f \in Frames, Received(f)
  PROVE  \E g \in Heard : HearStep(g)
<1> DEFINE g == [id |-> f.id, flags |-> f.flags, data |-> count.rx + 1]
<1>1. /\ f.id \in Nat /\ f.flags \in SUBSET {"EFF", "RTR"}
      /\ f.id < (IF "EFF" \in f.flags THEN EXT_IDS ELSE STD_IDS)
  BY PcanAssumption
<1>2. count.rx + 1 \in Nat /\ count.rx = Len(got)
  BY DEF TypeInv, HistTypes, GotInv
<1>3. g \in Heard
  BY <1>1, <1>2 DEF Heard
<1>4. /\ g.data = Len(got) + 1 /\ g.id < (IF "EFF" \in g.flags THEN EXT_IDS ELSE STD_IDS)
  BY <1>1, <1>2
<1>5. /\ got' = Append(got, g)
      /\ \/ rx' = Append(rx, RxRegs(g)) /\ ints' = ints
         \/ rx' = rx /\ ints' = ints \cup {"DOI"}
  BY DEF Received, RxRegs
<1>6. UNCHANGED <<hw, read, rf, bExtended, wCANStatus, told>> /\ Counted("rx")
  BY DEF Received, queues, device
<1>7. count'.rx = count.rx + 1
  BY <1>6, CountedType
<1> HIDE DEF g
<1>8. HearStep(g)
  BY <1>4, <1>5, <1>6, <1>7 DEF HearStep
<1> QED BY <1>3, <1>8

\* A pass of the interrupt handler.
LEMMA SjaFeeds ==
  ASSUME TypeInv, ReadInv, SjaIrq
  PROVE  \E k \in 0 .. Len(rx), d \in Nat : FeedStep(k, d)
<1> DEFINE s == Read(Taken)
           g == Filled[Taken]
           d == IF AnyRefused THEN Taken + 1 ELSE Taken
<1>1. rf \in Ring(RCount, Told) /\ rx \in Seq(Regs)
  BY DEF TypeInv, RingTypes, ChipTypes
<1>2. /\ Taken \in 0 .. Len(rx) /\ Len(rx) \in Nat /\ (rx # <<>> => Taken > 0)
      /\ Filled = After(rf, s) /\ Len(s) = Taken
      /\ \A i \in 1 .. Taken : s[i] = sja1000_read_frame(rx[i])
  BY FilledFacts
<1>3. ~Usb /\ GotInv /\ RxInv /\ Holds(rf, 0)
  BY DEF SjaIrq, ReadInv
<1>4. \A i \in 1 .. Taken : Decodes(s[i], 0 + i)
  <2> TAKE i \in 1 .. Taken
  <2>1. i \in 1 .. Len(rx) /\ 0 + i = i
    BY <1>2
  <2> QED BY <1>2, <1>3, <2>1, RxDecodes
<1>5. Taken \in Nat /\ 0 + Taken <= Len(rx) /\ Taken <= Len(s) /\ Len(s) \in Nat /\ 0 \in Nat
      /\ Taken \in 0 .. Taken /\ 0 + Taken = Taken
  BY <1>2
<1> HIDE DEF s
<1>6. /\ g \in Ring(RCount, Told) /\ Holds(g, Taken)
      /\ \A n : Has(In(rf), n) => Has(In(g), n)
      /\ (\A j \in 1 .. Taken : ~Refused(Filled[j - 1], s[j])) =>
           \A j \in 1 .. Taken : Has(In(g), rx[j].data) \/ Skipped(rx[j].data)
  <2>1. \A i \in 0 .. Taken :
           /\ After(rf, s)[i] \in Ring(RCount, Told) /\ Holds(After(rf, s)[i], 0 + i)
           /\ \A k : Has(In(rf), k) => Has(In(After(rf, s)[i]), k)
           /\ (\A j \in 1 .. i : ~Refused(After(rf, s)[j - 1], s[j])) =>
                \A j \in 1 .. i :
                  Has(In(After(rf, s)[i]), rx[0 + j].data) \/ Skipped(rx[0 + j].data)
    BY <1>1, <1>3, <1>4, <1>5, Feed
  <2>2. /\ g \in Ring(RCount, Told) /\ Holds(g, 0 + Taken)
        /\ \A k : Has(In(rf), k) => Has(In(g), k)
        /\ (\A j \in 1 .. Taken : ~Refused(Filled[j - 1], s[j])) =>
             \A j \in 1 .. Taken : Has(In(g), rx[0 + j].data) \/ Skipped(rx[0 + j].data)
    BY <1>2, <1>5, <2>1
  <2>3. \A j \in 1 .. Taken : 0 + j = j
    BY <1>2
  <2> QED BY <1>5, <2>2, <2>3
<1>7. ~AnyRefused => \A j \in 1 .. Taken : ~Refused(Filled[j - 1], s[j])
  BY <1>2 DEF AnyRefused
<1>8. (IF rx # <<>> THEN g ELSE rf) = g
  <2>1. rx = <<>> => Taken = 0
    BY <1>2
  <2>2. After(rf, s)[0] = rf
    BY <1>5, AfterIs
  <2> QED BY <1>2, <2>1, <2>2
<1>9. /\ Holds(rf', Taken)
      /\ \A n : Has(In(rf), n) => Has(In(rf'), n)
      /\ \A n : Has(In(g), n) => Has(In(rf'), n)
  <2>1. rf' = g \/ \E e \in SUBSET Errors : rf' = pcan_chardev_rx(g, ErrorFrame(e))
    BY <1>8, ErrorsType DEF SjaIrq
  <2> HIDE DEF g
  <2>2. CASE rf' = g
    BY <1>6, <2>2
  <2>3. ASSUME NEW e \in SUBSET Errors, rf' = pcan_chardev_rx(g, ErrorFrame(e))
        PROVE  Holds(rf', Taken) /\ \A n : Has(In(g), n) => Has(In(rf'), n)
    BY <1>6, <2>3, EnterError
  <2> QED BY <1>6, <2>1, <2>2, <2>3
<1>10. d \in Nat /\ Taken <= d /\ rx' = SubSeq(rx, d + 1, Len(rx))
  <2>1. d \in Nat /\ Taken <= d /\ d + 1 = Taken + (IF AnyRefused THEN 2 ELSE 1)
    BY <1>5
  <2>2. CASE rx # <<>>
    BY <2>1, <2>2 DEF SjaIrq, Left
  <2>3. CASE rx = <<>>
    <3>1. rx' = rx /\ Len(rx) = 0
      BY <2>3 DEF SjaIrq
    <3>2. SubSeq(rx, d + 1, Len(rx)) = <<>>
      BY <1>1, <2>1, <3>1
    <3> QED BY <2>1, <2>3, <3>1, <3>2
  <2> QED BY <2>2, <2>3
<1>11. /\ UNCHANGED <<got, hw, read, bExtended, count, told>>
       /\ wCANStatus' = (wCANStatus \cup ErrorsOf(ints)) \cup When(rx # <<>> /\ AnyRefused, "QOVERRUN")
  BY DEF SjaIrq
<1>12. Reported => Reported'
  <2>1. "DOI" \in ints => "OVERRUN" \in wCANStatus'
    BY <1>11 DEF ErrorsOf, When
  <2> QED BY <1>11, <2>1 DEF Reported
<1>13. AnyRefused => Reported'
  <2>1. AnyRefused => rx # <<>>
    <3>1. rx = <<>> => 1 .. Taken = {}
      BY <1>2
    <3> QED BY <3>1 DEF AnyRefused
  <2>2. AnyRefused => "QOVERRUN" \in wCANStatus'
    BY <1>11, <2>1 DEF When
  <2> QED BY <2>2 DEF Reported
<1>14. \/ Reported'
       \/ d = Taken /\ \A j \in 1 .. Taken : Has(In(rf'), rx[j].data) \/ Skipped(rx[j].data)
  <2>1. CASE AnyRefused
    BY <1>13, <2>1
  <2>2. CASE ~AnyRefused
    BY <1>6, <1>7, <1>9, <2>2
  <2> QED BY <2>1, <2>2
<1> HIDE DEF d, g
<1>15. FeedStep(Taken, d)
  BY <1>9, <1>10, <1>11, <1>12, <1>14 DEF FeedStep
<1> QED BY <1>2, <1>10, <1>15

\* A block of a telegram.
LEMMA BlockFeeds ==
  ASSUME TypeInv, GotInv, RxInv, Usb, NEW f \in Ring(RCount, Told), NEW a \in Nat,
         NEW recs \in Seq(Regs), a + Len(recs) <= Len(rx),
         \A i \in 1 .. Len(recs) : recs[i] = rx[a + i],
         NEW errs \in SUBSET Errors, Holds(f, a)
  PROVE  /\ BlockOf(f, recs, errs).rf \in Ring(RCount, Told)
         /\ Holds(BlockOf(f, recs, errs).rf, a + Len(recs))
         /\ \A n : Has(In(f), n) => Has(In(BlockOf(f, recs, errs).rf), n)
         /\ ~BlockOf(f, recs, errs).failed =>
              /\ BlockOf(f, recs, errs).told = errs
              /\ \A j \in 1 .. Len(recs) :
                   Has(In(BlockOf(f, recs, errs).rf), rx[a + j].data) \/ Skipped(rx[a + j].data)
<1> DEFINE s == Decoded(recs, errs)
           at == After(f, s)
           failed == \E i \in 1 .. Len(s) : Refused(at[i - 1], s[i])
           n == Len(recs)
           g == at[Len(s)]
<1>1. /\ Len(s) \in Nat /\ n \in Nat /\ Len(s) = n + (IF errs = {} THEN 0 ELSE 1)
      /\ \A i \in 1 .. n : s[i] = pcan_hw_DecodeMessage(recs[i])
      /\ errs # {} => s[n + 1] = ErrorFrame(errs)
  <2>1. /\ Len(recs) \in Nat /\ Len(s) = Len(recs) + (IF errs = {} THEN 0 ELSE 1)
        /\ \A i \in 1 .. Len(recs) : s[i] = pcan_hw_DecodeMessage(recs[i])
        /\ errs # {} => s[Len(recs) + 1] = ErrorFrame(errs)
    BY DecodedIs
  <2> QED BY <2>1
<1>2. /\ BlockOf(f, recs, errs).rf = g
      /\ BlockOf(f, recs, errs).failed = failed
      /\ BlockOf(f, recs, errs).told
           = IF \E i \in 1 .. n : Refused(at[i - 1], s[i]) THEN {} ELSE errs
  BY DEF BlockOf, Decoded
<1>3. n <= Len(s) /\ n \in 0 .. n /\ a + n <= Len(rx) /\ \A i \in 1 .. n : i \in 1 .. Len(s)
  BY <1>1
<1>4. \A i \in 1 .. n : Decodes(s[i], a + i)
  <2> TAKE i \in 1 .. n
  <2>1. Len(rx) \in Nat
    BY Elements DEF TypeInv, ChipTypes
  <2>2. a + i \in 1 .. Len(rx) /\ s[i] = pcan_hw_DecodeMessage(rx[a + i])
    BY <1>1, <1>3, <2>1
  <2> QED BY <2>2, RxDecodes
<1> HIDE DEF s, n
<1>5. \A i \in 0 .. n :
        /\ at[i] \in Ring(RCount, Told) /\ Holds(at[i], a + i)
        /\ \A k : Has(In(f), k) => Has(In(at[i]), k)
        /\ (\A j \in 1 .. i : ~Refused(at[j - 1], s[j])) =>
             \A j \in 1 .. i : Has(In(at[i]), rx[a + j].data) \/ Skipped(rx[a + j].data)
  BY <1>1, <1>3, <1>4, Feed
<1>6. g = at[n] \/ g = pcan_chardev_rx(at[n], ErrorFrame(errs))
  <2>1. \A i \in 1 .. Len(s) : at[i] = pcan_chardev_rx(at[i - 1], s[i])
    BY <1>1, AfterIs
  <2>2. CASE errs = {}
    BY <1>1, <2>2
  <2>3. CASE errs # {}
    <3>1. Len(s) = n + 1 /\ n + 1 \in 1 .. Len(s) /\ (n + 1) - 1 = n /\ s[n + 1] = ErrorFrame(errs)
      BY <1>1, <2>3
    <3> QED BY <2>1, <3>1
  <2> QED BY <2>2, <2>3
<1> DEFINE h == at[n]
<1>7. /\ h \in Ring(RCount, Told) /\ Holds(h, a + n)
      /\ \A k : Has(In(f), k) => Has(In(h), k)
      /\ (\A j \in 1 .. n : ~Refused(at[j - 1], s[j])) =>
           \A j \in 1 .. n : Has(In(h), rx[a + j].data) \/ Skipped(rx[a + j].data)
  BY <1>3, <1>5
<1> HIDE DEF h, g, at
<1>8. /\ g \in Ring(RCount, Told) /\ Holds(g, a + n) /\ \A k : Has(In(h), k) => Has(In(g), k)
  <2>1. CASE g = h
    BY <1>7, <2>1
  <2>2. CASE g = pcan_chardev_rx(h, ErrorFrame(errs))
    BY <1>7, <2>2, EnterError
  <2> QED BY <1>6, <2>1, <2>2 DEF h
<1>9. ~failed => \A j \in 1 .. n : ~Refused(at[j - 1], s[j])
  BY <1>3
<1> QED BY <1>2, <1>7, <1>8, <1>9 DEF n

LEMMA UsbFeeds ==
  ASSUME TypeInv, ReadInv, NEW n \in 0 .. Block, NEW k \in 0 .. Block, NEW r \in BOOLEAN,
         UsbReadNotify(n, k, r)
  PROVE  n + k \in 0 .. Len(rx) /\ n + k \in Nat /\ FeedStep(n + k, n + k)
<1> DEFINE a == SubSeq(rx, 1, n)
           b == SubSeq(rx, n + 1, n + k)
           d == IF k = 0 THEN ErrorsOf(ints) ELSE {}
           e == IF k = 0 THEN {} ELSE ErrorsOf(ints)
           one == BlockOf(rf, a, d)
           two == BlockOf(one.rf, b, e)
<1>1. /\ n \in Nat /\ k \in Nat /\ Len(rx) \in Nat /\ n + k <= Len(rx) /\ n <= Len(rx)
      /\ rf \in Ring(RCount, Told) /\ rx \in Seq(Regs) /\ Usb
      /\ GotInv /\ RxInv /\ Holds(rf, 0)
  <2>1. n \in Nat /\ k \in Nat /\ Len(rx) \in Nat /\ n + k <= Len(rx)
    BY UsbRead
  <2>2. rf \in Ring(RCount, Told) /\ rx \in Seq(Regs) /\ Usb
    BY DEF TypeInv, RingTypes, ChipTypes, UsbReadNotify
  <2>3. n <= Len(rx)
    BY <2>1
  <2> QED BY <2>1, <2>2, <2>3 DEF ReadInv
<1>2. /\ rf' = two.rf /\ rx' = SubSeq(rx, n + k + 1, Len(rx))
      /\ wCANStatus' = ((wCANStatus \cup one.told) \cup two.told)
                          \cup When(one.failed \/ two.failed, "QOVERRUN")
      /\ UNCHANGED <<got, hw, read, bExtended, count, told>>
  BY DEF UsbReadNotify
<1>3. d \in SUBSET Errors /\ e \in SUBSET Errors /\ d \cup e = ErrorsOf(ints)
  BY ErrorsType
<1>4. a \in Seq(Regs) /\ Len(a) = n /\ \A i \in 1 .. n : a[i] = rx[0 + i]
  <2>1. 0 \in Nat /\ 0 + n <= Len(rx)
    BY <1>1
  <2>2. /\ SubSeq(rx, 0 + 1, 0 + n) \in Seq(Regs) /\ Len(SubSeq(rx, 0 + 1, 0 + n)) = n
        /\ \A i \in 1 .. n : SubSeq(rx, 0 + 1, 0 + n)[i] = rx[0 + i]
    BY <1>1, <2>1, PartType
  <2> QED BY <1>1, <2>2
<1>5. b \in Seq(Regs) /\ Len(b) = k /\ \A i \in 1 .. k : b[i] = rx[n + i]
  BY <1>1, PartType
<1> HIDE DEF a, b, d, e
<1>6. /\ one.rf \in Ring(RCount, Told) /\ Holds(one.rf, n)
      /\ \A x : Has(In(rf), x) => Has(In(one.rf), x)
      /\ ~one.failed =>
           /\ one.told = d
           /\ \A j \in 1 .. n : Has(In(one.rf), rx[j].data) \/ Skipped(rx[j].data)
  <2>1. 0 \in Nat /\ 0 + Len(a) = n /\ n <= Len(rx) /\ \A j \in 1 .. n : 0 + j = j
    BY <1>1, <1>4
  <2>2. /\ one.rf \in Ring(RCount, Told) /\ Holds(one.rf, 0 + Len(a))
        /\ \A x : Has(In(rf), x) => Has(In(one.rf), x)
        /\ ~one.failed =>
             /\ one.told = d
             /\ \A j \in 1 .. Len(a) : Has(In(one.rf), rx[0 + j].data) \/ Skipped(rx[0 + j].data)
    BY <1>1, <1>3, <1>4, <2>1, BlockFeeds
  <2> QED BY <1>4, <2>1, <2>2
<1> DEFINE f == one.rf
<1>7. f \in Ring(RCount, Told) /\ Holds(f, n)
  BY <1>6
<1>8. two = BlockOf(f, b, e)
  OBVIOUS
<1> HIDE DEF f, two, one
<1>9. /\ Holds(two.rf, n + k)
      /\ \A x : Has(In(f), x) => Has(In(two.rf), x)
      /\ ~two.failed =>
           /\ two.told = e
           /\ \A j \in 1 .. k : Has(In(two.rf), rx[n + j].data) \/ Skipped(rx[n + j].data)
  <2>1. n + Len(b) = n + k /\ n + Len(b) <= Len(rx)
    BY <1>1, <1>5
  <2>2. /\ Holds(BlockOf(f, b, e).rf, n + Len(b))
        /\ \A x : Has(In(f), x) => Has(In(BlockOf(f, b, e).rf), x)
        /\ ~BlockOf(f, b, e).failed =>
             /\ BlockOf(f, b, e).told = e
             /\ \A j \in 1 .. Len(b) :
                  Has(In(BlockOf(f, b, e).rf), rx[n + j].data) \/ Skipped(rx[n + j].data)
    BY <1>1, <1>3, <1>5, <1>7, <2>1, BlockFeeds
  <2> QED BY <1>5, <1>8, <2>1, <2>2
<1>10. \A x : Has(In(rf), x) => Has(In(rf'), x)
  BY <1>2, <1>6, <1>9 DEF f
<1>11. ASSUME one.failed \/ two.failed PROVE Reported'
  <2>1. "QOVERRUN" \in wCANStatus'
    BY <1>2, <1>11 DEF When
  <2> QED BY <2>1 DEF Reported
<1>12. ASSUME ~(one.failed \/ two.failed), Reported PROVE Reported'
  <2>1. ErrorsOf(ints) \subseteq wCANStatus'
    BY <1>2, <1>3, <1>6, <1>9, <1>12
  <2>2. "DOI" \in ints => "OVERRUN" \in wCANStatus'
    BY <2>1 DEF ErrorsOf, When
  <2> QED BY <1>2, <1>12, <2>2 DEF Reported
<1>13. ASSUME ~(one.failed \/ two.failed), NEW j \in 1 .. n + k
       PROVE  Has(In(rf'), rx[j].data) \/ Skipped(rx[j].data)
  <2>1. CASE j \in 1 .. n
    BY <1>2, <1>6, <1>9, <1>13, <2>1 DEF f
  <2>2. CASE j \notin 1 .. n
    <3>1. j - n \in 1 .. k /\ n + (j - n) = j
      BY <1>1, <2>2
    <3> QED BY <1>2, <1>9, <1>13, <3>1
  <2> QED BY <2>1, <2>2
<1>14. n + k \in 0 .. Len(rx) /\ n + k \in Nat /\ n + k <= n + k
  BY <1>1
<1>15. FeedStep(n + k, n + k)
  <2>1. Reported => Reported'
    BY <1>11, <1>12
  <2>2. \/ Reported'
        \/ \A j \in 1 .. n + k : Has(In(rf'), rx[j].data) \/ Skipped(rx[j].data)
    BY <1>11, <1>13
  <2> QED BY <1>2, <1>9, <1>10, <1>14, <2>1, <2>2 DEF FeedStep
<1> QED BY <1>14, <1>15

LEMMA ReadNext ==
  ASSUME TypeInv, TypeInv', RunInv, ReadInv, Next
  PROVE  ReadInv'
<1>1. trouble \subseteq trouble'
  BY TroubleGrows
<1>2. CASE SjaIrq
  BY <1>1, <1>2, SjaFeeds, FeedNext
<1>3. CASE \E n, k \in 0 .. Block, r \in BOOLEAN : UsbReadNotify(n, k, r)
  BY <1>1, <1>3, UsbFeeds, FeedNext
<1>4. CASE \E f \in Frames : Received(f)
  <2>1. GotInv
    BY DEF ReadInv
  <2> QED BY <1>1, <1>4, <2>1, HearSteps, HearNext
<1>5. CASE KeepStep
  BY <1>1, <1>5, KeepNext
<1> QED BY <1>2, <1>3, <1>4, <1>5, KeepSteps

LEMMA ReceivedOrReportedHolds ==
  ASSUME TypeInv, ReadInv
  PROVE  ReceivedOrReported
<1>1. Stored = In(rf) /\ FrameAt = Framed(Stored)
  BY DEF Stored, In, FrameAt, Framed, IsFrame
<1>2. Sound(Stored) /\ Rising(Stored) /\ LossInv
  BY <1>1 DEF ReadInv, Holds
<1>3. \A i, j \in FrameAt : i < j => Stored[i].DATA < Stored[j].DATA
  BY <1>1, <1>2 DEF Rising
<1>4. ASSUME NEW i \in FrameAt, NEW f, f = got[Stored[i].DATA]
      PROVE  \/ Usb /\ "EFF" \in f.flags
             \/ Stored[i].ID = f.id /\ msg2frame(Stored[i]).flags = f.flags
  BY <1>1, <1>2, <1>4 DEF Sound, AsSent
<1>5. \A n : n \in Known <=> Has(In(rf), n) \/ InRx(n)
  BY <1>1 DEF Known, Has, InRx
<1>6. Calm(ReadSet)
        => \/ \A n \in 1 .. Len(got) : n \in Known \/ (~bExtended /\ "EFF" \in got[n].flags)
           \/ (wCANStatus \cup told) \cap {"OVERRUN", "QOVERRUN"} # {}
           \/ "DOI" \in ints
  BY <1>2, <1>5 DEF LossInv, Reported, AllKnown, Skipped
<1> QED BY <1>3, <1>4, <1>6 DEF ReceivedOrReported, ReadSet

(***************************************************************************)
(* The path of received frames, from the controller over readFifo to the   *)
(* readers, for a FIFO of every size and every mix of readers, handlers    *)
(* and initialisations: frames are read in the order in which they came,   *)
(* none twice, as they were sent (the USB device mangles extended ones);   *)
(* and when one is missing that the device is open for, wCANStatus holds   *)
(* an overrun, or has shown it to a user, or is about to.                  *)
(***************************************************************************)
THEOREM CharReceivedOrReported == Spec => []ReceivedOrReported
<1>1. Init => TypeInv
  BY InitTypes
<1>2. Init => RunInv /\ ReadInv
  <2> SUFFICES ASSUME Init PROVE RunInv /\ ReadInv
    OBVIOUS
  <2>1. RunInv
    BY NoProcIsNone DEF Init, RunInv, Calm
  <2>2. /\ got = <<>> /\ rx = <<>> /\ Len(got) = 0 /\ Len(rx) = 0 /\ count.rx = 0
        /\ 1 .. 0 = {}
    BY DEF Init
  <2>3. In(rf) = <<>>
    <3>1. Empty \in Told
      BY DEF Empty, Told, Types
    <3>2. Contents(pcan_fifo_init(RCount, Empty)) = <<>>
      BY <3>1, Sizes, RingInit
    <3>3. <<>> \o <<>> = <<>>
      OBVIOUS
    <3> QED BY <3>2, <3>3 DEF Init, In
  <2>4. Framed(In(rf)) = {}
    <3>1. Len(<<>>) = 0
      OBVIOUS
    <3> QED BY <2>2, <2>3, <3>1 DEF Framed
  <2>5. GotInv /\ RxInv
    BY <2>2 DEF GotInv, RxInv
  <2>6. Holds(rf, 0)
    BY <2>2, <2>4 DEF Holds, Sound, Rising, Below
  <2>7. LossInv
    BY <2>2 DEF LossInv, AllKnown
  <2> QED BY <2>1, <2>5, <2>6, <2>7 DEF ReadInv
<1>3. TypeInv /\ [Next]_vars => TypeInv'
  BY TypeNext, TypeStutter
<1>4. TypeInv /\ TypeInv' /\ RunInv /\ [Next]_vars => RunInv'
  BY RunNext, RunStutter
<1>5. TypeInv /\ TypeInv' /\ RunInv /\ ReadInv /\ [Next]_vars => ReadInv'
  <2>1. ASSUME ReadInv, UNCHANGED vars PROVE ReadInv'
    BY <2>1 DEF vars, queues, device, chip, procs, history, ReadInv, GotInv, RxInv, Holds, LossInv,
       AllKnown, Reported, InRx, Skipped, In, Sound, AsSent, RxRegs, Usb, Calm
  <2> QED BY <2>1, ReadNext
<1>6. TypeInv /\ ReadInv => ReceivedOrReported
  BY ReceivedOrReportedHolds
<1> QED BY <1>1, <1>2, <1>3, <1>4, <1>5, <1>6, PTL DEF Spec
===============================================================================
