---------------------------- MODULE TpParameters ----------------------------
(***************************************************************************)
(* The parameters of a connection: the socket options of the three         *)
(* protocols, the bytes of a CS or CA frame that announce them, and what   *)
(* the partner makes of those.  A time is [sec, usec] in the socket        *)
(* options, microseconds in myta, mytd and mytdc, a unit and a count of up *)
(* to 63 units in a frame, and jiffies in ta, td and tdc.                  *)
(***************************************************************************)
EXTENDS Integers

HZs == {100, 250, 1000}         \* the timer rates the kernel can be built with

Smallest(a, b) == IF a < b THEN a ELSE b
Distance(a, b) == IF a < b THEN b - a ELSE a - b

BS_MASK(x) == x % 16
T1_DEFAULT == 1000
T3_DEFAULT == 0
T4_DEFAULT == 1000

Tick(hz) == 1000000 \div hz     \* microseconds in a jiffy
MS2JIFF(ms, hz) == (ms * hz) \div 1000

\* X_initdefaults(): what is announced, and what is obeyed until CS or CA arrives.
initdefaults(hz) ==
  [mybs |-> 15, myta |-> T1_DEFAULT * 1000, mytd |-> T3_DEFAULT * 1000,
   mytdc |-> T4_DEFAULT * 1000,
   bs |-> 15, ta |-> MS2JIFF(T1_DEFAULT, hz), td |-> MS2JIFF(T3_DEFAULT, hz),
   tdc |-> MS2JIFF(T4_DEFAULT, hz)]

----------------------------------------------------------------------------
(* Socket options.  A refused time is replaced by the default, but the one *)
(* of T3 is stored as T1.                                                  *)

TooLong(t) == t.sec > 6 \/ t.usec > 1000000
Micros(t) == t.sec * 1000000 + t.usec
BlockSize(x) == IF BS_MASK(x) = 0 THEN 1 ELSE BS_MASK(x)

tp20_setsockopt(p, opts) ==
  LET t1 == IF TooLong(opts.t1) THEN T1_DEFAULT * 1000 ELSE Micros(opts.t1)
  IN  [p EXCEPT !.myta = IF TooLong(opts.t3) THEN T3_DEFAULT * 1000 ELSE t1,
                !.mytd = IF TooLong(opts.t3) THEN @ ELSE Micros(opts.t3),
                !.mybs = BlockSize(opts.blocksize)]

tp16_setsockopt(p, opts) ==
  [tp20_setsockopt(p, opts) EXCEPT
     !.mytdc = IF TooLong(opts.t4) THEN T4_DEFAULT * 1000 ELSE Micros(opts.t4)]

----------------------------------------------------------------------------
(* Values in a frame: 0 to 63 units of 100 us, 1, 10 or 100 ms; 63 units   *)
(* of 100 ms, 0xFF, mean that there is no such time.                       *)

Units == <<100, 1000, 10000, 100000>>
Disabled == [unit |-> 4, count |-> 63]

FitsSixtyFour(usec, u) == usec \div Units[u] < 65     \* a mutant: off by one
Fits(usec, u) == usec \div Units[u] < 64

usec_to_cs_val(usec) ==
  IF \A u \in 1 .. 4 : ~Fits(usec, u) THEN Disabled
  ELSE LET u == CHOOSE v \in 1 .. 4 : Fits(usec, v) /\ \A w \in 1 .. (v - 1) : ~Fits(usec, w)
       IN  [unit |-> u, count |-> (usec \div Units[u]) % 64]

\* Rounded down to jiffies, but not to none.
cs_val_to_jiffies(v, hz) ==
  LET jif == (v.count * hz) \div (1000000 \div Units[v.unit])
  IN  IF v.count > 0 /\ jif = 0 THEN 1 ELSE jif

tp20_fill_cx_frame(p) ==
  [bs |-> p.mybs, t1 |-> usec_to_cs_val(p.myta), t3 |-> usec_to_cs_val(p.mytd), t4 |-> Disabled]

tp16_fill_cx_frame(p) == [tp20_fill_cx_frame(p) EXCEPT !.t4 = usec_to_cs_val(p.mytdc)]

Timeout(v, hz) == IF v = Disabled THEN 0 ELSE cs_val_to_jiffies(v, hz)

tp20_adjust_parameters(p, frame, hz) ==
  [p EXCEPT !.bs = BlockSize(frame.bs), !.ta = Timeout(frame.t1, hz),
            !.td = cs_val_to_jiffies(frame.t3, hz)]

tp16_adjust_parameters(p, frame, hz) ==
  [tp20_adjust_parameters(p, frame, hz) EXCEPT !.tdc = Timeout(frame.t4, hz)]

----------------------------------------------------------------------------
(* timeval2jiffies(), for an unsigned long that holds 0 .. max and ticks   *)
(* of so many microseconds.  Rounding up is not checked for overflow.      *)

timeval2jiffies(t, round_up, hz, tick, max) ==
  IF t.sec > max \div hz THEN max
  ELSE LET jif == ((t.usec + IF round_up THEN tick - 1 ELSE 0) % (max + 1)) \div tick
       IN  IF t.sec * hz > max - jif THEN max ELSE jif + t.sec * hz

----------------------------------------------------------------------------
(* MCNet has a block size and a transmit delay of its own, not announced   *)
(* ones; the smaller block size of the two counts.                         *)

ULONG_MAX == 1073741823         \* bound: 30 bits, within the numbers of TLC

mcnet_setsockopt(opts, hz) ==
  [bs |-> BlockSize(opts.blocksize),
   td |-> timeval2jiffies(opts.td, TRUE, hz, Tick(hz), ULONG_MAX)]

mcnet_cx_frame(p) == BS_MASK(p.bs)
mcnet_adjust(p, frame) == [p EXCEPT !.bs = Smallest(frame, @)]

\* The block sizes of the client and the server after CS and CA.
McnetAgreed(c, s) ==
  LET server == mcnet_adjust(s, mcnet_cx_frame(c))
      client == mcnet_adjust(c, mcnet_cx_frame(server))
  IN  <<client.bs, server.bs>>

----------------------------------------------------------------------------
(* Properties.                                                             *)

Times == {[sec |-> s, usec |-> u] :
            s \in {0, 1, 6, 7}, u \in {0, 50, 99, 100, 6399, 6400, 6999, 63999, 64000, 299999,
                                       300000, 639999, 640000, 999999, 1000000, 1000001}}
Options == {[t1 |-> a, t3 |-> b, t4 |-> c, blocksize |-> k] :
            a \in Times, b \in {[sec |-> 0, usec |-> u] : u \in {0, 10000, 64000, 1000001}},
            c \in {[sec |-> 0, usec |-> 250000], [sec |-> 6, usec |-> 300000],
                   [sec |-> 7, usec |-> 0]},
            k \in {0, 1, 15}}

\* What reaches the partner of an asked time, in jiffies: at most a seventh is lost
\* to the units, and a jiffy, but never all of it.  No timer is what 6.3 seconds and
\* more ask for, and also what becomes of less than 100 us.
Reaches(jiffies, usec, hz) ==
  IF usec >= 6300000 \/ usec < 100 THEN jiffies = 0
  ELSE jiffies > 0 /\ Distance(jiffies * Tick(hz), usec) <= (usec \div 7) + Tick(hz)

\* The time that an option asks for, or the default for one that is refused.
Asked(t, default) == IF TooLong(t) THEN default * 1000 ELSE Micros(t)

\* What becomes of the options of one side at the other, through the socket options,
\* the units of CS and CA and the jiffies.
OptionsReach(opts, hz) ==
  LET frame == tp16_fill_cx_frame(tp16_setsockopt(initdefaults(hz), opts))
      peer == tp16_adjust_parameters(initdefaults(hz), frame, hz)
  IN  /\ peer.bs = IF opts.blocksize = 0 THEN 1 ELSE opts.blocksize
      /\ TooLong(opts.t3) \/ Reaches(peer.ta, Asked(opts.t1, T1_DEFAULT), hz)
      /\ Reaches(peer.tdc, Asked(opts.t4, T4_DEFAULT), hz)
      /\ Distance(peer.td * Tick(hz), Asked(opts.t3, T3_DEFAULT))
           <= (Asked(opts.t3, T3_DEFAULT) \div 7) + Tick(hz)

\* Whatever one side asks for, the other side obeys it: the block size, the ACK
\* timeout T1, the transmit delay T3 and the disconnect timeout T4.  Excused: a T3
\* that is refused overwrites T1.
OptionsArrive == \A hz \in HZs, opts \in Options : OptionsReach(opts, hz)

\* A delay in jiffies is never shorter than the time that was asked for, up to the
\* largest number there is.
NeverShort ==
  \A max \in {63, 127}, tick \in {1, 3, 5}, hz \in {1, 4, 7} :
    \A sec \in 0 .. max, usec \in 0 .. tick * hz :
      LET jif == timeval2jiffies([sec |-> sec, usec |-> usec], TRUE, hz, tick, max)
      IN  jif \in 0 .. max /\ (jif = max \/ jif * tick >= sec * hz * tick + usec)

\* The two sides of MCNet use the same block size, and some delay if any is asked for.
BlockSizesAgree ==
  \A hz \in HZs, c \in 0 .. 16, s \in 0 .. 16 :
    LET Of(k) == mcnet_setsockopt([blocksize |-> k, td |-> [sec |-> 0, usec |-> 1]], hz)
        both == Smallest(Of(c).bs, Of(s).bs)
    IN  McnetAgreed(Of(c), Of(s)) = <<both, both>> /\ both > 0 /\ Of(c).td > 0
===============================================================================
