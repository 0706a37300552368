----------------------------- MODULE CanBitTiming -----------------------------
(***************************************************************************)
(* The two set_baud() that look for bit timing register values, of the     *)
(* SJA1000 and of the MSCAN driver, next to sja1000_bitrate() of the PEAK  *)
(* driver.  Divisions are those of C, of numbers that are not negative.    *)
(***************************************************************************)
EXTENDS Integers, SequencesExt

MAX_TSEG1 == 15
MAX_TSEG2 == 7
Refused == [refused |-> TRUE]

Distance(a, b) == IF a < b THEN b - a ELSE a - b

(***************************************************************************)
(* The search: an odd tseg rounds the prescaler up, an even one down.  Of  *)
(* equally good values the last, with the most time quanta, is taken.      *)
(***************************************************************************)
Better(best, tseg, rate, clock) ==
    LET brp == clock \div ((1 + tseg \div 2) * rate) + (tseg % 2)
        error == Distance(rate, clock \div (brp * (1 + tseg \div 2)))
    IN  IF brp \in 1 .. 64 /\ error <= best.error
        THEN [error |-> error, tseg |-> tseg \div 2, brp |-> brp - 1] ELSE best

Search(rate, clock) ==
    FoldLeft(LAMBDA best, tseg : Better(best, tseg, rate, clock),
             [error |-> 1000000000, tseg |-> 0, brp |-> 0],
             [i \in 1 .. (MAX_TSEG1 + MAX_TSEG2 + 2) * 2 - 2 |-> i + 3])

TooFar(best, rate) == best.error # 0 /\ rate \div best.error < 10

\* The quanta before and after the sample point, which is at so many percent.
SplitNoClamp(tseg, percent) ==                  \* a mutant: does not give back what was cut
    LET tseg2 == tseg - (percent * (tseg + 1)) \div 100
        upto == IF tseg2 > MAX_TSEG2 THEN MAX_TSEG2 ELSE tseg2
        tseg1 == tseg - upto - 2
    IN  [tseg1 |-> IF tseg1 > MAX_TSEG1 THEN MAX_TSEG1 ELSE tseg1, tseg2 |-> upto]
Split(tseg, percent) ==
    LET wanted == tseg - (percent * (tseg + 1)) \div 100
        tseg2 == IF wanted < 0 THEN 0 ELSE IF wanted > MAX_TSEG2 THEN MAX_TSEG2 ELSE wanted
        tseg1 == tseg - tseg2 - 2
    IN  IF tseg1 > MAX_TSEG1 THEN [tseg1 |-> MAX_TSEG1, tseg2 |-> tseg - MAX_TSEG1 - 2]
        ELSE [tseg1 |-> tseg1, tseg2 |-> tseg2]

Timing(rate, clock, percent) ==
    LET best == Search(rate, clock)
    IN  IF TooFar(best, rate) THEN Refused
        ELSE [refused |-> FALSE, brp |-> best.brp, split |-> Split(best.tseg, percent)]

sja1000_set_baud(rate, clock) == Timing(rate, clock \div 2, 75)
mscan_set_baud(rate, clock) ==
    Timing(rate, clock, IF rate > 750000 \/ rate < 11250 THEN 75 ELSE 90)

\* The rate of the bus with these register values.
Rate(t, clock) == clock \div ((t.brp + 1) * (3 + t.split.tseg1 + t.split.tseg2))

InRegisters(t) == t.brp \in 0 .. 63 /\ t.split.tseg1 \in 0 .. MAX_TSEG1 /\ t.split.tseg2 \in 0 .. MAX_TSEG2
Close(t, rate, clock) ==
    t.refused \/ (InRegisters(t) /\ Distance(rate, Rate(t, clock)) * 10 <= rate)

peak == INSTANCE PcanCodec

\* When the registers are set at all, every field is in its range and the bus runs
\* within 10 percent of the rate that was asked for: what was cut from one segment
\* is added to the other.
Rates == {i * 5000 : i \in 1 .. 220}
Sja1000Close ==
    \A rate \in Rates :
        /\ \A clock \in {16000000, 20000000, 24000000} :
              Close(sja1000_set_baud(rate, clock), rate, clock \div 2)
        /\ LET w == peak!sja1000_bitrate(rate)
           IN  w # 0 => Distance(rate, peak!ChipRate(w)) * 10 <= rate
MscanClose ==
    \A rate \in Rates, clock \in {66000000, 132000000} :
        Close(mscan_set_baud(rate, clock), rate, clock)
===============================================================================
