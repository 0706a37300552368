------------------------------- MODULE PcanCodec -------------------------------
(***************************************************************************)
(* The conversions of the PEAK driver: between socket frames and the       *)
(* messages of the character device (pcan_main.c), between both and the    *)
(* registers of an SJA1000 (pcan_sja1000.c) or the telegrams of the        *)
(* PCAN-USB (pcan_usb_kernel.c), from text lines (pcan_parse.c), and from a*)
(* bit rate to the timing registers.                                       *)
(*                                                                         *)
(* A frame is [id, flags, data] with flags from EFF, RTR and ERR; a message*)
(* is [ID, MSGTYPE, DATA] with types from EXTENDED, RTR and STATUS.  The   *)
(* eight data bytes and their count travel together and are one value; in  *)
(* an error frame and a status message they are the set of errors told.    *)
(***************************************************************************)
EXTENDS Integers, Sequences, FiniteSets

STD_IDS == 2048                      \* identifiers of 11 bits
EXT_IDS == 536870912                 \* identifiers of 29 bits

When(cond, flag) == IF cond THEN {flag} ELSE {}

frame2msg(cf) ==
    IF "ERR" \in cf.flags
    THEN [ID |-> 0, MSGTYPE |-> {"STATUS"}, DATA |-> cf.data]
    ELSE [ID |-> cf.id % EXT_IDS,
          MSGTYPE |-> When("RTR" \in cf.flags, "RTR")
                          \cup When("EFF" \in cf.flags, "EXTENDED"),
          DATA |-> cf.data]

msg2frame(msg) ==
    [id |-> msg.ID,
     flags |-> When("RTR" \in msg.MSGTYPE, "RTR")
                   \cup When("EXTENDED" \in msg.MSGTYPE, "EFF"),
     data |-> msg.DATA]

\* The identifier shifted to the top of its register, most significant first.
IdBytes(id, eff) ==
    IF eff
    THEN <<(id \div 2097152) % 256, (id \div 8192) % 256, (id \div 32) % 256,
           (id % 32) * 8>>
    ELSE <<(id \div 8) % 256, (id % 8) * 32>>

\* ... and back: what is read from the registers, shifted down again.
BytesId(b) ==
    IF Len(b) = 4
    THEN b[1] * 2097152 + b[2] * 8192 + b[3] * 32 + b[4] \div 8
    ELSE b[1] * 8 + b[2] \div 32

\* Both controllers number the bytes of a word from the other end.
Swapped(b) == [i \in 1 .. Len(b) |-> b[Len(b) + 1 - i]]

sja1000_write_frame(cf) ==
    [eff |-> "EFF" \in cf.flags, rtr |-> "RTR" \in cf.flags,
     bytes |-> IdBytes(cf.id, "EFF" \in cf.flags), data |-> cf.data]

sja1000_read_frame(regs) ==
    [id |-> BytesId(regs.bytes),
     flags |-> When(regs.eff, "EFF") \cup When(regs.rtr, "RTR"),
     data |-> regs.data]

pcan_hw_EncodeMessage(msg) ==
    [eff |-> "EXTENDED" \in msg.MSGTYPE, rtr |-> "RTR" \in msg.MSGTYPE,
     bytes |-> Swapped(IdBytes(msg.ID, "EXTENDED" \in msg.MSGTYPE)),
     data |-> msg.DATA]

(***************************************************************************)
(* pcan_hw_DecodeMessage() marks an extended frame with MSGTYPE_EXTENDED,  *)
(* a bit of a message's type that is bit 1 of a frame's identifier,        *)
(* instead of CAN_EFF_FLAG.                                                *)
(***************************************************************************)
WithBit1(id) == IF (id \div 2) % 2 = 1 THEN id ELSE id + 2

pcan_hw_DecodeMessage(rec) ==
    LET id == BytesId(Swapped(rec.bytes))
    IN  [id |-> IF rec.eff THEN WithBit1(id) ELSE id,
         flags |-> When(rec.rtr, "RTR"), data |-> rec.data]

(***************************************************************************)
(* What stands on the bus for a message: the controller (external) sends   *)
(* the identifier of the length that the format bit asks for.              *)
(***************************************************************************)
Representable(msg) ==
    msg.ID < (IF "EXTENDED" \in msg.MSGTYPE THEN EXT_IDS ELSE STD_IDS)

(***************************************************************************)
(* A line of text: what the two parsers make of it.  A number that is out  *)
(* of range ends the parser of messages by the same way as a syntax error, *)
(* but err still holds the success of the scan: the line is accepted with  *)
(* the identifier as given, and what was not yet parsed is whatever the    *)
(* stack holds.  Garbage is the data that an observer cannot foretell.     *)
(***************************************************************************)
pcan_parse_input_idle(line) == line.kind = "comment"
pcan_parse_input_message(line) == line.kind = "message"
pcan_parse_input_init(line) == line.kind = "init"
InRange(line) ==
    line.msg.ID < (IF "EXTENDED" \in line.msg.MSGTYPE
                   THEN 2 * EXT_IDS ELSE STD_IDS)
Parsed(line, Garbage) ==
    IF InRange(line) THEN {line.msg} ELSE {[line.msg EXCEPT !.DATA = g] : g \in Garbage}

-----------------------------------------------------------------------------
(* Bit rates.                                                               *)

CLOCK == 8000000
MAX_TSEG1 == 15
MAX_TSEG2 == 7

Abs(n) == IF n < 0 THEN -n ELSE n

\* The prescaler for `half' half steps of time quanta, and the rate it gives.
Prescaler(rate, half) == CLOCK \div ((1 + half \div 2) * rate) + (half % 2)
RateOf(brp, tseg) == CLOCK \div (brp * (1 + tseg))

sja1000_baud_rate(rate) ==
    LET halves == {h \in 4 .. (MAX_TSEG2 + MAX_TSEG1 + 2) * 2 + 1 :
                       Prescaler(rate, h) \in 1 .. 64}
        error(h) == Abs(rate - RateOf(Prescaler(rate, h), h \div 2))
        best == CHOOSE h \in halves :               \* the last of the closest
                    \A k \in halves : error(h) < error(k) \/ (error(h) = error(k) /\ k <= h)
        sample == IF rate > 750000 \/ rate < 11250 THEN 75 ELSE 90
        tseg == best \div 2
        wanted == tseg - (sample * (tseg + 1)) \div 100
        capped == IF wanted < 0 THEN 0 ELSE IF wanted > MAX_TSEG2 THEN MAX_TSEG2 ELSE wanted
        over == tseg - capped - 2 > MAX_TSEG1
    IN  IF halves = {} \/ (error(best) # 0 /\ rate \div error(best) < 10)
        THEN [brp |-> 0, tseg1 |-> 0, tseg2 |-> 0, sjw |-> 0]
        ELSE [brp |-> Prescaler(rate, best) - 1,
              tseg1 |-> IF over THEN MAX_TSEG1 ELSE tseg - capped - 2,
              tseg2 |-> IF over THEN tseg - MAX_TSEG1 - 2 ELSE capped,
              sjw |-> IF rate < 112500 THEN 1 ELSE 0]

\* The register pair as one number, and the fields of such a number.
Timing(t) == (t.sjw * 64 + t.brp) * 256 + t.tseg2 * 16 + t.tseg1
FieldsOf(w) == [sjw |-> w \div 16384, brp |-> (w \div 256) % 64,
                tseg2 |-> (w \div 16) % 8, tseg1 |-> w % 16]

sja1000_bitrate(rate) ==
    CASE rate = 1000000 -> 20                                   \* 0x0014
      [] rate =  500000 -> 28                                   \* 0x001C
      [] rate =  250000 -> 284                                  \* 0x011C
      [] rate =  125000 -> 796                                  \* 0x031C
      [] rate =  100000 -> 17199                                \* 0x432F
      [] rate =   50000 -> 18223                                \* 0x472F
      [] rate =   20000 -> 21295                                \* 0x532F
      [] rate =   10000 -> 26415                                \* 0x672F
      [] rate =    5000 -> 32639                                \* 0x7F7F
      [] rate =       0 -> 0
      [] OTHER -> Timing(sja1000_baud_rate(rate))

(***************************************************************************)
(* What the chip makes of the registers (external): a bit is one quantum   *)
(* for synchronisation and the two segments, a quantum brp + 1 clocks.     *)
(***************************************************************************)
ChipRate(w) ==
    LET t == FieldsOf(w) IN CLOCK \div ((t.brp + 1) * (3 + t.tseg1 + t.tseg2))
===============================================================================
