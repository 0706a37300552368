------------------------------- MODULE PcanChar -------------------------------
(***************************************************************************)
(* The character device of the PEAK driver: processes that read, write and *)
(* reinitialise (pcan_fops.c), the two FIFOs, and below them an SJA1000    *)
(* with its interrupt handler (pcan_sja1000.c) or a PCAN-USB with the      *)
(* completion handlers of its URBs (pcan_usb.c).                           *)
(*                                                                         *)
(* The kernel of the time runs one process until it sleeps or returns;     *)
(* handlers come in between any two steps of it.  A step of a process is   *)
(* what it does between two places where a handler makes a difference.     *)
(* A pass of an interrupt handler, or one completion, is one action: an    *)
(* entry that makes several passes is as many actions, but for the error   *)
(* frames of its passes, which are one frame then.                         *)
(***************************************************************************)
EXTENDS PcanCodec, PcanFifo, SequencesExt

CONSTANTS Readers, Writers,   \* processes that have the device open, by what they do
          Nonblock,     \* those with O_NONBLOCK
          Messages,     \* what they write by ioctl(): records with ID and MSGTYPE
          Lines,        \* what they write as text: records with kind and msg
          Frames,       \* what other nodes send: records with id and flags
          Hardware,     \* "sja", "usb6" and "usb7" (one or two blocks to a telegram)
          WCount, RCount,       \* cells of writeFifo and readFifo
          Block,        \* frames that fit into a block of 64 bytes
          MaxPerIrq,    \* MAX_MESSAGES_PER_INTERRUPT
          RxDepth,      \* frames that the controller holds
          Troubles,     \* what may happen, once each: see below
          MaxEvents     \* bound on writes, frames received and troubles together

ASSUME PcanAssumption ==
    /\ WCount \in Nat /\ WCount > 1 /\ RCount \in Nat
    /\ Block \in 1 .. RCount - 1         \* a block has a dozen records, readFifo 500 cells
    /\ MaxPerIrq \in Nat /\ RxDepth \in Nat
    /\ "none" \notin Readers \cup Writers
    /\ Hardware \subseteq {"sja", "usb6", "usb7"}
    /\ Messages \subseteq [ID : Nat, MSGTYPE : SUBSET {"EXTENDED", "RTR"}]
    /\ Lines \subseteq [kind : {"message", "comment", "error", "init"},
                        msg : [ID : Nat, MSGTYPE : SUBSET {"EXTENDED", "RTR"}]]
    /\ Frames \subseteq [id : Nat, flags : SUBSET {"EFF", "RTR"}]
    /\ \A f \in Frames : f.id < (IF "EFF" \in f.flags THEN EXT_IDS ELSE STD_IDS)

VARIABLES
    hw,                 \* the hardware; it does not change
    wf, rf,             \* dev->writeFifo, dev->readFifo
    DataSendReady, bExtended, ucPhysicallyInstalled, wCANStatus,
    on,                 \* the controller takes part in the bus
    urb,                \* the URB for reading is submitted
    tx, rx, ints,       \* what the controller is to send, has received, asserts
    pc, call, text, rest,      \* per process: place, arguments, write and read buffer
    running,            \* the process that may not be preempted, or NoProc
    accepted, bus, got, read, told,  \* histories: put, sent, received, handed to a user
    trouble,            \* what has happened that excuses a loss
    count               \* of calls and frames, for the bounds

queues == <<wf, rf, DataSendReady>>
device == <<hw, bExtended, ucPhysicallyInstalled, wCANStatus, on, urb>>
chip == <<tx, rx, ints>>
procs == <<pc, call, text, rest, running>>
history == <<accepted, bus, got, read, told, trouble, count>>
vars == <<queues, device, chip, procs, history>>

Procs == Readers \cup Writers
NoProc == "none"
Usb == hw \in {"usb6", "usb7"}
Empty == [ID |-> 0, MSGTYPE |-> {}, DATA |-> 0, pos |-> 0]
Garbage == 0            \* data that nobody has set
NoCall == [msg |-> Empty, text |-> FALSE]

Init ==
    /\ hw \in Hardware
    /\ wf = pcan_fifo_init(WCount, Empty) /\ rf = pcan_fifo_init(RCount, Empty)
    /\ DataSendReady = TRUE /\ bExtended \in BOOLEAN /\ ucPhysicallyInstalled = TRUE
    /\ wCANStatus = {} /\ on = TRUE /\ urb = Usb
    /\ tx = <<>> /\ rx = <<>> /\ ints = {}
    /\ pc = [p \in Procs |-> "idle"] /\ call = [p \in Procs |-> NoCall]
    /\ text = [p \in Procs |-> <<>>] /\ rest = [p \in Procs |-> FALSE]
    /\ running = NoProc
    /\ accepted = <<>> /\ bus = <<>> /\ got = <<>> /\ read = <<>> /\ told = {}
    /\ trouble = {}
    /\ count = [writes |-> 0, rx |-> 0]

May(p, place) == pc[p] = place /\ running \in {NoProc, p}
Bounded == count.writes + count.rx + Cardinality(trouble \cap Troubles) < MaxEvents
Counted(what) == Bounded /\ count' = [count EXCEPT ![what] = @ + 1]
Once(what) ==
    /\ what \in Troubles \ trouble /\ Bounded
    /\ trouble' = trouble \cup {what}

\* wake_up_interruptible(): the sleepers of a queue look at their condition again.
WokenNever(places, from, to) == places                               \* a mutant
Woken(places, from, to) == [p \in Procs |-> IF places[p] = from THEN to ELSE places[p]]

-----------------------------------------------------------------------------
(* Reading: pcan_ioctl_read() and pcan_read().                              *)

CallRead(p) ==
    /\ May(p, "idle") /\ ucPhysicallyInstalled /\ ~rest[p]
    /\ pc' = [pc EXCEPT ![p] = "read"]
    /\ UNCHANGED <<queues, device, chip, call, text, rest, running, history>>

\* wait_event_interruptible() on read_queue, or -EAGAIN.
SleepForData(p) ==
    /\ May(p, "read") /\ ~pcan_fifo_empty(rf)
    /\ pc' = [pc EXCEPT ![p] = IF p \in Nonblock THEN "idle" ELSE "asleep_read"]
    /\ UNCHANGED <<queues, device, chip, call, text, rest, running, history>>

(***************************************************************************)
(* A message goes to the user as a whole (ioctl, or a buffer with room for *)
(* the line) or the file keeps the rest of the line for the next call.     *)
(***************************************************************************)
Get(p) ==
    /\ May(p, "read") /\ pcan_fifo_empty(rf)
    /\ pc' = [pc EXCEPT ![p] = "idle"]
    /\ IF ~ucPhysicallyInstalled
       THEN UNCHANGED <<rf, rest, read>>                            \* -ENODEV
       ELSE /\ rf' = pcan_fifo_get(rf)
            /\ read' = Append(read, FirstOf(rf))
            /\ \E part \in BOOLEAN : rest' = [rest EXCEPT ![p] = part]
    /\ UNCHANGED <<wf, DataSendReady, device, chip, call, text, running,
                   accepted, bus, got, told, trouble, count>>

ReadRest(p) ==
    /\ May(p, "idle") /\ ucPhysicallyInstalled /\ rest[p]
    /\ rest' = [rest EXCEPT ![p] = FALSE]
    /\ UNCHANGED <<queues, device, chip, pc, call, text, running, history>>

-----------------------------------------------------------------------------
(* Writing: pcan_ioctl_write() and pcan_write().                            *)

\* The number of the call serves as the data of the message.
Numbered(m) == [ID |-> m.ID, MSGTYPE |-> m.MSGTYPE, DATA |-> count.writes + 1, pos |-> 0]

CallWrite(p, m) ==
    /\ May(p, "idle") /\ ucPhysicallyInstalled
    /\ Counted("writes")
    /\ call' = [call EXCEPT ![p] = [msg |-> Numbered(m), text |-> FALSE]]
    /\ pc' = [pc EXCEPT ![p] = "write"]
    /\ UNCHANGED <<queues, device, chip, text, rest, running,
                   accepted, bus, got, read, told, trouble>>

CallWriteText(p, l) ==
    /\ May(p, "idle") /\ ucPhysicallyInstalled
    /\ Counted("writes")
    /\ text' = [text EXCEPT ![p] = Append(@, [l EXCEPT !.msg = Numbered(@)])]
    /\ pc' = [pc EXCEPT ![p] = "parse"]
    /\ UNCHANGED <<queues, device, chip, call, rest, running,
                   accepted, bus, got, read, told, trouble>>

(***************************************************************************)
(* The loop over the lines of the write buffer.  A line leaves the buffer  *)
(* when it is done; with every error it stays and is the first line that   *)
(* the next write() of this file parses.                                   *)
(***************************************************************************)
Parse(p) ==
    /\ May(p, "parse")
    /\ \/ /\ text[p] = <<>>
          /\ pc' = [pc EXCEPT ![p] = "idle"] /\ UNCHANGED <<call, text>>
       \/ /\ text[p] # <<>> /\ pcan_parse_input_idle(Head(text[p]))
          /\ text' = [text EXCEPT ![p] = Tail(@)] /\ UNCHANGED <<pc, call>>
       \/ /\ text[p] # <<>> /\ pcan_parse_input_message(Head(text[p]))
          /\ \E m \in Parsed(Head(text[p]), {Garbage}) :
                call' = [call EXCEPT ![p] = [msg |-> m, text |-> TRUE]]
          /\ pc' = [pc EXCEPT ![p] = "write"] /\ UNCHANGED text
       \/ /\ text[p] # <<>> /\ Head(text[p]).kind = "error"
          /\ pc' = [pc EXCEPT ![p] = "idle"] /\ UNCHANGED <<call, text>>
    /\ UNCHANGED <<queues, device, chip, rest, running, history>>

MayPut == pcan_fifo_near_full(wf) \/ DataSendReady

SleepForRoom(p) ==
    /\ May(p, "write") /\ ~MayPut
    /\ pc' = [pc EXCEPT ![p] = IF p \in Nonblock THEN "idle" ELSE "asleep_write"]
    /\ UNCHANGED <<queues, device, chip, call, text, rest, running, history>>

\* pcan_fops.c:589 and 1474: only a device for extended frames takes these.
Permitted(m) == bExtended \/ ("EXTENDED" \notin m.MSGTYPE /\ m.ID < STD_IDS)

Put(p) ==
    LET m == [call[p].msg EXCEPT !.pos = Len(accepted) + 1]
    IN  /\ May(p, "write") /\ MayPut
        /\ IF ucPhysicallyInstalled /\ Permitted(m) /\ ~Refuses(wf)
           THEN /\ wf' = pcan_fifo_put(wf, m)
                /\ accepted' = Append(accepted, m)
                /\ pc' = [pc EXCEPT ![p] = "pull"] /\ running' = p
           ELSE /\ pc' = [pc EXCEPT ![p] = "idle"]      \* -ENODEV, -EINVAL, -ENOSPC
                /\ UNCHANGED <<wf, accepted, running>>
        /\ UNCHANGED <<rf, DataSendReady, device, chip, call, text, rest,
                       bus, got, read, told, trouble, count>>

\* The call is over: on success a line leaves the buffer and the loop goes on.
FinishAnyLine(p, ok) ==                                              \* a mutant
    /\ running' = NoProc /\ call' = [call EXCEPT ![p] = NoCall]
    /\ pc' = [pc EXCEPT ![p] = IF ok /\ call[p].text THEN "parse" ELSE "idle"]
    /\ UNCHANGED text
Finish(p, ok) ==
    /\ running' = NoProc /\ call' = [call EXCEPT ![p] = NoCall]
    /\ text' = IF ok /\ call[p].text THEN [text EXCEPT ![p] = Tail(@)] ELSE text
    /\ pc' = [pc EXCEPT ![p] = IF ok /\ call[p].text THEN "parse" ELSE "idle"]

\* "pull new transmission": DataSendReady is read and cleared in two steps.
Claim(p) ==
    /\ May(p, "pull")
    /\ IF DataSendReady
       THEN /\ DataSendReady' = FALSE /\ pc' = [pc EXCEPT ![p] = "start"]
            /\ UNCHANGED <<text, running, call>>
       ELSE Finish(p, TRUE) /\ UNCHANGED DataSendReady
    /\ UNCHANGED <<wf, rf, device, chip, rest, history>>

-----------------------------------------------------------------------------
(* Handing frames to the controller.                                        *)

(***************************************************************************)
(* sja1000_write(): the oldest message goes to the transmit buffer.  While *)
(* the chip still sends, the buffer is locked and what is written to it is *)
(* lost (external: SJA1000).                                               *)
(***************************************************************************)
sja1000_write ==
    /\ pcan_fifo_empty(wf)
    /\ wf' = pcan_fifo_get(wf)
    /\ IF tx = <<>>
       THEN /\ tx' = <<[regs |-> sja1000_write_frame(msg2frame(FirstOf(wf))),
                        pos |-> FirstOf(wf).pos]>>
            /\ UNCHANGED trouble
       ELSE trouble' = trouble \cup {"overwritten"} /\ UNCHANGED tx

\* pcan_usb_write(): blocks are filled until the FIFO is empty.
Encoded ==
    LET room == IF hw = "usb7" THEN 2 * Block ELSE Block
    IN  IF wf.nStored < room THEN wf.nStored ELSE room

pcan_usb_encode ==
    /\ ucPhysicallyInstalled /\ Encoded > 0
    /\ wf' = GetMany(wf, Encoded)

pcan_usb_submitted ==
    /\ pcan_usb_encode /\ tx = <<>>
    /\ tx' = [i \in 1 .. Encoded |-> [regs |-> pcan_hw_EncodeMessage(Contents(wf)[i]),
                                 pos |-> Contents(wf)[i].pos]]
    /\ UNCHANGED trouble

\* The URB is refused: always when it is still on its way, else at times.  What was
\* encoded is lost; what did not fit is left in the FIFO.
pcan_usb_refused ==
    /\ pcan_usb_encode
    /\ tx # <<>> \/ ("submit" \in Troubles \ trouble /\ Bounded)
    /\ trouble' = trouble \cup {"submit"} \cup When(Encoded < wf.nStored, "left")
    /\ UNCHANGED tx

StartWrite(p) ==
    /\ May(p, "start")
    /\ \/ /\ IF Usb THEN pcan_usb_submitted ELSE sja1000_write
          /\ Finish(p, TRUE) /\ UNCHANGED DataSendReady
       \/ /\ Usb /\ pcan_usb_refused
          /\ Finish(p, FALSE) /\ DataSendReady' = TRUE
       \/ /\ ~pcan_fifo_empty(wf) \/ (Usb /\ ~ucPhysicallyInstalled)  \* -ENODATA, -ENODEV
          /\ Finish(p, FALSE) /\ DataSendReady' = TRUE
          /\ trouble' = trouble \cup When(~pcan_fifo_empty(wf), "nodata")
          /\ UNCHANGED <<wf, tx>>
    /\ UNCHANGED <<rf, device, rx, ints, rest, accepted, bus, got, read, told, count>>
-----------------------------------------------------------------------------
(* The controllers (external), and the handlers they call.                  *)

\* What a node of the bus reads when the controller sends `t'.
OnBus(t) ==
    [id |-> BytesId(IF Usb THEN Swapped(t.regs.bytes) ELSE t.regs.bytes),
     eff |-> t.regs.eff, rtr |-> t.regs.rtr, data |-> t.regs.data, pos |-> t.pos]

\* The frames under way are on the bus; the chip, or the host controller, says so.
Transmitted ==
    /\ tx # <<>> /\ on
    /\ bus' = bus \o [i \in 1 .. Len(tx) |-> OnBus(tx[i])]
    /\ tx' = <<>> /\ ints' = ints \cup {"TI"}
    /\ UNCHANGED <<queues, device, procs, rx, accepted, got, read, told, trouble, count>>

\* Another node sends.  A full controller drops the frame and reports an overrun.
Received(f) ==
    /\ on /\ Counted("rx")
    /\ LET frame == [id |-> f.id, flags |-> f.flags, data |-> count.rx + 1]
           regs == IF Usb
                   THEN pcan_hw_EncodeMessage(frame2msg(frame))
                   ELSE sja1000_write_frame(frame)
       IN  /\ got' = Append(got, frame)
           /\ IF Len(rx) < RxDepth
              THEN rx' = Append(rx, regs) /\ UNCHANGED ints
              ELSE ints' = ints \cup {"DOI"} /\ UNCHANGED rx
    /\ UNCHANGED <<queues, device, procs, tx, accepted, bus, read, told, trouble>>

BusTrouble ==
    /\ on
    /\ \E e \in {"BEI", "EPI"} : Once(e) /\ ints' = ints \cup {e}
    /\ UNCHANGED <<queues, device, procs, tx, rx, accepted, bus, got, read, told, count>>

\* pcan_chardev_rx(): frames of a kind the device is not open for are dropped.
pcan_chardev_rx(f, cf) ==
    IF bExtended \/ "EFF" \notin cf.flags THEN pcan_fifo_put(f, frame2msg(cf)) ELSE f
Refused(f, cf) == Refuses(f) /\ (bExtended \/ "EFF" \notin cf.flags)

\* The FIFO after none, one, two ... of the frames.
After(f, cfs) ==
    LET after[i \in 0 .. Len(cfs)] ==
            IF i = 0 THEN f ELSE pcan_chardev_rx(after[i - 1], cfs[i])
    IN  after

ErrorFrame(errs) == [id |-> 0, flags |-> {"ERR"}, data |-> errs]
ErrorsOf(signs) == When("DOI" \in signs, "OVERRUN") \cup When("EPI" \in signs, "BUSHEAVY")
                   \cup When("BEI" \in signs, "BUSOFF")

(***************************************************************************)
(* sja1000_read_frames(): the loop takes one frame more than its limit     *)
(* says.  Frames that the FIFO refuses are lost, and for the error that is *)
(* left behind the handler releases the buffer once more (line 616), which *)
(* throws away a frame that nobody has looked at, if there is one.         *)
(***************************************************************************)
Taken == IF Len(rx) < MaxPerIrq + 1 THEN Len(rx) ELSE MaxPerIrq + 1
Filled == After(rf, [i \in 1 .. Taken |-> sja1000_read_frame(rx[i])])
AnyRefused == \E i \in 1 .. Taken : Refused(Filled[i - 1], sja1000_read_frame(rx[i]))
LeftOneLess == SubSeq(rx, Taken + 2, Len(rx))                        \* a mutant
Left == SubSeq(rx, Taken + (IF AnyRefused THEN 2 ELSE 1), Len(rx))

\* A frame is sent and sja1000_write() says -ENODATA.
DrainedEarly == "TI" \in ints /\ wf.nStored <= 1                     \* a mutant
Drained == "TI" \in ints /\ ~pcan_fifo_empty(wf)

\* sja1000_base_irqhandler(), one pass.
SjaIrq ==
    LET receives == rx # <<>>
        broken == ints \cap {"BEI", "EPI"} # {}
        signs == ErrorsOf(ints)
        filled == IF receives THEN Filled[Taken] ELSE rf
    IN  /\ ~Usb /\ on
        /\ ints # {} \/ receives
        /\ IF "TI" \in ints /\ ~Drained
           THEN sja1000_write
           ELSE UNCHANGED <<wf, tx, trouble>>
        /\ rf' = IF signs = {} THEN filled ELSE pcan_chardev_rx(filled, ErrorFrame(signs))
        /\ rx' = IF receives THEN Left ELSE rx
        /\ wCANStatus' = wCANStatus \cup signs
                             \cup When(receives /\ AnyRefused, "QOVERRUN")
        /\ ints' = {}
        /\ DataSendReady' = (DataSendReady \/ Drained \/ broken)
        /\ pc' = LET w == IF Drained \/ broken
                          THEN Woken(pc, "asleep_write", "write") ELSE pc
                 IN  IF receives \/ broken \/ "DOI" \in ints
                     THEN Woken(w, "asleep_read", "read") ELSE w
        /\ UNCHANGED <<hw, bExtended, ucPhysicallyInstalled, on, urb, call, text, rest,
                       running, accepted, bus, got, read, told, count>>

(***************************************************************************)
(* pcan_usb_write_notify(): the next telegram, if the last one was sent.   *)
(* Only the end of the data makes the device ready again; an error leaves  *)
(* it busy with nothing under way.                                         *)
(***************************************************************************)
UsbWriteNotify ==
    /\ Usb /\ "TI" \in ints
    /\ ints' = ints \ {"TI"}
    /\ \/ /\ pcan_usb_submitted
          /\ UNCHANGED <<DataSendReady, wCANStatus, pc>>
       \/ /\ pcan_usb_refused
          /\ wCANStatus' = wCANStatus \cup {"QXMTFULL"}
          /\ UNCHANGED <<DataSendReady, pc>>
       \/ /\ ucPhysicallyInstalled /\ ~pcan_fifo_empty(wf)        \* -ENODATA
          /\ DataSendReady' = TRUE
          /\ pc' = Woken(pc, "asleep_write", "write")
          /\ UNCHANGED <<wf, tx, trouble, wCANStatus>>
       \/ /\ ~ucPhysicallyInstalled                                \* -ENODEV
          /\ wCANStatus' = wCANStatus \cup {"QXMTFULL"}
          /\ UNCHANGED <<wf, tx, trouble, DataSendReady, pc>>
    /\ UNCHANGED <<rf, hw, bExtended, ucPhysicallyInstalled, on, urb, rx, call, text, rest,
                   running, accepted, bus, got, read, told, count>>

\* The URB for writing comes back with an error: the handler does nothing.
UsbWriteFailed ==
    /\ Usb /\ tx # <<>> /\ Once("urb")
    /\ tx' = <<>>
    /\ UNCHANGED <<queues, device, procs, rx, ints, accepted, bus, got, read, told, count>>

(***************************************************************************)
(* pcan_hw_DecodeMessage() of one block: a record that cannot be stored    *)
(* ends it, and then nobody is woken.  The status record comes last here.  *)
(***************************************************************************)
BlockOf(f, recs, errs) ==
    LET cfs == [i \in 1 .. Len(recs) |-> pcan_hw_DecodeMessage(recs[i])]
               \o (IF errs = {} THEN <<>> ELSE <<ErrorFrame(errs)>>)
        at == After(f, cfs)
        failed == \E i \in 1 .. Len(cfs) : Refused(at[i - 1], cfs[i])
    IN  [rf |-> at[Len(cfs)], failed |-> failed, wakes |-> cfs # <<>> /\ ~failed,
         told |-> IF \E i \in 1 .. Len(recs) : Refused(at[i - 1], cfs[i]) THEN {} ELSE errs]

\* pcan_usb_read_notify(): up to two blocks; the URB is submitted again first.
UsbReadNotify(n, k, resubmitted) ==
    LET signs == ErrorsOf(ints)
        one == BlockOf(rf, SubSeq(rx, 1, n), IF k = 0 THEN signs ELSE {})
        two == BlockOf(one.rf, SubSeq(rx, n + 1, n + k), IF k = 0 THEN {} ELSE signs)
    IN  /\ Usb /\ urb /\ ucPhysicallyInstalled
        /\ n + k <= Len(rx) /\ (n > 0 \/ (k = 0 /\ signs # {}))
        /\ urb' = resubmitted
        /\ IF resubmitted THEN UNCHANGED trouble ELSE Once("readurb")
        /\ rf' = two.rf
        /\ rx' = SubSeq(rx, n + k + 1, Len(rx)) /\ ints' = ints \cap {"TI"}
        /\ wCANStatus' = wCANStatus \cup one.told \cup two.told
                             \cup When(one.failed \/ two.failed, "QOVERRUN")
        /\ pc' = IF one.wakes \/ two.wakes THEN Woken(pc, "asleep_read", "read") ELSE pc
        /\ UNCHANGED <<wf, DataSendReady, hw, bExtended, ucPhysicallyInstalled, on, tx,
                       call, text, rest, running, accepted, bus, got, read, told, count>>
-----------------------------------------------------------------------------
(* Initialisation, status, and the end of the hardware.                     *)

NewMode(p) == "EXTENDED" \in call[p].msg.MSGTYPE

\* pcan_ioctl_init(): both FIFOs are emptied before anything else happens.
CallInit(p, extended) ==
    /\ May(p, "idle") /\ ucPhysicallyInstalled /\ Once("reset")
    /\ call' = [call EXCEPT ![p] =
                   [NoCall EXCEPT !.msg.MSGTYPE = When(extended, "EXTENDED")]]
    /\ wf' = pcan_fifo_reset(wf) /\ rf' = pcan_fifo_reset(rf)
    /\ pc' = [pc EXCEPT ![p] = "wait_until_fifo_empty"]
    /\ UNCHANGED <<DataSendReady, device, chip, text, rest, running,
                   accepted, bus, got, read, told, count>>

\* wait_until_fifo_empty(): schedule() until ready, or until a second is over.
WaitOver(p) ==
    /\ May(p, "wait_until_fifo_empty")
    /\ IF DataSendReady THEN UNCHANGED trouble ELSE Once("timeout")
    /\ DataSendReady' = TRUE
    /\ pc' = [pc EXCEPT ![p] = "reopen"]
    /\ running' = NoProc                  \* both kinds of device_release() schedule()
    /\ UNCHANGED <<wf, rf, device, chip, call, text, rest,
                   accepted, bus, got, read, told, count>>

\* What the controller held is gone, whether it starts again or not.
ChipReset == tx' = <<>> /\ rx' = <<>> /\ ints' = {}

\* device_open(): sja1000_open(), or pcan_usb_device_open() with a free URB.
DeviceOpened(extended) ==
    /\ on' = TRUE /\ urb' = Usb /\ bExtended' = extended /\ wCANStatus' = {}

(***************************************************************************)
(* device_release() and device_open().  A frame under way is aborted, and  *)
(* a pending transmit interrupt of the SJA1000 is lost: when another       *)
(* process has started it while device_release() slept, nobody will set    *)
(* DataSendReady again.                                                    *)
(***************************************************************************)
Reopen(p) ==
    /\ May(p, "reopen") /\ (Usb => "TI" \notin ints)
    /\ ChipReset
    /\ \/ /\ ucPhysicallyInstalled
          /\ DeviceOpened(NewMode(p))
          /\ trouble' = trouble \cup When(tx # <<>> \/ "TI" \in ints, "killed")
       \/ /\ IF ucPhysicallyInstalled THEN Once("open") ELSE UNCHANGED trouble
          /\ on' = FALSE /\ urb' = FALSE /\ UNCHANGED wCANStatus
          /\ bExtended' \in {bExtended, NewMode(p)}
    /\ pc' = [pc EXCEPT ![p] = "idle"] /\ running' = NoProc
    /\ call' = [call EXCEPT ![p] = NoCall]
    /\ UNCHANGED <<queues, hw, ucPhysicallyInstalled, text, rest,
                   accepted, bus, got, read, told, count>>

(***************************************************************************)
(* The line `i' of pcan_write(): device_open() without device_release(),   *)
(* then the FIFOs; DataSendReady stays as it is.  The USB device turns CAN *)
(* off and then fails to submit an URB that is submitted already.          *)
(***************************************************************************)
InitLine(p) ==
    /\ May(p, "parse") /\ text[p] # <<>> /\ pcan_parse_input_init(Head(text[p]))
    /\ trouble' = trouble \cup {"reinit"}
    /\ IF Usb /\ (urb \/ ~ucPhysicallyInstalled)
       THEN /\ on' = FALSE /\ pc' = [pc EXCEPT ![p] = "idle"]
            /\ UNCHANGED <<text, wf, rf, urb, bExtended, wCANStatus, chip>>
       ELSE /\ DeviceOpened("EXTENDED" \in Head(text[p]).msg.MSGTYPE) /\ ChipReset
            /\ wf' = pcan_fifo_reset(wf) /\ rf' = pcan_fifo_reset(rf)
            /\ text' = [text EXCEPT ![p] = Tail(@)] /\ UNCHANGED pc
    /\ UNCHANGED <<DataSendReady, hw, ucPhysicallyInstalled, call, rest, running,
                   accepted, bus, got, read, told, count>>

\* pcan_ioctl_status() and its extended twin; pcan_ioctl_diag() does not clear.
CallStatus(p) ==
    /\ May(p, "idle") /\ ucPhysicallyInstalled /\ wCANStatus # {}
    /\ told' = told \cup wCANStatus
    /\ \/ pc' = [pc EXCEPT ![p] = "status"] /\ running' = p
       \/ UNCHANGED <<pc, running>>
    /\ UNCHANGED <<queues, device, chip, call, text, rest,
                   accepted, bus, got, read, trouble, count>>

\* The flags are cleared, and with them those that a handler has just set.
ClearStatus(p) ==
    /\ May(p, "status")
    /\ wCANStatus' = {}
    /\ trouble' = trouble \cup When(~(wCANStatus \subseteq told), "status")
    /\ pc' = [pc EXCEPT ![p] = "idle"] /\ running' = NoProc
    /\ UNCHANGED <<queues, hw, bExtended, ucPhysicallyInstalled, on, urb, chip, call, text,
                   rest, accepted, bus, got, read, told, count>>

\* A signal ends the sleep; the call returns -ERESTARTSYS.
Interrupted(p) ==
    /\ pc[p] \in {"asleep_read", "asleep_write"} /\ running = NoProc
    /\ pc' = [pc EXCEPT ![p] = "idle"]
    /\ UNCHANGED <<queues, device, chip, call, text, rest, running, history>>

\* pcan_usb_plugout() while the path is open: nobody who sleeps is woken.
Unplug ==
    /\ Usb /\ Once("unplug")
    /\ ucPhysicallyInstalled' = FALSE /\ on' = FALSE /\ urb' = FALSE
    /\ tx' = <<>> /\ rx' = <<>> /\ UNCHANGED ints
    /\ UNCHANGED <<queues, hw, bExtended, wCANStatus, procs,
                   accepted, bus, got, read, told, count>>

Steps(p) ==
    \/ SleepForData(p) \/ Get(p)
    \/ Parse(p) \/ InitLine(p) \/ SleepForRoom(p) \/ Put(p) \/ Claim(p) \/ StartWrite(p)
    \/ WaitOver(p) \/ Reopen(p) \/ ClearStatus(p)

Handlers ==
    \/ SjaIrq \/ UsbWriteNotify
    \/ \E n, k \in 0 .. Block, resubmitted \in BOOLEAN : UsbReadNotify(n, k, resubmitted)

Next ==
    \/ \E p \in Procs :
          \/ Steps(p) \/ Interrupted(p)
          \/ CallStatus(p) \/ \E e \in BOOLEAN : CallInit(p, e)
    \/ \E p \in Readers : CallRead(p) \/ ReadRest(p)
    \/ \E p \in Writers :
          \/ \E m \in Messages : CallWrite(p, m)
          \/ \E l \in Lines : CallWriteText(p, l)
    \/ Handlers
    \/ Transmitted \/ BusTrouble \/ UsbWriteFailed \/ Unplug
    \/ \E f \in Frames : Received(f)

Spec == Init /\ [][Next]_vars
-----------------------------------------------------------------------------
(* Properties.                                                              *)

Calm(excuses) == trouble \cap excuses = {}

Busy == \/ tx # <<>> \/ "TI" \in ints
        \/ \E p \in Procs : pc[p] \in {"pull", "start"}

(***************************************************************************)
(* Types, and what DataSendReady stands for (pcan_main.h:348, "all data    *)
(* are send"): without trouble a device that is ready has nothing under way*)
(* and nothing left to send but for the message that is just being put.    *)
(***************************************************************************)
ReadyMeansSent ==
    /\ wf.nStored \in 0 .. WCount /\ rf.nStored \in 0 .. RCount
    /\ wf.r \in 0 .. WCount - 1 /\ wf.w \in 0 .. WCount - 1
    /\ running \in Procs \cup {NoProc} /\ ints \subseteq {"TI", "DOI", "BEI", "EPI"}
    /\ Calm({"BEI", "EPI", "timeout", "submit", "open", "reinit", "unplug"}) /\ DataSendReady
           => tx = <<>> /\ "TI" \notin ints
              /\ (wf.nStored > 0 => \E p \in Procs : pc[p] = "pull")

Positions(s) == [i \in 1 .. Len(s) |-> s[i].pos]
UnderWay == Positions(bus) \o Positions(tx) \o Positions(Contents(wf))

(***************************************************************************)
(* Messages reach the bus in the order in which the FIFO took them, none   *)
(* twice, with the identifier, the format and the data that were written;  *)
(* and all of them do, but for failures of the hardware, for the calls that*)
(* discard them, and for the frame that is written into the locked buffer  *)
(* of an SJA1000 after a bus error has declared the device ready.          *)
(***************************************************************************)
SentInOrder ==
    /\ \A i, j \in 1 .. Len(UnderWay) : i < j => UnderWay[i] < UnderWay[j]
    /\ \A i \in 1 .. Len(bus) :
          LET m == accepted[bus[i].pos]
          IN  Representable(m) =>
                bus[i] = [id |-> m.ID, eff |-> "EXTENDED" \in m.MSGTYPE,
                          rtr |-> "RTR" \in m.MSGTYPE, data |-> m.DATA, pos |-> m.pos]
    /\ Calm({"reset", "reinit", "open", "overwritten", "submit", "urb", "unplug"})
           => Len(UnderWay) = Len(accepted)

(***************************************************************************)
(* A line of text is sent once at most, although every error leaves it in  *)
(* the write buffer and the next write() tries it again: what fails before *)
(* put() has not been stored, and what fails later has been lost.  Two     *)
(* exceptions: a handler that takes the message between put() and the test *)
(* of DataSendReady, and finishes with it there, makes device_write() fail *)
(* with -ENODATA for a message that was sent; and a refused URB leaves in  *)
(* the FIFO what did not fit into it, the message of the line at last.     *)
(***************************************************************************)
LinesSentOnce ==
    Calm({"nodata", "left"}) =>
        \A i, j \in 1 .. Len(UnderWay) :
            accepted[UnderWay[i]].DATA = accepted[UnderWay[j]].DATA
                => i = j \/ accepted[UnderWay[i]].DATA = Garbage

(***************************************************************************)
(* What write() and the ioctl accept is sent as it was written: in order,  *)
(* once, whole.                                                            *)
(***************************************************************************)
SentAsWritten == SentInOrder /\ LinesSentOnce

Stored == read \o Contents(rf)
FrameAt == {i \in 1 .. Len(Stored) : "STATUS" \notin Stored[i].MSGTYPE}
Known == {Stored[i].DATA : i \in FrameAt} \cup {rx[i].data : i \in 1 .. Len(rx)}

(***************************************************************************)
(* Received frames are read in the order in which they came, none twice,   *)
(* as they were sent (the USB device mangles the extended ones); and when  *)
(* one is missing, wCANStatus holds an overrun or has shown it to a user.  *)
(***************************************************************************)
ReceivedOrReported ==
    /\ \A i, j \in FrameAt : i < j => Stored[i].DATA < Stored[j].DATA
    /\ \A i \in FrameAt :
          LET f == got[Stored[i].DATA]
          IN  (Usb /\ "EFF" \in f.flags)
                  \/ (Stored[i].ID = f.id /\ msg2frame(Stored[i]).flags = f.flags)
    /\ Calm({"reset", "reinit", "open", "unplug", "status"})
           => \/ \A n \in 1 .. Len(got) :
                    n \in Known \/ (~bExtended /\ "EFF" \in got[n].flags)
              \/ (wCANStatus \cup told) \cap {"OVERRUN", "QOVERRUN"} # {}
              \/ "DOI" \in ints

(***************************************************************************)
(* Nobody sleeps for what is there: no reader while a message is stored,   *)
(* and no writer, nor a message in the FIFO, unless the controller is busy *)
(* and its handler will go on with them.                                   *)
(***************************************************************************)
NoLostWakeup ==
    /\ (\E p \in Procs : pc[p] = "asleep_read") => rf.nStored = 0
    /\ (wf.nStored > 0 \/ \E p \in Procs : pc[p] = "asleep_write")
          /\ Calm({"timeout", "killed", "reinit", "open", "submit", "urb", "unplug"})
           => Busy

(***************************************************************************)
(* The rings of pcan_fifo.c implement bounded queues, whoever uses them.   *)
(***************************************************************************)
WQ == INSTANCE BoundedQueue WITH Size <- WCount, q <- Contents(wf)
RQ == INSTANCE BoundedQueue WITH Size <- RCount, q <- Contents(rf)
FifosAreQueues == WQ!Spec /\ RQ!Spec
===============================================================================
