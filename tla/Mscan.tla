-------------------------------- MODULE Mscan --------------------------------
(***************************************************************************)
(* The MSCAN driver, drivers/mscan/mscan_hw.c.  The controller has three   *)
(* transmit buffers and sends the lowest one that is filled first; an      *)
(* interrupt handler that runs for a received frame, too, finds the other  *)
(* buffers empty and wakes the queue.                                      *)
(***************************************************************************)
EXTENDS CanNetdev

Buffers == 0 .. 2

VARIABLE early          \* (history) the queue was woken by the watchdog, or by the
                        \* handler while mscan_start_xmit() was running

mscanVars == <<netVars, early>>

\* buf: the frame in each buffer, 0 if it is empty (cantflg); sel: cantbsel;
\* ier: cantier; rx: RXF.
Off == [on |-> FALSE, buf |-> [b \in Buffers |-> 0], sel |-> 0, ier |-> {}, rx |-> FALSE]
Init == chip = Off /\ early = FALSE

Empty == {b \in Buffers : chip.buf[b] = 0}
Fill(f) == [chip EXCEPT !.sel = Min(Empty), !.buf[Min(Empty)] = f]

\* mscan_start_xmit(): the queue is stopped, a buffer is filled and triggered, then
\* its interrupt is enabled.  Without an empty buffer the frame is forgotten.
mscan_start_xmit ==
    /\ CanXmit
    /\ stopped' = TRUE /\ given' = given + 1 /\ bh' = "xmit"
    /\ UNCHANGED <<setup, proc, loops, bus, lost, chip, faults, early>>

Trigger ==
    /\ InBottomHalf /\ bh = "xmit"
    /\ IF Empty = {} THEN bh' = "idle" /\ lost' = lost \cup {given} /\ UNCHANGED chip
       ELSE bh' = "triggered" /\ chip' = Fill(given) /\ UNCHANGED lost
    /\ UNCHANGED <<setup, proc, loops, stopped, given, bus, faults, early>>

EnableInterrupt ==
    /\ InBottomHalf /\ bh = "triggered" /\ bh' = "idle"
    /\ chip' = [chip EXCEPT !.ier = @ \cup {chip.sel}]
    /\ UNCHANGED <<setup, proc, loops, stopped, given, bus, lost, faults, early>>

mscan_tx_timeout ==
    /\ WatchdogDue /\ Fault /\ stopped' = FALSE /\ early' = TRUE
    /\ UNCHANGED <<setup, proc, bh, loops, given, bus, lost, chip>>

mscan_interrupt ==
    /\ proc # "down"
    /\ chip.rx \/ Empty \cap chip.ier # {}
    /\ stopped' = (stopped /\ Empty = {})
    /\ chip' = [chip EXCEPT !.ier = IF Empty = {} THEN @ ELSE {}, !.rx = FALSE]
    /\ early' = (early \/ (bh # "idle" /\ Empty # {}))
    /\ UNCHANGED <<setup, proc, bh, loops, given, bus, lost, faults>>

-----------------------------------------------------------------------------
(* The controller and the bus.                                              *)

BusSteady == UNCHANGED <<setup, proc, bh, loops, stopped, given, lost, early>>

Transmitted ==
    /\ chip.on /\ Empty # Buffers
    /\ LET b == Min(Buffers \ Empty)
       IN  bus' = Append(bus, chip.buf[b]) /\ chip' = [chip EXCEPT !.buf[b] = 0]
    /\ BusSteady /\ UNCHANGED faults

Received ==
    /\ chip.on /\ ~chip.rx /\ chip' = [chip EXCEPT !.rx = TRUE]
    /\ BusSteady /\ UNCHANGED <<bus, faults>>

-----------------------------------------------------------------------------
(* mscan_open(), mscan_close().                                             *)

mscan_open ==
    /\ InProcess /\ proc = "down"
    /\ \/ proc' = "opening" /\ chip' = [Off EXCEPT !.on = TRUE, !.ier = Buffers] /\ UNCHANGED faults
       \/ proc' = "down" /\ chip' = [Off EXCEPT !.on = TRUE] /\ Fault
    /\ UNCHANGED <<setup, bh, loops, stopped, given, bus, lost, early>>

Opened ==
    /\ InProcess /\ proc = "opening" /\ proc' = "up" /\ stopped' = FALSE
    /\ UNCHANGED <<setup, bh, loops, given, bus, lost, chip, faults, early>>

\* What is in the buffers is aborted, with interrupts disabled.
mscan_close ==
    /\ InProcess /\ proc = "up" /\ proc' = "closing"
    /\ chip' = [chip EXCEPT !.buf = [b \in Buffers |-> 0]]
    /\ UNCHANGED <<setup, bh, loops, stopped, given, bus, lost, faults, early>>

Closed ==
    /\ InProcess /\ proc = "closing" /\ proc' = "down"
    /\ chip' = Off /\ stopped' = TRUE
    /\ UNCHANGED <<setup, bh, loops, given, bus, lost, faults, early>>

BottomHalf == Trigger \/ EnableInterrupt \/ mscan_tx_timeout
Controller == Transmitted \/ Received
Process == mscan_open \/ Opened \/ mscan_close \/ Closed
Next == mscan_start_xmit \/ BottomHalf \/ mscan_interrupt \/ Controller \/ Process
===============================================================================
