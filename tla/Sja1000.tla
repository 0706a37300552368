------------------------------- MODULE Sja1000 -------------------------------
(***************************************************************************)
(* The SJA1000 driver, drivers/sja1000/sja1000.c.  The controller is       *)
(* restarted after a bus-off, many bus errors or the error passive state:  *)
(* it goes into reset mode, and a timer brings it back.  With rx_probe it  *)
(* starts in listen only mode, until a frame has been received.            *)
(***************************************************************************)
EXTENDS CanNetdev

CONSTANT MaxLoops       \* turns of the loop in can_interrupt()

VARIABLES
    state,      \* priv->state: "uninitialized", "reset", "probe", "active"
    timer,      \* priv->timer.expires, the restart timer is running
    dropped     \* (history) interrupts were read when the loop had had its turns

sjaVars == <<netVars, state, timer, dropped>>

\* rx: a received frame is in the controller; irq: what REG_IR reads, without RI;
\* ier: interrupts are enabled; off: status bit BS.
Idle == [mode |-> "reset", tx |-> 0, rx |-> FALSE, irq |-> {}, ier |-> FALSE, off |-> FALSE]
Init == chip = Idle /\ state = "uninitialized" /\ timer = FALSE /\ dropped = FALSE

Enabled(c) == c.ier /\ (c.irq # {} \/ c.rx)

\* Reset mode drops the frame to be sent, the received ones and all interrupts.
set_reset_mode == [Idle EXCEPT !.off = chip.off]
chipset_init_rx == [set_reset_mode EXCEPT !.mode = "listen", !.ier = TRUE]
chipset_init_trx == [set_reset_mode EXCEPT !.mode = "normal", !.ier = TRUE]

chipset_init(wake) ==
    /\ chip' = IF setup.rx_probe THEN chipset_init_rx ELSE chipset_init_trx
    /\ state' = IF setup.rx_probe THEN "probe" ELSE "active"
    /\ stopped' = (stopped /\ ~wake)

can_restart_onUnarmed ==                         \* a mutant: forgets add_timer()
    chip' = set_reset_mode /\ state' = "reset" /\ UNCHANGED timer
can_restart_on ==
    /\ timer' = TRUE
    /\ chip' = IF timer THEN [chip EXCEPT !.irq = {}, !.rx = FALSE] ELSE set_reset_mode
    /\ state' = IF timer THEN state ELSE "reset"

-----------------------------------------------------------------------------
(* can_start_xmit(): the queue is stopped before the registers are written. *)
(* A controller that is not in normal mode ignores the command, and one     *)
(* that still has a frame ignores the new one.                              *)

can_start_xmit ==
    /\ CanXmit
    /\ stopped' = TRUE /\ given' = given + 1 /\ bh' = "xmit"
    /\ UNCHANGED <<setup, proc, loops, bus, lost, chip, faults, state, timer, dropped>>

Command ==
    /\ InBottomHalf /\ bh = "xmit" /\ bh' = "idle"
    /\ IF chip.tx # 0 THEN lost' = lost \cup {given} /\ UNCHANGED chip
       ELSE /\ chip' = [chip EXCEPT !.tx = IF chip.mode = "normal" THEN given ELSE 0]
            /\ UNCHANGED lost
    /\ UNCHANGED <<setup, proc, loops, stopped, given, bus, faults, state, timer, dropped>>

\* can_tx_timeout(): an interrupt may start the timer after it was looked at.
can_tx_timeout ==
    /\ WatchdogDue /\ ~timer /\ bh' = "timeout"
    /\ UNCHANGED <<setup, proc, loops, stopped, given, bus, lost, chip, faults, state, timer, dropped>>

TimedoutNoReset ==                               \* a mutant: the old frame stays
    /\ InBottomHalf /\ bh = "timeout" /\ bh' = "idle"
    /\ state' = "active" /\ stopped' = FALSE
    /\ UNCHANGED <<setup, proc, loops, given, bus, lost, chip, faults, timer, dropped>>
Timedout ==
    /\ InBottomHalf /\ bh = "timeout" /\ bh' = "idle"
    /\ chip' = chipset_init_trx /\ state' = "active" /\ stopped' = FALSE
    /\ UNCHANGED <<setup, proc, loops, given, bus, lost, faults, timer, dropped>>

\* can_restart_dev(), the timer.
can_restart_dev ==
    /\ InProcess /\ timer /\ timer' = FALSE /\ bh' = "restart"
    /\ UNCHANGED <<setup, proc, loops, stopped, given, bus, lost, chip, faults, state, dropped>>

Restarted ==
    /\ InBottomHalf /\ bh = "restart" /\ bh' = "idle"
    /\ IF state = "uninitialized" THEN UNCHANGED <<chip, state, stopped>> ELSE chipset_init(TRUE)
    /\ UNCHANGED <<setup, proc, loops, given, bus, lost, faults, timer, dropped>>

-----------------------------------------------------------------------------
(* can_interrupt(): reading REG_IR clears it, also when the loop has had its *)
(* turns.  A receive interrupt stands until the received frames are taken.   *)

Handled(woken) == stopped' = (stopped /\ ~woken)
IrqSteady == UNCHANGED <<setup, proc, bh, given, bus, lost, faults>>

\* Another device on the line may raise it at any time.
Uninitialized ==
    /\ loops = 0 /\ proc = "opening" /\ state = "uninitialized"
    /\ chipset_init(TRUE) /\ IrqSteady /\ UNCHANGED <<loops, timer, dropped>>

Leave ==
    /\ loops > 0 /\ loops' = 0
    /\ (chip.irq = {} /\ ~chip.rx) \/ loops = MaxLoops
    /\ chip' = [chip EXCEPT !.irq = {}] /\ dropped' = (dropped \/ chip.irq # {})
    /\ IrqSteady /\ UNCHANGED <<stopped, state, timer>>

Turn ==
    LET isrc == chip.irq
        seen == [chip EXCEPT !.irq = {}, !.rx = FALSE]
        again == isrc \cap {"BEI", "EPI"} # {}
    IN  /\ loops < MaxLoops /\ state \in {"probe", "active"} /\ IrqSteady /\ UNCHANGED dropped
        /\ IF loops = 0 THEN Enabled(chip) /\ proc # "down"
           ELSE isrc # {} \/ chip.rx
        /\ Handled("TI" \in isrc)
        /\ \/ /\ state = "probe" /\ chip.rx                  \* a valid reception
              /\ chip' = chipset_init_trx /\ state' = "active" /\ loops' = 0
              /\ UNCHANGED timer
           \/ /\ ~(state = "probe" /\ chip.rx)
              /\ ("EI" \in isrc /\ chip.off) \/ again
              /\ can_restart_on /\ loops' = 0
           \/ /\ ~(state = "probe" /\ chip.rx)
              /\ ~("EI" \in isrc /\ chip.off)
              /\ chip' = seen /\ loops' = loops + 1 /\ UNCHANGED <<state, timer>>

-----------------------------------------------------------------------------
(* The controller and the bus.                                              *)

BusSteady == UNCHANGED <<setup, proc, bh, loops, stopped, given, lost, state, timer, dropped>>

Transmitted ==
    /\ chip.mode = "normal" /\ ~chip.off /\ chip.tx # 0
    /\ bus' = Append(bus, chip.tx) /\ chip' = [chip EXCEPT !.tx = 0, !.irq = @ \cup {"TI"}]
    /\ BusSteady /\ UNCHANGED faults

Received ==
    /\ chip.mode # "reset" /\ ~chip.off /\ ~chip.rx
    /\ chip' = [chip EXCEPT !.rx = TRUE]
    /\ BusSteady /\ UNCHANGED <<bus, faults>>

\* A bus error, a change to or from error passive, bus off.
BusTrouble ==
    /\ chip.mode = "normal" /\ ~chip.off /\ Fault
    /\ \/ \E what \in {"BEI", "EPI"} : chip' = [chip EXCEPT !.irq = @ \cup {what}]
       \/ chip' = [chip EXCEPT !.irq = @ \cup {"EI"}, !.off = TRUE, !.tx = 0, !.mode = "reset"]
    /\ BusSteady /\ UNCHANGED bus

BackOnBus ==
    /\ chip.mode = "normal" /\ chip.off
    /\ chip' = [chip EXCEPT !.off = FALSE, !.irq = @ \cup {"EI"}]
    /\ BusSteady /\ UNCHANGED <<bus, faults>>

-----------------------------------------------------------------------------
(* can_open() and can_close().                                              *)

can_open ==
    /\ InProcess /\ proc = "down"
    /\ chip' = set_reset_mode /\ state' = "uninitialized"
    /\ \/ proc' = "opening" /\ UNCHANGED faults
       \/ proc' = "down" /\ Fault                            \* request_irq()
    /\ UNCHANGED <<setup, bh, loops, stopped, given, bus, lost, timer, dropped>>

Opened ==
    /\ InProcess /\ proc = "opening" /\ proc' = "up"
    /\ chip' = IF setup.rx_probe THEN chipset_init_rx ELSE chipset_init_trx
    /\ state' = IF setup.rx_probe THEN "probe" ELSE "active"
    /\ stopped' = FALSE
    /\ UNCHANGED <<setup, bh, loops, given, bus, lost, faults, timer, dropped>>

can_close ==
    /\ InProcess /\ proc = "up" /\ proc' = "closing"
    /\ chip' = set_reset_mode /\ state' = "reset"
    /\ UNCHANGED <<setup, bh, loops, stopped, given, bus, lost, faults, timer, dropped>>

Closed ==
    /\ InProcess /\ proc = "closing" /\ proc' = "down"
    /\ timer' = FALSE /\ state' = "uninitialized" /\ stopped' = TRUE
    /\ UNCHANGED <<setup, bh, loops, given, bus, lost, chip, faults, dropped>>

BottomHalf == Command \/ can_tx_timeout \/ Timedout \/ can_restart_dev \/ Restarted
Interrupt == Uninitialized \/ Turn \/ Leave
Controller == Transmitted \/ Received \/ BusTrouble \/ BackOnBus
Process == can_open \/ Opened \/ can_close \/ Closed
Next == can_start_xmit \/ BottomHalf \/ Interrupt \/ Controller \/ Process
===============================================================================
