------------------------------ MODULE CanDrivers ------------------------------
(***************************************************************************)
(* An interface with either controller, and what its driver promises.      *)
(***************************************************************************)
EXTENDS CanNetdev, CanBitTiming

CONSTANT MaxLoops
VARIABLES state, timer, dropped, early

sja1000 == INSTANCE Sja1000
mscan == INSTANCE Mscan

driverVars == <<netVars, state, timer, dropped, early>>
Sja == setup.controller = "sja1000"
Mscan == setup.controller = "mscan"

Init ==
    /\ setup \in [controller : {"sja1000"}, rx_probe : BOOLEAN]
                 \cup [controller : {"mscan"}, rx_probe : {FALSE}]
    /\ NetInit
    /\ IF Sja THEN sja1000!Init /\ early = FALSE
       ELSE mscan!Init /\ state = "active" /\ timer = FALSE /\ dropped = FALSE

SjaStep == Sja /\ sja1000!Next /\ UNCHANGED early
MscanStep == Mscan /\ mscan!Next /\ UNCHANGED <<state, timer, dropped>>
Next == SjaStep \/ MscanStep

(***************************************************************************)
(* Interrupts are handled and bottom halves run, also when interrupts keep *)
(* coming: the bus leaves the processor time between two of them.  An      *)
(* MSCAN sends what it has been given.  Its watchdog is not needed.        *)
(***************************************************************************)
Fairness ==
    /\ WF_driverVars(Sja /\ sja1000!Interrupt /\ UNCHANGED early)
    /\ SF_driverVars(Sja /\ sja1000!BottomHalf /\ UNCHANGED early)
    /\ WF_driverVars(Mscan /\ mscan!mscan_interrupt /\ UNCHANGED <<state, timer, dropped>>)
    /\ SF_driverVars(Mscan /\ (mscan!Trigger \/ mscan!EnableInterrupt) /\ UNCHANGED <<state, timer, dropped>>)
    /\ WF_driverVars(Mscan /\ mscan!Transmitted /\ UNCHANGED <<state, timer, dropped>>)

Spec == Init /\ [][Next]_driverVars /\ Fairness
-----------------------------------------------------------------------------

\* An interface that is up does not keep its queue stopped: what stopped it, a
\* frame in the controller, a bus-off, a restart, ends in netif_wake_queue(), by
\* the interrupt handler, the restart timer or the watchdog, whose timer they
\* may each find in the other's hands.
Woken == (proc = "up" /\ stopped) ~> (proc # "up" \/ ~stopped)

\* No frame is given to a controller that has no room for it, after whatever
\* restarts: the SJA1000 driver empties the controller before it wakes the queue
\* early.  Excused: an MSCAN queue woken by the watchdog, or by the handler that
\* runs inside mscan_start_xmit().
NoFrameLost == lost # {} => Mscan /\ early

\* The bit rate of an interface is within 10 percent of the one that was asked for,
\* or refused, whatever set_baud() cuts from the segments (and sja1000_bitrate() of
\* the PEAK driver, which has the same controller).
BaudClose == IF Sja THEN Sja1000Close ELSE MscanClose

ResetMode == Sja /\ chip.mode = "reset"

\* An SJA1000 that fell into reset mode, at bus off, is brought back by the restart
\* timer.  Excused: the loop of can_interrupt() reads REG_IR, which clears it, before
\* it looks at its count.
BackFromReset == (proc = "up" /\ ResetMode) ~> (proc # "up" \/ ~ResetMode \/ dropped)

\* After every fault an interface that stays up sends again.
Recovers == Woken /\ BackFromReset
===============================================================================
