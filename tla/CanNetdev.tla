------------------------------ MODULE CanNetdev ------------------------------
(***************************************************************************)
(* What the network drivers of src/drivers share: the kernel's transmit    *)
(* queue in front of hard_start_xmit(), its watchdog behind tx_timeout(),  *)
(* and who may interrupt whom.  One processor: an interrupt handler runs   *)
(* between any two steps, a bottom half (transmission, watchdog, timers)   *)
(* between two steps of a process (open, close).                           *)
(***************************************************************************)
EXTENDS Naturals, SequencesExt, FiniteSetsExt

CONSTANTS MaxFrames,    \* bounds: frames to send,
          MaxFaults     \* disturbances of the bus, runs of the watchdog, failed calls

VARIABLES
    setup,      \* the controller, and rx_probe of an SJA1000; it does not change
    proc,       \* the interface: "down", "opening", "up", "closing"
    bh,         \* where the running bottom half is, or "idle"
    loops,      \* turns of the loop of the running interrupt handler, or 0
    stopped,    \* netif_queue_stopped()
    given,      \* frames 1 .. given were handed to hard_start_xmit()
    bus,        \* frames on the bus, in order
    lost,       \* frames that found no place in the controller
    chip,       \* the controller
    faults      \* counter for the bound

netVars == <<setup, proc, bh, loops, stopped, given, bus, lost, chip, faults>>

NetInit ==
    /\ proc = "down" /\ bh = "idle" /\ loops = 0
    /\ stopped = FALSE /\ given = 0 /\ bus = <<>> /\ lost = {} /\ faults = 0

Fault == faults < MaxFaults /\ faults' = faults + 1
InProcess == bh = "idle" /\ loops = 0
InBottomHalf == loops = 0

\* The queue is in use between dev_activate() and dev_deactivate().
CanXmit == InProcess /\ proc = "up" /\ ~stopped /\ given < MaxFrames
WatchdogDue == InProcess /\ proc = "up" /\ stopped
===============================================================================
