-------------------------- MODULE CanDrivers_proofs --------------------------
(***************************************************************************)
(* No frame finds its controller full, for any number of frames, faults    *)
(* and turns of the interrupt handlers, whatever interrupts whom.          *)
(***************************************************************************)
EXTENDS CanDrivers, TLAPS

----------------------------------------------------------------------------
(* The inductive invariant: the queue is stopped as long as the controller *)
(* has no room.                                                            *)

Procs == {"down", "opening", "up", "closing"}
Bhs == {"idle", "xmit", "timeout", "restart", "triggered"}

NetInv ==
  /\ proc \in Procs /\ bh \in Bhs
  /\ stopped \in BOOLEAN
  /\ bh = "xmit" => proc = "up"

SjaChip == [mode : {"reset", "listen", "normal"}, tx : Nat, rx : BOOLEAN,
            irq : SUBSET {"TI", "BEI", "EPI", "EI"}, ier : BOOLEAN, off : BOOLEAN]

\* The SJA1000 has one frame, and tells of its end once, both with the queue
\* stopped and not while the next frame is on its way.
SjaInv ==
  /\ lost = {}
  /\ chip \in SjaChip
  /\ chip.tx # 0 => "TI" \notin chip.irq
  /\ chip.tx # 0 \/ "TI" \in chip.irq => stopped /\ bh # "xmit"
  /\ bh = "xmit" => stopped
  /\ given \in Nat

MscanChip == [on : BOOLEAN, buf : [mscan!Buffers -> Nat], sel : mscan!Buffers,
              ier : SUBSET mscan!Buffers, rx : BOOLEAN]
Room == mscan!Empty # {}

\* An MSCAN that comes up is empty, and one whose queue runs has an empty buffer
\* until the queue is woken early.
MscanInv ==
  /\ chip \in MscanChip
  /\ early \in BOOLEAN
  /\ given \in Nat
  /\ proc = "opening" => Room
  /\ ~early => /\ lost = {}
               /\ ~stopped => Room
               /\ bh = "xmit" => stopped /\ Room
               /\ bh = "triggered" => stopped

IInv ==
  /\ setup.controller \in {"sja1000", "mscan"}
  /\ NetInv
  /\ Sja => SjaInv
  /\ Mscan => MscanInv

----------------------------------------------------------------------------
LEMMA SetupFacts == ~(Sja /\ Mscan)
BY DEF Sja, Mscan

LEMMA InitIInv == Init => IInv
<1> SUFFICES ASSUME Init PROVE IInv
  OBVIOUS
<1>1. setup.controller \in {"sja1000", "mscan"}
  BY DEF Init
<1>2. NetInv
  BY DEF Init, NetInit, NetInv, Procs, Bhs
<1>3. Sja => SjaInv
  <2> SUFFICES ASSUME Sja PROVE SjaInv
    OBVIOUS
  <2>1. chip = sja1000!Idle /\ given = 0 /\ bh = "idle" /\ lost = {}
    BY DEF Init, NetInit, sja1000!Init
  <2>2. sja1000!Idle \in SjaChip /\ sja1000!Idle.tx = 0 /\ sja1000!Idle.irq = {}
    BY DEF SjaChip, sja1000!Idle
  <2> QED BY <2>1, <2>2 DEF SjaInv
<1>4. Mscan => MscanInv
  <2> SUFFICES ASSUME Mscan PROVE MscanInv
    OBVIOUS
  <2>1. chip = mscan!Off /\ early = FALSE /\ given = 0 /\ bh = "idle" /\ lost = {}
    BY SetupFacts DEF Init, NetInit, mscan!Init
  <2>2. 0 \in mscan!Empty
    BY <2>1 DEF mscan!Empty, mscan!Off, mscan!Buffers
  <2>3. chip \in MscanChip
    BY <2>1 DEF mscan!Off, mscan!Buffers, MscanChip
  <2> QED BY <2>1, <2>2, <2>3 DEF MscanInv, Room
<1> QED BY <1>1, <1>2, <1>3, <1>4 DEF IInv

----------------------------------------------------------------------------
(* The SJA1000.                                                            *)

\* Reset mode, and what follows a reset, leave the controller empty.
LEMMA ResetEmpties ==
  ASSUME SjaInv
  PROVE  \A c \in {sja1000!set_reset_mode, sja1000!chipset_init_rx, sja1000!chipset_init_trx} :
            c \in SjaChip /\ c.tx = 0 /\ c.irq = {}
<1>1. chip.off \in BOOLEAN
  BY DEF SjaInv, SjaChip
<1>2. /\ sja1000!set_reset_mode \in SjaChip
      /\ sja1000!set_reset_mode.tx = 0 /\ sja1000!set_reset_mode.irq = {}
  BY <1>1 DEF SjaChip, sja1000!set_reset_mode, sja1000!Idle
<1>3. ASSUME NEW c \in SjaChip, NEW m \in {"listen", "normal"}
      PROVE  LET d == [c EXCEPT !.mode = m, !.ier = TRUE]
             IN  d \in SjaChip /\ d.tx = c.tx /\ d.irq = c.irq
  BY DEF SjaChip
<1> QED BY <1>2, <1>3 DEF sja1000!chipset_init_rx, sja1000!chipset_init_trx

\* A step that leaves the controller as it is, or empties it, may do anything to
\* a queue that was stopped.
LEMMA Emptied ==
  ASSUME IInv, Sja, UNCHANGED setup, NetInv', UNCHANGED <<lost, given>>, bh' # "xmit",
         \/ chip' = sja1000!set_reset_mode
         \/ chip' = sja1000!chipset_init_rx
         \/ chip' = sja1000!chipset_init_trx
  PROVE  IInv'
<1>1. Sja' /\ ~Mscan' /\ setup'.controller \in {"sja1000", "mscan"}
  BY SetupFacts DEF IInv, Sja, Mscan
<1>2. SjaInv
  BY DEF IInv
<1>3. SjaInv'
  BY <1>2, ResetEmpties DEF SjaInv
<1> QED BY <1>1, <1>3 DEF IInv

LEMMA SjaKeeps ==
  ASSUME IInv, Sja, UNCHANGED setup, NetInv', SjaInv'
  PROVE  IInv'
BY SetupFacts DEF IInv, Sja, Mscan

LEMMA SjaBottomHalf ==
  ASSUME IInv, Sja, sja1000!can_start_xmit \/ sja1000!BottomHalf
  PROVE  IInv'
<1> USE DEF sja1000!InBottomHalf, sja1000!InProcess
<1>0. NetInv /\ SjaInv
  BY DEF IInv
<1>1. CASE sja1000!can_start_xmit
  <2>1. NetInv'
    BY <1>0, <1>1 DEF NetInv, sja1000!can_start_xmit, sja1000!CanXmit, Procs, Bhs
  <2>2. SjaInv'
    BY <1>0, <1>1 DEF SjaInv, sja1000!can_start_xmit, sja1000!CanXmit
  <2> QED BY <1>1, <2>1, <2>2, SjaKeeps DEF sja1000!can_start_xmit
<1>2. CASE sja1000!Command
  <2>1. NetInv'
    BY <1>0, <1>2 DEF NetInv, sja1000!Command, Procs, Bhs
  <2>2. chip.tx = 0 /\ "TI" \notin chip.irq /\ stopped /\ UNCHANGED <<stopped, lost, given>>
        /\ bh' = "idle" /\ chip' = [chip EXCEPT !.tx = IF chip.mode = "normal" THEN given ELSE 0]
    BY <1>0, <1>2 DEF SjaInv, sja1000!Command
  <2>3. SjaInv'
    BY <1>0, <2>2 DEF SjaInv, SjaChip
  <2> QED BY <1>2, <2>1, <2>3, SjaKeeps DEF sja1000!Command
<1>3. CASE sja1000!can_tx_timeout
  <2>1. NetInv'
    BY <1>0, <1>3 DEF NetInv, sja1000!can_tx_timeout, sja1000!WatchdogDue, Procs, Bhs
  <2>2. SjaInv'
    BY <1>0, <1>3 DEF SjaInv, sja1000!can_tx_timeout
  <2> QED BY <1>3, <2>1, <2>2, SjaKeeps DEF sja1000!can_tx_timeout
<1>4. CASE sja1000!Timedout
  <2>1. NetInv'
    BY <1>0, <1>4 DEF NetInv, sja1000!Timedout, Procs, Bhs
  <2> QED BY <1>4, <2>1, Emptied DEF sja1000!Timedout
<1>5. CASE sja1000!can_restart_dev
  <2>1. NetInv'
    BY <1>0, <1>5 DEF NetInv, sja1000!can_restart_dev, Procs, Bhs
  <2>2. SjaInv'
    BY <1>0, <1>5 DEF SjaInv, sja1000!can_restart_dev
  <2> QED BY <1>5, <2>1, <2>2, SjaKeeps DEF sja1000!can_restart_dev
<1>6. CASE sja1000!Restarted
  <2>1. NetInv'
    BY <1>0, <1>6 DEF NetInv, sja1000!Restarted, sja1000!chipset_init, Procs, Bhs
  <2>2. CASE state = "uninitialized"
    <3>1. SjaInv'
      BY <1>0, <1>6, <2>2 DEF SjaInv, sja1000!Restarted
    <3> QED BY <1>6, <2>1, <3>1, SjaKeeps DEF sja1000!Restarted
  <2>3. CASE state # "uninitialized"
    BY <1>6, <2>1, <2>3, Emptied DEF sja1000!Restarted, sja1000!chipset_init
  <2> QED BY <2>2, <2>3
<1> QED BY <1>1, <1>2, <1>3, <1>4, <1>5, <1>6 DEF sja1000!BottomHalf

LEMMA SjaInterrupt ==
  ASSUME IInv, Sja, sja1000!Interrupt
  PROVE  IInv'
<1> USE DEF sja1000!IrqSteady
<1>0. NetInv /\ SjaInv
  BY DEF IInv
<1>1. CASE sja1000!Uninitialized
  <2>1. NetInv' /\ bh' # "xmit"
    BY <1>0, <1>1 DEF NetInv, sja1000!Uninitialized, sja1000!chipset_init, Procs, Bhs
  <2> QED BY <1>1, <2>1, Emptied DEF sja1000!Uninitialized, sja1000!chipset_init
<1>2. CASE sja1000!Leave
  <2>1. NetInv'
    BY <1>0, <1>2 DEF NetInv, sja1000!Leave, Procs, Bhs
  <2>2. SjaInv'
    BY <1>0, <1>2 DEF SjaInv, SjaChip, sja1000!Leave
  <2> QED BY <1>2, <2>1, <2>2, SjaKeeps DEF sja1000!Leave
<1>3. CASE sja1000!Turn
  <2>1. /\ UNCHANGED <<setup, proc, bh, given, lost>>
        /\ stopped' = (stopped /\ ~("TI" \in chip.irq))
    BY <1>3 DEF sja1000!Turn, sja1000!Handled
  <2>2. NetInv'
    BY <1>0, <2>1 DEF NetInv, Procs, Bhs
  <2>3. \/ chip' = sja1000!set_reset_mode
        \/ chip' = sja1000!chipset_init_trx
        \/ chip' = [chip EXCEPT !.irq = {}, !.rx = FALSE]
    BY <1>3 DEF sja1000!Turn, sja1000!can_restart_on
  <2>4. CASE chip' = [chip EXCEPT !.irq = {}, !.rx = FALSE]
    <3>1. chip'.tx = chip.tx /\ chip'.irq = {}
      BY <1>0, <2>4 DEF SjaInv, SjaChip
    <3>2. SjaInv'
      BY <1>0, <2>1, <2>4, <3>1 DEF SjaInv, SjaChip
    <3> QED BY <2>1, <2>2, <3>2, SjaKeeps
  <2>5. CASE chip' \in {sja1000!set_reset_mode, sja1000!chipset_init_trx}
    <3>1. SjaInv'
      BY <1>0, <2>1, <2>5, ResetEmpties DEF SjaInv
    <3> QED BY <2>1, <2>2, <3>1, SjaKeeps
  <2> QED BY <2>3, <2>4, <2>5
<1> QED BY <1>1, <1>2, <1>3 DEF sja1000!Interrupt

LEMMA SjaController ==
  ASSUME IInv, Sja, sja1000!Controller
  PROVE  IInv'
<1>0. NetInv /\ SjaInv
  BY DEF IInv
<1>1. UNCHANGED <<setup, proc, bh, stopped, given, lost>>
  BY DEF sja1000!Controller, sja1000!Transmitted, sja1000!Received, sja1000!BusTrouble,
         sja1000!BackOnBus, sja1000!BusSteady
<1>2. NetInv'
  BY <1>0, <1>1 DEF NetInv
<1>3. CASE sja1000!Transmitted
  <2>1. chip.tx # 0 /\ chip' = [chip EXCEPT !.tx = 0, !.irq = @ \cup {"TI"}]
    BY <1>3 DEF sja1000!Transmitted
  <2>2. chip' \in SjaChip /\ chip'.tx = 0
    BY <1>0, <2>1 DEF SjaInv, SjaChip
  <2>3. SjaInv'
    BY <1>0, <1>1, <2>1, <2>2 DEF SjaInv
  <2> QED BY <1>1, <1>2, <2>3, SjaKeeps
<1>4. CASE sja1000!Received \/ sja1000!BusTrouble \/ sja1000!BackOnBus
  <2>1. /\ chip' \in SjaChip
        /\ chip'.tx \in {chip.tx, 0}
        /\ "TI" \in chip'.irq <=> "TI" \in chip.irq
    <3>1. CASE sja1000!Received
      BY <1>0, <3>1 DEF SjaInv, SjaChip, sja1000!Received
    <3>2. CASE sja1000!BackOnBus
      BY <1>0, <3>2 DEF SjaInv, SjaChip, sja1000!BackOnBus
    <3>3. CASE sja1000!BusTrouble
      <4>1. CASE \E what \in {"BEI", "EPI"} : chip' = [chip EXCEPT !.irq = @ \cup {what}]
        BY <1>0, <4>1 DEF SjaInv, SjaChip
      <4>2. CASE chip' = [chip EXCEPT !.irq = @ \cup {"EI"}, !.off = TRUE, !.tx = 0,
                                      !.mode = "reset"]
        BY <1>0, <4>2 DEF SjaInv, SjaChip
      <4> QED BY <3>3, <4>1, <4>2 DEF sja1000!BusTrouble
    <3> QED BY <1>4, <3>1, <3>2, <3>3
  <2>2. SjaInv'
    BY <1>0, <1>1, <2>1 DEF SjaInv
  <2> QED BY <1>1, <1>2, <2>2, SjaKeeps
<1> QED BY <1>3, <1>4 DEF sja1000!Controller

LEMMA SjaProcess ==
  ASSUME IInv, Sja, sja1000!Process
  PROVE  IInv'
<1> USE DEF sja1000!InProcess
<1>0. NetInv /\ SjaInv
  BY DEF IInv
<1>1. bh = "idle" /\ UNCHANGED <<setup, bh, given, lost>>
  BY DEF sja1000!Process, sja1000!can_open, sja1000!Opened, sja1000!can_close, sja1000!Closed
<1>2. CASE sja1000!can_open \/ sja1000!can_close
  <2>1. NetInv'
    BY <1>0, <1>1, <1>2 DEF NetInv, sja1000!can_open, sja1000!can_close, Procs, Bhs
  <2> QED BY <1>1, <1>2, <2>1, Emptied DEF sja1000!can_open, sja1000!can_close
<1>3. CASE sja1000!Opened
  <2>1. NetInv'
    BY <1>0, <1>1, <1>3 DEF NetInv, sja1000!Opened, Procs, Bhs
  <2> QED BY <1>1, <1>3, <2>1, Emptied DEF sja1000!Opened
<1>4. CASE sja1000!Closed
  <2>1. NetInv'
    BY <1>0, <1>1, <1>4 DEF NetInv, sja1000!Closed, Procs, Bhs
  <2>2. SjaInv'
    BY <1>0, <1>1, <1>4 DEF SjaInv, sja1000!Closed
  <2> QED BY <1>1, <2>1, <2>2, SjaKeeps
<1> QED BY <1>2, <1>3, <1>4 DEF sja1000!Process

----------------------------------------------------------------------------
(* The MSCAN.                                                              *)

LEMMA FirstEmpty ==
  ASSUME Room
  PROVE  mscan!Min(mscan!Empty) \in mscan!Empty
<1> DEFINE S == mscan!Empty
<1>1. S # {} /\ S \subseteq 0 .. 2
  BY DEF Room, mscan!Empty, mscan!Buffers
<1> HIDE DEF S
<1>2. \E x \in S : \A y \in S : x <= y
  <2>1. CASE 0 \in S
    BY <1>1, <2>1
  <2>2. CASE 0 \notin S /\ 1 \in S
    BY <1>1, <2>2
  <2>3. CASE 0 \notin S /\ 1 \notin S
    <3>1. \A y \in S : y = 2
      BY <1>1, <2>3
    <3>2. PICK x : x \in S
      BY <1>1
    <3> QED BY <3>1, <3>2
  <2> QED BY <2>1, <2>2, <2>3
<1>3. mscan!Min(S) \in S
  BY <1>2 DEF mscan!Min
<1> QED BY <1>3 DEF S

LEMMA MscanKeeps ==
  ASSUME IInv, Mscan, UNCHANGED setup, NetInv', MscanInv'
  PROVE  IInv'
BY SetupFacts DEF IInv, Sja, Mscan

LEMMA MscanBottomHalf ==
  ASSUME IInv, Mscan, mscan!mscan_start_xmit \/ mscan!BottomHalf
  PROVE  IInv'
<1> USE DEF mscan!InBottomHalf, mscan!InProcess
<1>0. NetInv /\ MscanInv
  BY DEF IInv
<1>1. CASE mscan!mscan_start_xmit
  <2>1. NetInv'
    BY <1>0, <1>1 DEF NetInv, mscan!mscan_start_xmit, mscan!CanXmit, Procs, Bhs
  <2>2. Room' <=> Room
    BY <1>1 DEF Room, mscan!Empty, mscan!mscan_start_xmit
  <2>3. MscanInv'
    BY <1>0, <1>1, <2>2 DEF MscanInv, mscan!mscan_start_xmit, mscan!CanXmit
  <2> QED BY <1>1, <2>1, <2>3, MscanKeeps DEF mscan!mscan_start_xmit
<1>2. CASE mscan!Trigger
  <2>1. NetInv'
    BY <1>0, <1>2 DEF NetInv, mscan!Trigger, Procs, Bhs
  <2>2. bh = "xmit" /\ proc = "up" /\ UNCHANGED <<setup, proc, stopped, early, given>>
    BY <1>0, <1>2 DEF mscan!Trigger, NetInv
  <2>3. CASE ~Room
    <3>1. early /\ UNCHANGED chip /\ bh' = "idle"
      BY <1>0, <1>2, <2>2, <2>3 DEF MscanInv, Room, mscan!Trigger
    <3>2. MscanInv'
      BY <1>0, <2>2, <3>1 DEF MscanInv
    <3> QED BY <2>1, <2>2, <3>2, MscanKeeps
  <2>4. CASE Room
    <3> DEFINE b == mscan!Min(mscan!Empty)
    <3>1. UNCHANGED <<setup, lost>> /\ bh' = "triggered"
          /\ chip' = [chip EXCEPT !.sel = b, !.buf[b] = given]
      BY <1>2, <2>4 DEF Room, mscan!Trigger, mscan!Fill
    <3>2. b \in mscan!Buffers
      BY <2>4, FirstEmpty DEF mscan!Empty
    <3> HIDE DEF b
    <3>3. chip' \in MscanChip
      BY <1>0, <3>1, <3>2 DEF MscanInv, MscanChip
    <3>4. MscanInv'
      BY <1>0, <2>2, <3>1, <3>3 DEF MscanInv
    <3> QED BY <2>1, <3>1, <3>4, MscanKeeps
  <2> QED BY <2>3, <2>4
<1>3. CASE mscan!EnableInterrupt
  <2>1. NetInv'
    BY <1>0, <1>3 DEF NetInv, mscan!EnableInterrupt, Procs, Bhs
  <2>2. chip' = [chip EXCEPT !.ier = @ \cup {chip.sel}]
    BY <1>3 DEF mscan!EnableInterrupt
  <2>3. chip' \in MscanChip /\ chip'.buf = chip.buf
    BY <1>0, <2>2 DEF MscanInv, MscanChip
  <2>4. Room' <=> Room
    BY <2>3 DEF Room, mscan!Empty
  <2>5. MscanInv'
    BY <1>0, <1>3, <2>3, <2>4 DEF MscanInv, mscan!EnableInterrupt
  <2> QED BY <1>3, <2>1, <2>5, MscanKeeps DEF mscan!EnableInterrupt
<1>4. CASE mscan!mscan_tx_timeout
  <2>1. NetInv'
    BY <1>0, <1>4 DEF NetInv, mscan!mscan_tx_timeout, Procs, Bhs
  <2>2. MscanInv'
    BY <1>0, <1>4 DEF MscanInv, mscan!mscan_tx_timeout, mscan!WatchdogDue
  <2> QED BY <1>4, <2>1, <2>2, MscanKeeps DEF mscan!mscan_tx_timeout
<1> QED BY <1>1, <1>2, <1>3, <1>4 DEF mscan!BottomHalf

LEMMA MscanInterrupt ==
  ASSUME IInv, Mscan, mscan!mscan_interrupt
  PROVE  IInv'
<1>0. NetInv /\ MscanInv
  BY DEF IInv
<1>1. /\ UNCHANGED <<setup, proc, bh, given, lost>>
      /\ stopped' = (stopped /\ ~Room)
      /\ chip' = [chip EXCEPT !.ier = IF Room THEN {} ELSE @, !.rx = FALSE]
      /\ early' = (early \/ (bh # "idle" /\ Room))
  BY DEF mscan!mscan_interrupt, Room
<1>2. NetInv'
  BY <1>0, <1>1 DEF NetInv
<1>3. chip' \in MscanChip /\ chip'.buf = chip.buf
  BY <1>0, <1>1 DEF MscanInv, MscanChip
<1>4. Room' <=> Room
  BY <1>3 DEF Room, mscan!Empty
<1>5. MscanInv'
  BY <1>0, <1>1, <1>3, <1>4 DEF MscanInv
<1> QED BY <1>1, <1>2, <1>5, MscanKeeps

LEMMA MscanController ==
  ASSUME IInv, Mscan, mscan!Controller
  PROVE  IInv'
<1>0. NetInv /\ MscanInv
  BY DEF IInv
<1>1. UNCHANGED <<setup, proc, bh, stopped, given, lost, early>>
  BY DEF mscan!Controller, mscan!Transmitted, mscan!Received, mscan!BusSteady
<1>2. NetInv'
  BY <1>0, <1>1 DEF NetInv
<1>3. chip' \in MscanChip /\ (Room => Room')
  <2>1. CASE mscan!Transmitted
    <3>1. PICK b : chip' = [chip EXCEPT !.buf[b] = 0]
      BY <2>1 DEF mscan!Transmitted
    <3>2. chip' \in MscanChip
      BY <1>0, <3>1 DEF MscanInv, MscanChip
    <3>3. \A c \in mscan!Buffers : chip.buf[c] = 0 => chip'.buf[c] = 0
      BY <1>0, <3>1 DEF MscanInv, MscanChip
    <3> QED BY <3>2, <3>3 DEF Room, mscan!Empty
  <2>2. CASE mscan!Received
    <3>1. chip' = [chip EXCEPT !.rx = TRUE]
      BY <2>2 DEF mscan!Received
    <3>2. chip' \in MscanChip /\ chip'.buf = chip.buf
      BY <1>0, <3>1 DEF MscanInv, MscanChip
    <3> QED BY <3>2 DEF Room, mscan!Empty
  <2> QED BY <2>1, <2>2 DEF mscan!Controller
<1>4. MscanInv'
  BY <1>0, <1>1, <1>3 DEF MscanInv
<1> QED BY <1>1, <1>2, <1>4, MscanKeeps

LEMMA MscanProcess ==
  ASSUME IInv, Mscan, mscan!Process
  PROVE  IInv'
<1> USE DEF mscan!InProcess
<1>0. NetInv /\ MscanInv
  BY DEF IInv
<1>1. bh = "idle" /\ UNCHANGED <<setup, bh, given, lost, early>>
  BY DEF mscan!Process, mscan!mscan_open, mscan!Opened, mscan!mscan_close, mscan!Closed
<1>2. NetInv'
  BY <1>0, <1>1 DEF NetInv, mscan!Process, mscan!mscan_open, mscan!Opened,
                    mscan!mscan_close, mscan!Closed, Procs, Bhs
<1>3. CASE mscan!Opened
  <2>1. UNCHANGED chip
    BY <1>3 DEF mscan!Opened
  <2>2. Room /\ (Room' <=> Room)
    BY <1>0, <1>3, <2>1 DEF mscan!Opened, MscanInv, Room, mscan!Empty
  <2>3. MscanInv'
    BY <1>0, <1>1, <2>1, <2>2 DEF MscanInv
  <2> QED BY <1>1, <1>2, <2>3, MscanKeeps
<1>4. CASE mscan!mscan_open \/ mscan!mscan_close \/ mscan!Closed
  <2>1. chip' \in MscanChip /\ \A b \in mscan!Buffers : chip'.buf[b] = 0
    <3>1. mscan!Off \in MscanChip /\ \A b \in mscan!Buffers : mscan!Off.buf[b] = 0
      BY DEF MscanChip, mscan!Off, mscan!Buffers
    <3>2. CASE mscan!mscan_open
      <4>1. CASE chip' = [mscan!Off EXCEPT !.on = TRUE, !.ier = mscan!Buffers]
        BY <3>1, <4>1 DEF MscanChip
      <4>2. CASE chip' = [mscan!Off EXCEPT !.on = TRUE]
        BY <3>1, <4>2 DEF MscanChip
      <4> QED BY <3>2, <4>1, <4>2 DEF mscan!mscan_open
    <3>3. CASE mscan!mscan_close
      <4>1. chip' = [chip EXCEPT !.buf = [b \in mscan!Buffers |-> 0]]
        BY <3>3 DEF mscan!mscan_close
      <4> QED BY <1>0, <4>1 DEF MscanInv, MscanChip
    <3>4. CASE mscan!Closed
      BY <3>4 DEF MscanChip, mscan!Closed, mscan!Off, mscan!Buffers
    <3> QED BY <1>4, <3>2, <3>3, <3>4
  <2>2. Room'
    BY <2>1 DEF Room, mscan!Empty, mscan!Buffers
  <2>3. MscanInv'
    BY <1>0, <1>1, <2>1, <2>2 DEF MscanInv
  <2> QED BY <1>1, <1>2, <2>3, MscanKeeps
<1> QED BY <1>3, <1>4 DEF mscan!Process

----------------------------------------------------------------------------
(* The theorem.                                                            *)

LEMMA StepIInv == IInv /\ [Next]_driverVars => IInv'
<1> SUFFICES ASSUME IInv, [Next]_driverVars PROVE IInv'
  OBVIOUS
<1>1. CASE SjaStep
  BY <1>1, SjaBottomHalf, SjaInterrupt, SjaController, SjaProcess DEF SjaStep, sja1000!Next
<1>2. CASE MscanStep
  BY <1>2, MscanBottomHalf, MscanInterrupt, MscanController, MscanProcess
     DEF MscanStep, mscan!Next
<1>3. CASE UNCHANGED driverVars
  <2>1. UNCHANGED <<setup, proc, bh, stopped, given, lost, chip, early>>
    BY <1>3 DEF driverVars, netVars
  <2> QED BY <2>1 DEF IInv, NetInv, SjaInv, MscanInv, Sja, Mscan, Room, mscan!Empty
<1> QED BY <1>1, <1>2, <1>3 DEF Next

\* No frame is given to a controller that has no room for it (can_start_xmit(),
\* mscan_start_xmit()), however interrupts, the watchdog, the restart timer, open
\* and close come between stopping the queue and writing the registers; but for an
\* MSCAN whose queue was woken early.  For any numbers of frames and faults.
THEOREM RoomForEachFrame == Spec => []NoFrameLost
<1>1. IInv => NoFrameLost
  BY DEF IInv, SjaInv, MscanInv, NoFrameLost, Sja, Mscan
<1> QED BY <1>1, InitIInv, StepIInv, PTL DEF Spec

----------------------------------------------------------------------------
(* The bit timing registers.                                               *)

\* The two set_baud() (set_baud in sja1000.c and mscan.c) cut the segments to the
\* width of their registers: whatever the sample point from 67 percent on and
\* whatever number of quanta the search comes up with, both segments fit, and what
\* is cut from one is added to the other, so that the bus runs at the rate that
\* the search has found.
THEOREM SegmentsFit ==
  ASSUME NEW tseg \in 2 .. MAX_TSEG1 + MAX_TSEG2 + 2, NEW percent \in 67 .. 100
  PROVE  LET split == Split(tseg, percent)
         IN  /\ split.tseg1 \in 0 .. MAX_TSEG1 /\ split.tseg2 \in 0 .. MAX_TSEG2
             /\ \A clock \in Nat, brp \in 0 .. 63 :
                   Rate([brp |-> brp, split |-> split], clock)
                      = clock \div ((brp + 1) * (1 + tseg))
<1> DEFINE before == (percent * (tseg + 1)) \div 100
           wanted == tseg - before
           tseg2 == IF wanted < 0 THEN 0 ELSE IF wanted > MAX_TSEG2 THEN MAX_TSEG2 ELSE wanted
           tseg1 == tseg - tseg2 - 2
           split == Split(tseg, percent)
<1>1. before \in Int /\ before >= 2
  <2> DEFINE product == percent * (tseg + 1)
  <2>1. product \in Int /\ product >= 201
    <3>1. percent >= 67 /\ tseg + 1 >= 3 /\ percent \in Int /\ tseg \in Int
      BY DEF MAX_TSEG1, MAX_TSEG2
    <3>2. percent * (tseg + 1) >= 67 * (tseg + 1)
      BY <3>1
    <3> QED BY <3>1, <3>2
  <2> HIDE DEF product
  <2>2. product \div 100 \in Int /\ product \div 100 >= 2
    BY <2>1
  <2> QED BY <2>2 DEF product
<1>2. tseg \in Int /\ tseg >= 2 /\ tseg <= 24
  BY DEF MAX_TSEG1, MAX_TSEG2
<1>3. split = IF tseg1 > MAX_TSEG1
              THEN [tseg1 |-> MAX_TSEG1, tseg2 |-> tseg - MAX_TSEG1 - 2]
              ELSE [tseg1 |-> tseg1, tseg2 |-> tseg2]
  BY DEF Split
<1>4. tseg2 \in 0 .. MAX_TSEG2 /\ tseg1 \in 0 .. 22 /\ tseg1 + tseg2 + 2 = tseg
  <2> HIDE DEF before
  <2> QED BY <1>1, <1>2 DEF MAX_TSEG2
<1> HIDE DEF tseg1, tseg2, split
<1>5. /\ split.tseg1 \in 0 .. MAX_TSEG1 /\ split.tseg2 \in 0 .. MAX_TSEG2
      /\ split.tseg1 + split.tseg2 + 2 = tseg
  <2>1. CASE tseg1 > MAX_TSEG1
    BY <1>2, <1>3, <1>4, <2>1 DEF MAX_TSEG1, MAX_TSEG2
  <2>2. CASE ~(tseg1 > MAX_TSEG1)
    BY <1>3, <1>4, <2>2 DEF MAX_TSEG1, MAX_TSEG2
  <2> QED BY <2>1, <2>2
<1>6. 3 + split.tseg1 + split.tseg2 = 1 + tseg
  BY <1>2, <1>5 DEF MAX_TSEG1, MAX_TSEG2
<1>7. ASSUME NEW clock \in Nat, NEW brp \in 0 .. 63
      PROVE  Rate([brp |-> brp, split |-> split], clock) = clock \div ((brp + 1) * (1 + tseg))
  BY <1>6, Zenon DEF Rate
<1> QED BY <1>5, <1>7 DEF split
=============================================================================
