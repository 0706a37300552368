------------------------------- MODULE BcmTx -------------------------------
(***************************************************************************)
(* A cyclic transmission of the broadcast manager (bcm.c): TX_SETUP gives  *)
(* the frames, the intervals and a count; the timer then sends a frame     *)
(* count times after ival1 and from there on after ival2.                  *)
(*                                                                         *)
(* TX_SETUP runs in a process without a lock, and kmalloc() and            *)
(* memcpy_fromiovec() may sleep in it: the timer handler, a softirq, may   *)
(* run between any two of its assignments.                                 *)
(***************************************************************************)
EXTENDS Integers

CONSTANTS
  MaxFrames,   \* bound: frames of one operation
  Counts,      \* counts an application sets
  Ivals,       \* which of ival1, ival2 it sets: subsets of {"ival1", "ival2"}
  Flags,       \* flags of a TX_SETUP
  MaxSetups    \* bound: TX_SETUPs of one operation after the first

FlagNames == {"SETTIMER", "STARTTIMER", "TX_COUNTEVT", "TX_ANNOUNCE", "TX_RESET_MULTI_IDX"}

ASSUME ParmAssumption ==
  /\ MaxFrames \in Nat \ {0} /\ MaxSetups \in Nat
  /\ Counts \subseteq Nat /\ Ivals \subseteq SUBSET {"ival1", "ival2"}
  /\ Flags \subseteq SUBSET FlagNames

VARIABLES
  op,            \* the operation exists
  nframes, currframe,
  allocated,     \* number of frames that op->frames has room for
  filled,        \* indices of op->frames that hold a frame of the user
  countevt,      \* flag TX_COUNTEVT of op->flags
  count,
  ivals,         \* which of j_ival1, j_ival2 are not 0
  timer,         \* what it was started with; "old": before the last SETTIMER
  pc, msg, i,    \* where TX_SETUP is, its message and loop variable
  setups,        \* bound: TX_SETUPs of this operation after the first
  wanted,        \* history: the count of the last SETTIMER
  periods,       \* history: times ival1 has passed since
  sent,          \* history: frames sent since, up to wanted
  expired,       \* history: TX_EXPIRED sent since
  outOfRange,    \* history: a frame beyond op->frames was sent
  garbage,       \* history: a frame the user did not give was sent
  met,           \* history: the timer expired within a TX_SETUP, or ran on from
                 \* an earlier one
  noskb          \* history: alloc_skb() failed

frameVars == <<nframes, currframe, allocated, filled>>
history == <<wanted, periods, expired, met>>
onWire == <<sent, outOfRange, garbage, noskb>>
vars == <<op, frameVars, countevt, count, ivals, timer, pc, msg, i, setups, history, onWire>>

NoMsg == [nframes |-> 0, flags |-> {}, count |-> 0, ivals |-> {}]

\* The operation that memset() leaves, or none.
Blank ==
  /\ countevt' = FALSE /\ count' = 0 /\ ivals' = {} /\ timer' = "off"
  /\ currframe' = 0 /\ i' = 0 /\ setups' = 0
  /\ wanted' = 0 /\ periods' = 0 /\ expired' = 0
  /\ sent' = 0 /\ outOfRange' = FALSE /\ garbage' = FALSE /\ met' = FALSE /\ noskb' = FALSE

Init ==
  /\ op = FALSE /\ nframes = 0 /\ currframe = 0 /\ allocated = 0 /\ filled = {}
  /\ countevt = FALSE /\ count = 0 /\ ivals = {} /\ timer = "off"
  /\ pc = "user" /\ msg = NoMsg /\ i = 0 /\ setups = 0
  /\ wanted = 0 /\ periods = 0 /\ expired = 0
  /\ sent = 0 /\ outOfRange = FALSE /\ garbage = FALSE /\ met = FALSE /\ noskb = FALSE

----------------------------------------------------------------------------
(* bcm_can_tx(): the frame that goes out, and the next index.              *)

SendFrame ==
  /\ sent' = IF sent < wanted THEN sent + 1 ELSE sent
  /\ outOfRange' = (outOfRange \/ currframe >= allocated)
  /\ garbage' = (garbage \/ currframe \in 0 .. (allocated - 1) \ filled)
  /\ UNCHANGED noskb

\* Without an skb bcm_can_tx() returns at once.
NoSkb == noskb' = TRUE /\ UNCHANGED <<sent, outOfRange, garbage>>

\* Mutant: one frame too late.
ReachedLastLate(c) == c > nframes

ReachedLast(c) == c >= nframes

\* bcm_can_tx() in the softirq.
CanTx ==
  \/ /\ SendFrame
     /\ currframe' = IF ReachedLast(currframe + 1) THEN 0 ELSE currframe + 1
  \/ NoSkb /\ UNCHANGED currframe

----------------------------------------------------------------------------
(* bcm_tx_timeout_handler()                                                *)

\* The first stage runs.
FirstStage == "ival1" \in ivals /\ count > 0

\* Mutant: the stage that is over is reported each time.
ReportsAgain(left) == left = 0 /\ countevt

\* The first stage ends here and the user wants to know.
Reports(left) == FirstStage /\ left = 0 /\ countevt

\* Mutant: the last period of ival1 is not started.
RestartOnceLess(left) ==
  IF "ival1" \in ivals /\ left > 1 THEN "ival1"
  ELSE IF "ival2" \in ivals THEN "ival2" ELSE "off"

\* The interval that comes next, when left periods of ival1 are left.
Restart(left) ==
  IF "ival1" \in ivals /\ left > 0 THEN "ival1"
  ELSE IF "ival2" \in ivals THEN "ival2" ELSE "off"

TimeoutHandler ==
  LET left == IF FirstStage THEN count - 1 ELSE count IN
  /\ timer # "off"
  /\ count' = left
  /\ met' = (met \/ pc # "user" \/ timer = "old")
  /\ expired' = IF Reports(left) THEN expired + 1 ELSE expired
  /\ periods' = IF timer = "ival1" THEN periods + 1 ELSE periods
  /\ timer' = Restart(left)
  /\ IF timer' # "off" THEN CanTx ELSE UNCHANGED <<onWire, currframe>>
  /\ UNCHANGED <<op, nframes, allocated, filled, countevt, ivals, pc, msg, i, setups, wanted>>

----------------------------------------------------------------------------
(* TX_SETUP, a step for each assignment the handler may see.               *)

Messages ==
  [nframes : 1 .. MaxFrames, flags : Flags, count : Counts, ivals : Ivals]

\* The operation is new: its timer does not run yet, so that everything up
\* to the timer values is one step.
SetupNew ==
  /\ pc = "user" /\ ~op
  /\ op' = TRUE
  /\ msg' \in Messages
  /\ nframes' = msg'.nframes /\ allocated' = msg'.nframes
  /\ filled' = 0 .. (msg'.nframes - 1)
  /\ pc' = "flags"
  /\ Blank

SetupUpdate ==
  /\ pc = "user" /\ op /\ setups < MaxSetups
  /\ setups' = setups + 1
  /\ msg' \in Messages
  /\ i' = 0
  /\ pc' = IF msg'.nframes > nframes THEN "array" ELSE "copy"
  /\ UNCHANGED <<op, frameVars, countevt, count, ivals, timer, history, onWire>>

\* kfree(op->frames), op->frames = p
NewArray ==
  /\ pc = "array"
  /\ allocated' = msg.nframes /\ filled' = {}
  /\ pc' = "copy"
  /\ UNCHANGED <<op, nframes, currframe, countevt, count, ivals, timer, msg, i, setups,
                 history, onWire>>

\* kmalloc() failed: -ENOMEM, and the operation goes on as it was.
NoMemory ==
  /\ pc = "array"
  /\ pc' = "user" /\ msg' = NoMsg
  /\ UNCHANGED <<op, frameVars, countevt, count, ivals, timer, i, setups, history, onWire>>

Copies == i < msg.nframes

\* memcpy_fromiovec() of one frame, or the end of the loop.
CopyFrame ==
  /\ pc = "copy"
  /\ IF Copies THEN filled' = filled \cup {i} /\ i' = i + 1 /\ UNCHANGED pc
               ELSE pc' = "nframes" /\ UNCHANGED <<filled, i>>
  /\ UNCHANGED <<op, nframes, currframe, allocated, countevt, count, ivals, timer, msg,
                 setups, history, onWire>>

\* op->nframes = msg_head.nframes
SetNframes ==
  /\ pc = "nframes"
  /\ nframes' = msg.nframes
  /\ pc' = IF nframes = msg.nframes THEN "flags" ELSE "rewind"
  /\ UNCHANGED <<op, currframe, allocated, filled, countevt, count, ivals, timer, msg, i,
                 setups, history, onWire>>

\* op->currframe = 0
Rewind ==
  /\ pc = "rewind"
  /\ currframe' = 0
  /\ pc' = "flags"
  /\ UNCHANGED <<op, nframes, allocated, filled, countevt, count, ivals, timer, msg, i,
                 setups, history, onWire>>

SetFlags ==
  /\ pc = "flags"
  /\ countevt' = ("TX_COUNTEVT" \in msg.flags)
  /\ currframe' = IF "TX_RESET_MULTI_IDX" \in msg.flags THEN 0 ELSE currframe
  /\ pc' = IF "SETTIMER" \in msg.flags THEN "count" ELSE "check"
  /\ UNCHANGED <<op, nframes, allocated, filled, count, ivals, timer, msg, i, setups,
                 history, onWire>>

\* SETTIMER: op->count = msg_head.count
SetCount ==
  /\ pc = "count"
  /\ count' = msg.count /\ wanted' = msg.count
  /\ periods' = 0 /\ sent' = 0 /\ expired' = 0
  /\ timer' = IF timer = "off" THEN "off" ELSE "old"
  /\ pc' = "ivals"
  /\ UNCHANGED <<op, frameVars, countevt, ivals, msg, i, setups, outOfRange, garbage, met, noskb>>

\* SETTIMER: the intervals; no interval stops the timer.
SetIvals ==
  /\ pc = "ivals"
  /\ ivals' = msg.ivals
  /\ timer' = IF msg.ivals = {} THEN "off" ELSE timer
  /\ pc' = "check"
  /\ UNCHANGED <<op, frameVars, countevt, count, msg, i, setups, history, onWire>>

\* Mutant: the frame is not sent when the timer is started.
AnnouncesIfAsked(starts) == "TX_ANNOUNCE" \in msg.flags

\* "spec: send can_frame when starting timer"
Announces(starts) == starts \/ "TX_ANNOUNCE" \in msg.flags

\* STARTTIMER, and there is something to time.
Starts ==
  /\ "STARTTIMER" \in msg.flags
  /\ ("ival1" \in ivals /\ count # 0) \/ "ival2" \in ivals

Check ==
  /\ pc = "check"
  /\ pc' = IF Starts THEN "start" ELSE IF Announces(FALSE) THEN "send" ELSE "user"
  /\ UNCHANGED <<op, frameVars, countevt, count, ivals, timer, msg, i, setups, history, onWire>>

\* del_timer(), then add_timer() with the interval of the stage.
StartTimer ==
  /\ pc = "start"
  /\ timer' = IF FirstStage THEN "ival1" ELSE "ival2"
  /\ pc' = IF Announces(TRUE) THEN "send" ELSE "user"
  /\ UNCHANGED <<op, frameVars, countevt, count, ivals, msg, i, setups, history, onWire>>

\* bcm_can_tx() in the process: send ...
Announce ==
  /\ pc = "send"
  /\ \/ SendFrame /\ pc' = "step"
     \/ NoSkb /\ pc' = "user"
  /\ UNCHANGED <<op, frameVars, countevt, count, ivals, timer, msg, i, setups, history>>

\* ... op->currframe++ ...
StepIndex ==
  /\ pc = "step"
  /\ currframe' = currframe + 1
  /\ pc' = "wrap"
  /\ UNCHANGED <<op, nframes, allocated, filled, countevt, count, ivals, timer, msg, i,
                 setups, history, onWire>>

\* ... and start again after the last frame.
WrapIndex ==
  /\ pc = "wrap"
  /\ currframe' = IF ReachedLast(currframe) THEN 0 ELSE currframe
  /\ pc' = "user"
  /\ UNCHANGED <<op, nframes, allocated, filled, countevt, count, ivals, timer, msg, i,
                 setups, history, onWire>>

TxSetup ==
  \/ NewArray \/ NoMemory \/ CopyFrame \/ SetNframes \/ Rewind \/ SetFlags \/ SetCount \/ SetIvals
  \/ Check \/ StartTimer \/ Announce \/ StepIndex \/ WrapIndex

\* TX_DELETE, or the socket is closed.
TxDelete ==
  /\ pc = "user" /\ op
  /\ op' = FALSE
  /\ nframes' = 0 /\ allocated' = 0 /\ filled' = {}
  /\ msg' = NoMsg
  /\ UNCHANGED pc
  /\ Blank

Next == SetupNew \/ SetupUpdate \/ TxSetup \/ TxDelete \/ TimeoutHandler

Spec == Init /\ [][Next]_vars

\* A TX_SETUP that began ends, and a pending timer expires.
FairSpec == Spec /\ WF_vars(TxSetup) /\ WF_vars(TimeoutHandler)

----------------------------------------------------------------------------
(* Properties.                                                             *)

\* Every variable has its type; count never gets negative, wherever a
\* TX_SETUP meets the timer.
TypeOK ==
  /\ op \in BOOLEAN /\ nframes \in 0 .. MaxFrames /\ currframe \in Nat
  /\ allocated \in nframes .. MaxFrames /\ filled \subseteq 0 .. (allocated - 1)
  /\ countevt \in BOOLEAN /\ count \in Nat /\ ivals \subseteq {"ival1", "ival2"}
  /\ timer \in {"off", "ival1", "ival2", "old"}
  /\ pc \in {"user", "array", "copy", "nframes", "rewind", "flags", "count", "ivals",
             "check", "start", "send", "step", "wrap"}
  /\ msg \in Messages \cup {NoMsg} /\ i \in 0 .. MaxFrames
  /\ setups \in 0 .. MaxSetups
  /\ wanted \in Nat /\ periods \in Nat /\ sent \in Nat /\ expired \in Nat
  /\ {outOfRange, garbage, met, noskb} \subseteq BOOLEAN

\* However TX_SETUP and the timer meet, count stays a number of periods and the
\* end of the first stage is reported at most once for a count that was set
\* (bcm_tx_timeout_handler).
ExpiredOnce == TypeOK /\ expired <= 1

\* bcm.h: "run 'count' times ival1 then ival2".  Every period that is counted
\* is a period of the ival1 that was set with the count, unless the timer
\* expires while TX_SETUP assigns.
CountedPeriods == met \/ count + periods = wanted

\* TX_EXPIRED tells that the frames are out: count frames were sent since the
\* count was set, the first one when the timer was started, in as many periods.
ExpiredMeansSent == CountedPeriods /\ ((expired > 0 /\ ~met /\ ~noskb) => sent = wanted)

\* The frame that is sent is one of op->frames and holds what a TX_SETUP gave,
\* of the old or the new message (bcm_can_tx, "update can_frames content"),
\* unless it is sent while TX_SETUP copies or both step currframe together.
SentAsGiven == met \/ ~(outOfRange \/ garbage)

\* A first stage that was started comes to its end, unless it is set up
\* anew without ival1 or deleted.
FirstStageEnds ==
  (timer # "off" /\ FirstStage) ~> (count = 0 \/ "ival1" \notin ivals)
=============================================================================
