------------------------------- MODULE BcmRx -------------------------------
(***************************************************************************)
(* A receive operation of the broadcast manager (bcm.c): a content filter  *)
(* that reports changes (RX_CHANGED), throttles the reports and watches    *)
(* for the frames to stay away (RX_TIMEOUT).                               *)
(*                                                                         *)
(* Time passes in ticks (jiffies).  A timer is the number of ticks that    *)
(* are left, so there is no bound on time.  What the filter mask keeps of  *)
(* a frame (and its length, with RX_CHECK_DLC) is a value; an element is   *)
(* the index of the frame the multiplex mask selects.                      *)
(***************************************************************************)
EXTENDS Integers

CONSTANTS
  Frames,       \* numbers of frames in an RX_SETUP: 0 is RX_FILTER_ID, 1 the
                \* simple filter, more the multiplex filter
  FlagSets,     \* flags of an RX_SETUP, the timer flags apart
  TimerFlags,   \* timer flags of an RX_SETUP
  Values,       \* relevant contents of a frame, by element
  Ival1s,       \* timeouts an application sets (0 is off)
  Ival2s,       \* throttle intervals an application sets (0 is off)
  MaxUpdates    \* bound: RX_SETUPs of one operation after the first; failing ones
                \* come before the last of them

\* Beyond the longest interval ages are not told apart.
Longest(S) == CHOOSE m \in S : \A i \in S : i <= m
Cap1 == Longest(Ival1s)
Cap2 == Longest(Ival2s)

ASSUME ParmAssumption ==
  /\ Frames \subseteq Nat /\ Ival1s \subseteq Nat /\ Ival2s \subseteq Nat
  /\ FlagSets \subseteq SUBSET {"RX_ANNOUNCE_RESUME", "RX_NO_AUTOTIMER", "RX_RTR_FRAME"}
  /\ TimerFlags \subseteq SUBSET {"SETTIMER", "STARTTIMER"}
  /\ 0 \in Ival1s \cap Ival2s /\ MaxUpdates \in Nat /\ Cap1 \in Nat /\ Cap2 \in Nat
  /\ \A ival \in Ival1s : ival <= Cap1
  /\ \A ival \in Ival2s : ival <= Cap2

VARIABLES
  op,           \* the operation exists
  nframes, flags,
  ival1, ival2, \* j_ival1, j_ival2
  last,         \* last_frames: content and the flags kept in can_dlc
  since,        \* jiffies - j_lastmsg, up to Cap2
  expires,      \* thrtimer.expires is not 0
  thrtimer,     \* ticks to go, Off when not pending
  timer,        \* ticks to go, Off when not pending
  updates,      \* bound: RX_SETUPs of this operation after the first
  garbled,      \* op->frames holds what kmalloc() returned
  call, msg,    \* how far bcm_sendmsg() is with an RX_SETUP for this operation
  newest,       \* history: last content received, by element
  reported,     \* history: last content the user was told, by element
  lost,         \* history: elements whose content has been cleared unsent, or not
                \* been compared with anything
  stuck,        \* history: RX_RTR_FRAME stopped a running throttle timer
  freed,        \* history: RX_SETUP has shortened the throttle timer
  crowded,      \* history: a report came too early
  armed,        \* history: the ticks timer was started with
  quiet,        \* history: ticks since the last frame, up to Cap1
  premature     \* history: RX_TIMEOUT came too early

program == <<garbled, call, msg>>
setup   == <<op, nframes, flags, ival1, ival2, updates, program>>
told    == <<reported, since, crowded>>
silence == <<timer, armed, quiet, premature>>
vars == <<setup, last, expires, thrtimer, silence, newest, told, lost, stuck, freed>>

Off == -1
None == "none"
Elements == {0} \cup UNION {0 .. n - 1 : n \in Frames}
Contents == {None} \cup UNION {Values[i] : i \in Elements}

NoMsg == [nframes |-> 0, flags |-> {}, timers |-> {}, ival1 |-> 0, ival2 |-> 0]
Nothing == [val |-> None, recv |-> FALSE, thr |-> FALSE]

\* memset(last_frames, 0, n * sizeof(struct can_frame))
Cleared(n) == [i \in Elements |-> IF i < n THEN Nothing ELSE last[i]]

\* The elements the handlers look at: with MUX index 0 is the mask.
Visited(n) == IF n > 1 THEN 1 .. (n - 1) ELSE {0}

Unsent == {i \in Elements : newest[i] # reported[i]}

\* What the application and the history know of a new operation.
Blank ==
  /\ last' = [i \in Elements |-> Nothing]
  /\ newest' = [i \in Elements |-> None] /\ reported' = [i \in Elements |-> None]
  /\ lost' = {} /\ stuck' = FALSE /\ freed' = FALSE
  /\ since' = Cap2 /\ expires' = FALSE /\ thrtimer' = Off
  /\ garbled' = FALSE

Init ==
  /\ op = FALSE /\ nframes = 0 /\ flags = {} /\ ival1 = 0 /\ ival2 = 0 /\ updates = 0
  /\ garbled = FALSE /\ call = "none" /\ msg = NoMsg
  /\ last = [i \in Elements |-> Nothing] /\ expires = FALSE /\ thrtimer = Off
  /\ timer = Off /\ armed = 0 /\ quiet = Cap1 /\ premature = FALSE
  /\ newest = [i \in Elements |-> None] /\ reported = [i \in Elements |-> None]
  /\ since = Cap2 /\ crowded = FALSE /\ lost = {} /\ stuck = FALSE /\ freed = FALSE

----------------------------------------------------------------------------
(* RX_SETUP and RX_DELETE.                                                 *)

Requests == [nframes : Frames \cup {0}, flags : FlagSets \cup {{}}, timers : TimerFlags \cup {{}},
             ival1 : Ival1s, ival2 : Ival2s]

\* RX_RTR_FRAME is refused unless there is one frame, and knows no timers; the
\* intervals count with SETTIMER only.
Setups == {m \in [nframes : Frames, flags : FlagSets, timers : TimerFlags,
                  ival1 : Ival1s, ival2 : Ival2s] :
             /\ "RX_RTR_FRAME" \in m.flags => m.nframes = 1 /\ m.timers = {}
             /\ "SETTIMER" \notin m.timers => m.ival1 = 0 /\ m.ival2 = 0}

RtrFlag(f) == "RX_RTR_FRAME" \in f
SetsTimes(m, f) == "SETTIMER" \in m.timers /\ ~RtrFlag(f)
StartsTimer(m, f, ival) == "STARTTIMER" \in m.timers /\ ~RtrFlag(f) /\ ival # 0

StopTimer == timer' = Off /\ armed' = 0 /\ UNCHANGED <<quiet, premature>>

\* RX_SETUP for a can_id without an operation: frames come after it.
RxSetupNew(m) ==
  LET ival == IF SetsTimes(m, m.flags) THEN m.ival1 ELSE ival1
      starts == StartsTimer(m, m.flags, ival)
  IN
  /\ ~op /\ op' = TRUE
  /\ nframes' = m.nframes /\ flags' = m.flags /\ ival1' = ival
  /\ ival2' = IF SetsTimes(m, m.flags) THEN m.ival2 ELSE ival2
  /\ timer' = IF starts THEN ival ELSE Off
  /\ armed' = IF starts THEN ival ELSE 0
  /\ Blank
  /\ updates' = 0
  /\ UNCHANGED <<call, msg, quiet, premature, crowded>>

\* What bcm_sendmsg() still needs of the message m at a place.
Rest(m, place) ==
  LET Until(places, x, none) == IF place \in places THEN x ELSE none
  IN  [nframes |-> Until({"filter"}, m.nframes, 0),
       flags   |-> Until({"filter", "flags"}, m.flags, {}),
       ival1   |-> Until({"filter", "flags", "times"}, m.ival1, 0),
       ival2   |-> Until({"filter", "flags", "times"}, m.ival2, 0),
       timers  |-> Until({"filter", "flags", "times", "unblock"}, m.timers, {})]
Goes(place) == call' = place /\ msg' = Rest(msg, place)

\* RX_SETUP for an operation that exists goes on while its frames come and its
\* timers run: nothing keeps them out.  First what was received is cleared.
RxSetupClear(m) ==
  /\ op /\ call = "none" /\ call' = "filter" /\ msg' = Rest(m, "filter")
  /\ updates < MaxUpdates /\ updates' = updates + 1
  /\ last' = Cleared(m.nframes)
  /\ lost' = lost \cup {i \in Unsent : i < m.nframes}
  /\ UNCHANGED <<op, garbled, nframes, flags, ival1, ival2, expires, thrtimer, silence, newest,
                 told, stuck, freed>>

\* The new op->frames has been allocated, but there is no memory for the new
\* last_frames: the old number of frames is looked for in what has no content.
RxSetupNoMemory(m) ==
  /\ op /\ call = "none" /\ updates < MaxUpdates
  /\ m.nframes > nframes /\ nframes > 0
  /\ garbled' = TRUE
  /\ UNCHANGED <<op, nframes, flags, ival1, ival2, updates, call, msg, last, expires,
                 thrtimer, silence, newest, told, lost, stuck, freed>>

RxSetupFilter ==
  /\ call = "filter" /\ Goes("flags")
  /\ nframes' = msg.nframes /\ garbled' = FALSE
  /\ lost' = lost \cup {i \in Unsent : i \notin Visited(msg.nframes)}
  /\ UNCHANGED <<op, flags, ival1, ival2, updates, last, expires, thrtimer, silence,
                 newest, told, stuck, freed>>

RxSetupFlags ==
  /\ call = "flags"
  /\ Goes(IF RtrFlag(msg.flags) \/ SetsTimes(msg, msg.flags) THEN "times"
          ELSE IF StartsTimer(msg, msg.flags, ival1) THEN "stop" ELSE "none")
  /\ flags' = msg.flags
  /\ UNCHANGED <<op, garbled, nframes, ival1, ival2, updates, last, expires, thrtimer,
                 silence, newest, told, lost, stuck, freed>>

\* "no timers in RTR-mode"
RxSetupNoTimers ==
  /\ call = "times" /\ RtrFlag(flags) /\ Goes("none")
  /\ thrtimer' = Off /\ stuck' = expires
  /\ StopTimer
  /\ UNCHANGED <<op, garbled, nframes, flags, ival1, ival2, updates, last, expires, newest,
                 told, lost, freed>>

\* SETTIMER: the intervals, and "running throttle timer?"
RxSetupTimes ==
  /\ call = "times" /\ ~RtrFlag(flags)
  /\ Goes(IF expires THEN "unblock"
          ELSE IF StartsTimer(msg, flags, msg.ival1) THEN "stop" ELSE "none")
  /\ ival1' = msg.ival1 /\ ival2' = msg.ival2
  /\ IF msg.ival1 = 0 THEN StopTimer ELSE UNCHANGED silence
  /\ freed' = (freed \/ expires)
  /\ UNCHANGED <<op, garbled, nframes, flags, updates, last, expires, thrtimer, newest, told,
                 lost, stuck>>

\* Mutant: the throttle timer is stopped, not set anew.
UnblockForgotten == thrtimer' = Off /\ UNCHANGED <<expires, stuck, freed>>

\* "send blocked msgs hereafter": two ticks later.  The throttle timer may have
\* run since it was looked at; it runs once more then.
Unblock == thrtimer' = 2 /\ expires' = TRUE /\ stuck' = FALSE /\ freed' = TRUE

RxSetupUnblock ==
  /\ call = "unblock" /\ Goes(IF StartsTimer(msg, flags, ival1) THEN "stop" ELSE "none")
  /\ Unblock
  /\ UNCHANGED <<op, garbled, nframes, flags, ival1, ival2, updates, last, silence, newest,
                 told, lost>>

\* STARTTIMER: del_timer() ...
RxSetupStop ==
  /\ call = "stop" /\ Goes("start")
  /\ StopTimer
  /\ UNCHANGED <<op, garbled, nframes, flags, ival1, ival2, updates, last, expires, thrtimer,
                 newest, told, lost, stuck, freed>>

\* ... and add_timer(), of a timer that a frame has started again (the kernel
\* then reports "timer added twice" and leaves it as it is) or of none.
RxSetupStart ==
  /\ call = "start" /\ Goes("none")
  /\ timer' = IF timer = Off THEN ival1 ELSE timer
  /\ armed' = ival1
  /\ UNCHANGED <<op, garbled, nframes, flags, ival1, ival2, updates, last, expires, thrtimer,
                 quiet, premature, newest, told, lost, stuck, freed>>

RxSetupStep ==
  \/ RxSetupFilter \/ RxSetupFlags \/ RxSetupNoTimers \/ RxSetupTimes
  \/ RxSetupUnblock \/ RxSetupStop \/ RxSetupStart

\* RX_DELETE, or the socket is closed; one process uses the socket.
RxDelete ==
  /\ op /\ op' = FALSE /\ call = "none"
  /\ nframes' = 0 /\ flags' = {} /\ ival1' = 0 /\ ival2' = 0
  /\ StopTimer
  /\ Blank
  /\ updates' = 0
  /\ UNCHANGED <<call, msg, crowded>>

----------------------------------------------------------------------------
(* Frames.                                                                 *)

\* Mutant: nobody looks at the time of the last report.
MustWaitUntimed == expires

\* bcm_rx_update_and_send(): somebody else is waiting, or it is too early.
MustWait == expires \/ (ival2 # 0 /\ since < ival2)

\* What is left of ival2 since the last report (nexttx).
ThrottleDelay == ival2 - since

Throttled(i, v) == [last EXCEPT ![i] = [val |-> v, recv |-> TRUE, thr |-> TRUE]]

\* bcm_rx_changed() for the elements in sent, whose contents are in l.
RxChanged(sent, l) ==
  /\ reported' = [i \in Elements |-> IF i \in sent THEN l[i].val ELSE reported[i]]
  /\ since' = 0
  /\ crowded' = (crowded \/ (since < ival2 /\ ~freed))

UpdateAndSend(i, v) ==
  \/ /\ MustWait
     /\ last' = Throttled(i, v)
     /\ expires' = TRUE
     /\ thrtimer' = IF expires THEN thrtimer ELSE ThrottleDelay
     /\ UNCHANGED told
  \/ /\ ~MustWait
     /\ last' = [last EXCEPT ![i] = [val |-> v, recv |-> TRUE, thr |-> FALSE]]
     /\ RxChanged({i}, last')
     /\ UNCHANGED <<expires, thrtimer>>

\* bcm_rx_cmp_to_index(): the first frame, or a relevant change.
IsRelevant(i, v) == nframes = 0 \/ ~last[i].recv \/ last[i].val # v

Relevant(i, v) == IF garbled /\ last[i].recv THEN BOOLEAN ELSE {IsRelevant(i, v)}

Restarts == "RX_NO_AUTOTIMER" \notin flags /\ ival1 # 0

\* Mutant: a timer that runs is not stopped.
RestartIdleTimer == timer' = IF Restarts /\ timer = Off THEN ival1 ELSE timer

\* bcm_rx_starttimer(), after bcm_rx_handler() has stopped the timer.
RestartTimer == timer' = IF Restarts THEN ival1 ELSE Off

FrameSeen ==
  /\ RestartTimer
  /\ armed' = IF Restarts THEN ival1 ELSE 0
  /\ quiet' = 0
  /\ UNCHANGED premature

\* bcm_rx_handler(): a frame whose multiplex index is i.
RxFrame(i, v) ==
  /\ op /\ "RX_RTR_FRAME" \notin flags
  /\ i \in Visited(nframes)
  /\ FrameSeen
  /\ newest' = [newest EXCEPT ![i] = v]
  /\ \E relevant \in Relevant(i, v) :
       IF relevant THEN UpdateAndSend(i, v) /\ lost' = lost \ {i}
       ELSE /\ lost' = IF garbled THEN lost \cup {i} ELSE lost \ {i}
            /\ UNCHANGED <<last, expires, thrtimer, told>>
  /\ UNCHANGED <<setup, stuck, freed>>

\* bcm_rx_handler(): no multiplex index fits.
RxUnmatched ==
  /\ op /\ nframes > 1
  /\ FrameSeen
  /\ UNCHANGED <<setup, last, expires, thrtimer, newest, told, lost, stuck, freed>>

\* bcm_rx_handler() with RX_RTR_FRAME: answer, and leave the timer stopped.
RxRtr ==
  /\ op /\ "RX_RTR_FRAME" \in flags
  /\ timer' = Off /\ armed' = 0 /\ quiet' = 0
  /\ UNCHANGED <<setup, last, expires, thrtimer, premature, newest, told,
                 lost, stuck, freed>>

----------------------------------------------------------------------------
(* Timers.                                                                 *)

\* Mutant: the flags are cleared, the elements are not sent.
HeldBackNone == {}

\* The elements that are marked as throttled.
HeldBack == {i \in Visited(nframes) : last[i].thr}

\* The throttle timer has run out and is marked as disabled.
ThrTimerConsumed == thrtimer' = Off /\ expires' = FALSE

\* bcm_rx_thr_handler()
RxThrHandler ==
  /\ thrtimer = 0
  /\ ThrTimerConsumed
  /\ last' = [i \in Elements |->
                IF i \in Visited(nframes) THEN [last[i] EXCEPT !.thr = FALSE] ELSE last[i]]
  /\ IF HeldBack # {} THEN RxChanged(HeldBack, last) ELSE UNCHANGED told
  /\ lost' = lost \ {i \in HeldBack : last[i].val = newest[i]}
  /\ freed' = FALSE
  /\ UNCHANGED <<setup, silence, newest, stuck>>

\* bcm_rx_timeout_handler(); the timer is not started again.
RxTimeoutHandler ==
  /\ timer = 0
  /\ timer' = Off /\ armed' = 0
  /\ premature' = (premature \/ quiet < armed)
  /\ IF "RX_ANNOUNCE_RESUME" \in flags
     THEN last' = Cleared(nframes) /\ lost' = lost \cup {i \in Unsent : i < nframes}
     ELSE UNCHANGED <<last, lost>>
  /\ UNCHANGED <<setup, expires, thrtimer, quiet, newest, told, stuck, freed>>

Later(t) == IF t = Off THEN Off ELSE t - 1
Older(t, cap) == IF t < cap THEN t + 1 ELSE t

\* A jiffy passes; timers that are due run first.
Tick ==
  /\ timer # 0 /\ thrtimer # 0
  /\ timer' = Later(timer) /\ thrtimer' = Later(thrtimer)
  /\ since' = Older(since, Cap2) /\ quiet' = Older(quiet, Cap1)
  /\ UNCHANGED <<setup, last, expires, armed, premature, newest, reported, crowded,
                 lost, stuck, freed>>

Next ==
  \/ (\E m \in Setups : RxSetupNew(m) \/ RxSetupClear(m) \/ RxSetupNoMemory(m)) \/ RxSetupStep \/ RxDelete
  \/ (\E i \in Elements : \E v \in Values[i] : RxFrame(i, v)) \/ RxUnmatched \/ RxRtr
  \/ RxThrHandler \/ RxTimeoutHandler \/ Tick

Spec == Init /\ [][Next]_vars

\* Time goes on, timers that are due run, and bcm_sendmsg() gets through.
FairSpec == Spec /\ WF_vars(RxSetupStep) /\ WF_vars(RxThrHandler) /\ WF_vars(RxTimeoutHandler) /\ WF_vars(Tick)

----------------------------------------------------------------------------
(* Properties.                                                             *)

\* Every variable has its type; no timer runs longer than it was set to.
TypeOK ==
  /\ op \in BOOLEAN /\ nframes \in Frames \cup {0} /\ flags \in FlagSets \cup {{}}
  /\ ival1 \in Ival1s \cup {0} /\ ival2 \in Ival2s \cup {0}
  /\ updates \in 0 .. MaxUpdates /\ msg \in Requests /\ garbled \in BOOLEAN
  /\ call \in {"none", "filter", "flags", "times", "unblock", "stop", "start"}
  /\ last \in [Elements -> [val : Contents, recv : BOOLEAN, thr : BOOLEAN]]
  /\ expires \in BOOLEAN /\ thrtimer \in {Off, 2} \cup 0 .. Cap2
  /\ timer \in {Off} \cup 0 .. Cap1 /\ armed \in 0 .. Cap1
  /\ quiet \in 0 .. Cap1 /\ since \in 0 .. Cap2
  /\ newest \in [Elements -> Contents]
  /\ reported \in [Elements -> Contents]
  /\ lost \subseteq Elements
  /\ {stuck, freed, crowded, premature} \subseteq BOOLEAN

\* RX_THR says "this element has not been sent due to throttle
\* functionality": what the user does not know yet is marked and will be
\* looked at by bcm_rx_thr_handler(), unless RX_SETUP or the timeout cleared
\* the content together with its mark.
ThrMarksUnsent ==
  \A i \in Unsent : (last[i].thr /\ i \in Visited(nframes)) \/ i \in lost

\* thrtimer.expires, which is tested to see a "running throttle timer", says
\* whether the throttle timer runs, unless RX_RTR_FRAME stopped it.
ExpiresMeansRunning == (expires <=> thrtimer # Off) \/ stuck

\* The fields of a bcm_op agree with each other, after every frame, timer and
\* RX_SETUP in whatever order: types, marks of what is unsent, running timers.
Consistent == TypeOK /\ ThrMarksUnsent /\ ExpiresMeansRunning

\* Reports of one operation are ival2 apart, however the frames come, but for
\* those that an RX_SETUP lets out at once (bcm_rx_update_and_send; the
\* reports of one run of the throttle timer count as one).
ThrottleRespected == ~crowded

\* RX_TIMEOUT is sent only when no frame came for as long as the timer was
\* set to, whichever frames and RX_SETUPs came before (bcm_rx_handler).
TimeoutMeansSilence == ~premature

\* Throttling delays a report and never loses one: the user learns the last
\* content, unless the operation is deleted first, its content cleared or its
\* timer stopped by RX_RTR_FRAME.
NoChangeLost ==
  \A i \in Elements : []<>(i \notin Unsent \/ i \in lost \/ stuck)
=============================================================================
