---------------------------- MODULE BcmRx_proofs ----------------------------
(***************************************************************************)
(* What BcmRx promises, for any filters, flags, contents, intervals and    *)
(* number of RX_SETUPs.                                                    *)
(***************************************************************************)
EXTENDS BcmRx, TLAPS

----------------------------------------------------------------------------
(* The inductive invariant.                                                *)

LastFrame == [val : Contents, recv : BOOLEAN, thr : BOOLEAN]

SetupTypes ==
  /\ op \in BOOLEAN /\ nframes \in Frames \cup {0} /\ flags \in FlagSets \cup {{}}
  /\ ival1 \in Ival1s /\ ival2 \in Ival2s
  /\ updates \in 0 .. MaxUpdates /\ msg \in Requests /\ garbled \in BOOLEAN
  /\ call \in {"none", "filter", "flags", "times", "unblock", "stop", "start"}

ContentTypes ==
  /\ last \in [Elements -> LastFrame]
  /\ newest \in [Elements -> Contents] /\ reported \in [Elements -> Contents]
  /\ lost \subseteq Elements

TimerTypes ==
  /\ expires \in BOOLEAN /\ thrtimer \in {Off, 2} \cup 0 .. Cap2
  /\ timer \in {Off} \cup 0 .. Cap1 /\ armed \in 0 .. Cap1
  /\ quiet \in 0 .. Cap1 /\ since \in 0 .. Cap2
  /\ stuck \in BOOLEAN /\ freed \in BOOLEAN /\ crowded \in BOOLEAN /\ premature \in BOOLEAN

TypeInv == SetupTypes /\ ContentTypes /\ TimerTypes

\* RX_SETUP works on an operation that exists, and finds a throttle timer only
\* where throttling is possible.
CallInv ==
  /\ call # "none" => op
  /\ expires \/ call = "unblock" => Cap2 > 0

\* The throttle timer runs only while thrtimer.expires is set, and not before
\* ival2 has passed since the last report, unless RX_SETUP has shortened it.
ThrottleInv ==
  /\ thrtimer # Off => expires
  /\ ExpiresMeansRunning
  /\ thrtimer # Off => (freed \/ since + thrtimer >= ival2)
  /\ ThrottleRespected

\* The timeout does not run out before the frames have been away for as long as
\* it was started with; one that a frame starts between del_timer() and
\* add_timer() of STARTTIMER is started with the same interval.
SilenceInv ==
  /\ timer # Off => quiet + timer >= armed
  /\ (call = "start" /\ timer # Off) => armed = ival1
  /\ TimeoutMeansSilence

\* last_frames holds the last content of a frame that was received and is not
\* lost; it has been reported unless it is marked.
ContentInv ==
  /\ \A i \in Elements :
       /\ last[i].thr => last[i].recv
       /\ last[i].recv => (last[i].val = newest[i] \/ i \in lost)
       /\ last[i].recv => (last[i].val = reported[i] \/ last[i].thr)
  /\ ThrMarksUnsent

IInv == TypeInv /\ CallInv /\ ThrottleInv /\ SilenceInv /\ ContentInv

----------------------------------------------------------------------------
(* Types.                                                                  *)

\* What a message of an application is: Rest() leaves one that asks for less.
LEMMA RequestTypes ==
  /\ Setups \subseteq Requests /\ NoMsg \in Requests
  /\ \A m \in Requests : \A place : Rest(m, place) \in Requests
<1>1. Setups \subseteq Requests
  BY DEF Setups, Requests
<1>2. NoMsg \in Requests
  BY ParmAssumption DEF NoMsg, Requests
<1>3. ASSUME NEW m \in Requests, NEW place
      PROVE  Rest(m, place) \in Requests
  BY ParmAssumption DEF Rest, Requests
<1> QED BY <1>1, <1>2, <1>3

\* What an entry of last_frames may be, and what is stored of a frame.
LEMMA FrameTypes ==
  /\ None \in Contents /\ \A i \in Elements : Values[i] \subseteq Contents
  /\ Nothing \in LastFrame
  /\ \A v \in Contents : \A thr \in BOOLEAN : [val |-> v, recv |-> TRUE, thr |-> thr] \in LastFrame
<1>1. None \in Contents /\ \A i \in Elements : Values[i] \subseteq Contents
  BY DEF Contents
<1>2. Nothing \in LastFrame
  BY <1>1 DEF Nothing, LastFrame
<1>3. \A v \in Contents : \A thr \in BOOLEAN : [val |-> v, recv |-> TRUE, thr |-> thr] \in LastFrame
  BY DEF LastFrame
<1> QED BY <1>1, <1>2, <1>3

\* memset() leaves entries, those of the first n elements empty.
LEMMA ClearedTypes ==
  ASSUME last \in [Elements -> LastFrame], NEW n
  PROVE  Cleared(n) \in [Elements -> LastFrame]
BY FrameTypes DEF Cleared

\* The elements that have been reported or not are the ones there are.
LEMMA ElementFacts ==
  /\ 0 \in Elements /\ Unsent \subseteq Elements
  /\ \A n : {i \in Elements : i < n} \subseteq Elements
BY DEF Elements, Unsent

\* A new operation has received nothing and told nothing.
LEMMA BlankTypes == Blank => ContentTypes'
<1> SUFFICES ASSUME Blank PROVE ContentTypes'
  OBVIOUS
<1>1. last' \in [Elements -> LastFrame]
  BY FrameTypes DEF Blank
<1>2. newest' \in [Elements -> Contents] /\ reported' \in [Elements -> Contents] /\ lost' \subseteq Elements
  BY FrameTypes DEF Blank
<1> QED BY <1>1, <1>2 DEF ContentTypes

\* At the beginning there is no operation, and nothing has been received.
LEMMA TypeInit == Init => TypeInv
<1> SUFFICES ASSUME Init PROVE TypeInv
  OBVIOUS
<1>1. SetupTypes
  <2>1. 0 \in Ival1s /\ 0 \in Ival2s /\ 0 \in 0 .. MaxUpdates
    BY ParmAssumption
  <2> QED BY <2>1, RequestTypes DEF Init, SetupTypes
<1>2. ContentTypes
  <2>1. last \in [Elements -> LastFrame]
    BY FrameTypes DEF Init
  <2>2. newest \in [Elements -> Contents] /\ reported \in [Elements -> Contents] /\ lost \subseteq Elements
    BY FrameTypes DEF Init
  <2> QED BY <2>1, <2>2 DEF ContentTypes
<1>3. TimerTypes
  <2>1. Cap1 \in 0 .. Cap1 /\ 0 \in 0 .. Cap1 /\ Cap2 \in 0 .. Cap2
    BY ParmAssumption
  <2> QED BY <2>1 DEF Init, TimerTypes, Off
<1> QED BY <1>1, <1>2, <1>3 DEF TypeInv

\* RX_SETUP assigns what a message may ask for.
LEMMA SetupTypesStep == SetupTypes /\ [Next]_vars => SetupTypes'
<1> SUFFICES ASSUME SetupTypes, [Next]_vars PROVE SetupTypes'
  OBVIOUS
<1>1. ASSUME NEW m \in Setups, RxSetupNew(m)
      PROVE  SetupTypes'
  <2>1. /\ m.nframes \in Frames /\ m.flags \in FlagSets
        /\ m.ival1 \in Ival1s /\ m.ival2 \in Ival2s
    BY DEF Setups
  <2>2. 0 \in 0 .. MaxUpdates
    BY ParmAssumption
  <2>3. ival1' \in Ival1s /\ ival2' \in Ival2s
    BY <1>1, <2>1 DEF RxSetupNew, SetupTypes
  <2> QED BY <1>1, <2>1, <2>2, <2>3 DEF RxSetupNew, Blank, SetupTypes
<1>2. ASSUME NEW m \in Setups, RxSetupClear(m)
      PROVE  SetupTypes'
  <2>1. Rest(m, "filter") \in Requests
    BY RequestTypes
  <2> QED BY <1>2, <2>1, ParmAssumption DEF RxSetupClear, SetupTypes
<1>3. ASSUME NEW m \in Setups, RxSetupNoMemory(m)
      PROVE  SetupTypes'
  BY <1>3 DEF RxSetupNoMemory, SetupTypes
<1>4. CASE RxSetupStep
  <2>1. \A place : Rest(msg, place) \in Requests
    BY RequestTypes DEF SetupTypes
  <2>2. /\ msg.nframes \in Frames \cup {0} /\ msg.flags \in FlagSets \cup {{}}
        /\ msg.ival1 \in Ival1s /\ msg.ival2 \in Ival2s
    BY DEF SetupTypes, Requests
  <2>3. CASE RxSetupFilter
    BY <2>1, <2>2, <2>3 DEF RxSetupFilter, Goes, SetupTypes
  <2>4. CASE RxSetupFlags
    BY <2>1, <2>2, <2>4 DEF RxSetupFlags, Goes, SetupTypes
  <2>5. CASE RxSetupNoTimers
    BY <2>1, <2>5 DEF RxSetupNoTimers, Goes, SetupTypes
  <2>6. CASE RxSetupTimes
    BY <2>1, <2>2, <2>6 DEF RxSetupTimes, Goes, SetupTypes
  <2>7. CASE RxSetupUnblock
    BY <2>1, <2>7 DEF RxSetupUnblock, Goes, SetupTypes
  <2>8. CASE RxSetupStop
    BY <2>1, <2>8 DEF RxSetupStop, Goes, SetupTypes
  <2>9. CASE RxSetupStart
    BY <2>1, <2>9 DEF RxSetupStart, Goes, SetupTypes
  <2> QED
    BY <1>4, <2>3, <2>4, <2>5, <2>6, <2>7, <2>8, <2>9 DEF RxSetupStep
<1>5. CASE RxDelete
  <2>1. 0 \in Ival1s /\ 0 \in Ival2s /\ 0 \in 0 .. MaxUpdates
    BY ParmAssumption
  <2> QED BY <1>5, <2>1 DEF RxDelete, Blank, SetupTypes
<1>6. ASSUME NEW i \in Elements, NEW v \in Values[i], RxFrame(i, v)
      PROVE  SetupTypes'
  BY <1>6 DEF RxFrame, setup, program, SetupTypes
<1>7. CASE RxUnmatched \/ RxRtr \/ RxThrHandler \/ RxTimeoutHandler \/ Tick \/ UNCHANGED vars
  BY <1>7 DEF RxUnmatched, RxRtr, RxThrHandler, RxTimeoutHandler, Tick, vars, setup, program, SetupTypes
<1> QED
  BY <1>1, <1>2, <1>3, <1>4, <1>5, <1>6, <1>7 DEF Next

\* What is stored and reported are contents of frames.
LEMMA ContentTypesStep == ContentTypes /\ [Next]_vars => ContentTypes'
<1> SUFFICES ASSUME ContentTypes, [Next]_vars PROVE ContentTypes'
  OBVIOUS
<1>1. \A n : Cleared(n) \in [Elements -> LastFrame]
  BY ClearedTypes DEF ContentTypes
<1>2. CASE \E m \in Setups : RxSetupNew(m) \/ RxSetupNoMemory(m)
  <2>1. CASE \E m \in Setups : RxSetupNew(m)
    BY <2>1, BlankTypes DEF RxSetupNew
  <2>2. CASE \E m \in Setups : RxSetupNoMemory(m)
    BY <2>2 DEF RxSetupNoMemory, ContentTypes, told
  <2> QED BY <1>2, <2>1, <2>2
<1>3. ASSUME NEW m \in Setups, RxSetupClear(m)
      PROVE  ContentTypes'
  BY <1>1, <1>3, ElementFacts DEF RxSetupClear, ContentTypes, told
<1>4. CASE RxSetupStep
  BY <1>4, ElementFacts DEF RxSetupStep, RxSetupFilter, RxSetupFlags, RxSetupNoTimers, RxSetupTimes,
     RxSetupUnblock, RxSetupStop, RxSetupStart, ContentTypes, told
<1>5. CASE RxDelete
  BY <1>5, BlankTypes DEF RxDelete
<1>6. ASSUME NEW i \in Elements, NEW v \in Values[i], RxFrame(i, v)
      PROVE  ContentTypes'
  <2>1. v \in Contents
    BY FrameTypes
  <2>2. newest' \in [Elements -> Contents] /\ lost' \subseteq Elements
    BY <1>6, <2>1 DEF RxFrame, ContentTypes
  <2>3. last' \in [Elements -> LastFrame]
    <3>1. \A thr \in BOOLEAN :
            [last EXCEPT ![i] = [val |-> v, recv |-> TRUE, thr |-> thr]] \in [Elements -> LastFrame]
      BY <2>1, FrameTypes DEF ContentTypes
    <3>2. last' = last \/ \E thr \in BOOLEAN : last' = [last EXCEPT ![i] = [val |-> v, recv |-> TRUE, thr |-> thr]]
      BY <1>6 DEF RxFrame, UpdateAndSend, Throttled
    <3> QED BY <3>1, <3>2 DEF ContentTypes
  <2>4. reported' \in [Elements -> Contents]
    BY <1>6, <2>3 DEF RxFrame, UpdateAndSend, RxChanged, told, ContentTypes, LastFrame
  <2> QED BY <2>2, <2>3, <2>4 DEF ContentTypes
<1>7. CASE RxThrHandler
  <2>1. last' \in [Elements -> LastFrame] /\ lost' \subseteq Elements /\ newest' = newest
    BY <1>7 DEF RxThrHandler, ContentTypes, LastFrame
  <2>2. reported' \in [Elements -> Contents]
    BY <1>7 DEF RxThrHandler, RxChanged, told, ContentTypes, LastFrame
  <2> QED BY <2>1, <2>2 DEF ContentTypes
<1>8. CASE RxTimeoutHandler
  BY <1>1, <1>8, ElementFacts DEF RxTimeoutHandler, ContentTypes, told
<1>9. CASE RxUnmatched \/ RxRtr \/ Tick \/ UNCHANGED vars
  BY <1>9 DEF RxUnmatched, RxRtr, Tick, vars, told, ContentTypes
<1> QED
  BY <1>2, <1>3, <1>4, <1>5, <1>6, <1>7, <1>8, <1>9 DEF Next
----------------------------------------------------------------------------
(* The timers.                                                             *)

\* No interval is longer than the longest.
LEMMA IvalFacts ==
  /\ Cap1 \in Nat /\ Cap2 \in Nat
  /\ \A ival \in Ival1s : ival \in Nat /\ ival <= Cap1
  /\ \A ival \in Ival2s : ival \in Nat /\ ival <= Cap2
BY ParmAssumption

\* The intervals of an operation and of a message.
LEMMA IvalTypes ==
  ASSUME SetupTypes
  PROVE  /\ ival1 \in Nat /\ ival1 <= Cap1 /\ ival2 \in Nat /\ ival2 <= Cap2
         /\ msg.ival1 \in Nat /\ msg.ival1 <= Cap1 /\ msg.ival2 \in Nat /\ msg.ival2 <= Cap2
BY IvalFacts DEF SetupTypes, Requests

\* What a report does to the time of the last one.
LEMMA ReportTimes ==
  ASSUME TimerTypes, NEW sent, NEW l, RxChanged(sent, l)
  PROVE  since' = 0 /\ crowded' \in BOOLEAN /\ (crowded' => crowded \/ (since < ival2 /\ ~freed))
<1>1. since' = 0 /\ crowded' = (crowded \/ (since < ival2 /\ ~freed))
  BY Zenon DEF RxChanged
<1>2. (crowded \/ (since < ival2 /\ ~freed)) \in BOOLEAN
  BY Zenon
<1>3. crowded' \in BOOLEAN
  BY <1>1, <1>2, Zenon
<1>4. crowded' => crowded \/ (since < ival2 /\ ~freed)
  BY <1>1, Zenon
<1> QED BY <1>1, <1>3, <1>4

\* What bcm_rx_handler() does with the times of a report: one that comes too
\* early is delayed, one that does not is sent, or there is nothing to report.
Delays ==
  /\ MustWait /\ expires' = TRUE
  /\ expires => thrtimer' = thrtimer
  /\ ~expires => thrtimer' = ThrottleDelay
  /\ since' = since /\ crowded' = crowded
Reports ==
  /\ ~MustWait /\ expires' = expires /\ thrtimer' = thrtimer
  /\ since' = 0 /\ crowded' \in BOOLEAN /\ (crowded' => crowded \/ (since < ival2 /\ ~freed))
Skips ==
  expires' = expires /\ thrtimer' = thrtimer /\ since' = since /\ crowded' = crowded

\* bcm_rx_update_and_send() either reports at once or leaves it to the throttle timer.
LEMMA UpdateCases ==
  ASSUME TimerTypes, NEW i, NEW v, UpdateAndSend(i, v)
  PROVE  Delays \/ Reports
<1>1. CASE MustWait /\ expires' = TRUE /\ thrtimer' = (IF expires THEN thrtimer ELSE ThrottleDelay) /\ UNCHANGED told
  BY <1>1, Zenon DEF told, Delays
<1>2. CASE ~MustWait /\ RxChanged({i}, last') /\ UNCHANGED <<expires, thrtimer>>
  BY <1>2, ReportTimes, Zenon DEF Reports
<1> QED BY <1>1, <1>2, Zenon DEF UpdateAndSend

\* A frame delays a report, makes one, or leaves everything about the throttle alone.
LEMMA FrameTimes ==
  ASSUME TimerTypes, NEW i, NEW v, RxFrame(i, v)
  PROVE  Delays \/ Reports \/ Skips
<1>1. PICK relevant \in Relevant(i, v) :
        IF relevant THEN UpdateAndSend(i, v) /\ lost' = lost \ {i}
        ELSE /\ lost' = IF garbled THEN lost \cup {i} ELSE lost \ {i}
             /\ UNCHANGED <<last, expires, thrtimer, told>>
  BY Zenon DEF RxFrame
<1>2. CASE relevant
  BY <1>1, <1>2, UpdateCases, Zenon
<1>3. CASE ~relevant
  BY <1>1, <1>3, Zenon DEF told, Skips
<1> QED BY <1>2, <1>3

\* Timers are set to an interval, to what is left of one, or to two ticks.
LEMMA TimerTypesStep ==
  SetupTypes /\ TimerTypes /\ CallInv /\ ThrottleInv /\ [Next]_vars => TimerTypes'
<1> SUFFICES ASSUME SetupTypes, TimerTypes, CallInv, ThrottleInv, [Next]_vars PROVE TimerTypes'
  OBVIOUS
<1>a. /\ Cap1 \in Nat /\ Cap2 \in Nat
      /\ ival1 \in Nat /\ ival1 <= Cap1 /\ ival2 \in Nat /\ ival2 <= Cap2
  BY IvalFacts, IvalTypes
<1>1. ASSUME NEW m \in Setups, RxSetupNew(m)
      PROVE  TimerTypes'
  <2>1. m.ival1 \in Nat /\ m.ival1 <= Cap1
    BY IvalFacts DEF Setups
  <2>2. timer' \in {Off} \cup 0 .. Cap1 /\ armed' \in 0 .. Cap1
    BY <1>1, <1>a, <2>1 DEF RxSetupNew
  <2>3. expires' = FALSE /\ thrtimer' = Off /\ since' = Cap2 /\ stuck' = FALSE /\ freed' = FALSE
    BY <1>1 DEF RxSetupNew, Blank
  <2>4. expires' \in BOOLEAN /\ stuck' \in BOOLEAN /\ freed' \in BOOLEAN
    BY <2>3
  <2>5. crowded' \in BOOLEAN /\ premature' \in BOOLEAN /\ quiet' \in 0 .. Cap1
    BY <1>1 DEF RxSetupNew, TimerTypes
  <2>6. since' \in 0 .. Cap2 /\ thrtimer' \in {Off, 2} \cup 0 .. Cap2
    BY <2>3, <1>a
  <2> QED BY <2>2, <2>4, <2>5, <2>6 DEF TimerTypes
<1>2. CASE \E m \in Setups : RxSetupClear(m) \/ RxSetupNoMemory(m)
  BY <1>2 DEF RxSetupClear, RxSetupNoMemory, silence, told, TimerTypes
<1>3. CASE RxSetupStep
  <2>1. CASE RxSetupFilter \/ RxSetupFlags
    BY <2>1 DEF RxSetupFilter, RxSetupFlags, silence, told, TimerTypes
  <2>2. CASE RxSetupNoTimers \/ RxSetupTimes \/ RxSetupStop
    BY <2>2, <1>a DEF RxSetupNoTimers, RxSetupTimes, RxSetupStop, StopTimer, silence, told, TimerTypes, Off
  <2>3. CASE RxSetupUnblock
    BY <2>3 DEF RxSetupUnblock, Unblock, silence, told, TimerTypes
  <2>4. CASE RxSetupStart
    BY <2>4, <1>a DEF RxSetupStart, told, TimerTypes, Off
  <2> QED BY <1>3, <2>1, <2>2, <2>3, <2>4 DEF RxSetupStep
<1>4. CASE RxDelete
  <2>1. expires' = FALSE /\ thrtimer' = Off /\ since' = Cap2 /\ stuck' = FALSE /\ freed' = FALSE
    BY <1>4 DEF RxDelete, Blank
  <2>2. expires' \in BOOLEAN /\ stuck' \in BOOLEAN /\ freed' \in BOOLEAN
    BY <2>1
  <2>3. /\ timer' = Off /\ armed' = 0
        /\ crowded' \in BOOLEAN /\ premature' \in BOOLEAN /\ quiet' \in 0 .. Cap1
    BY <1>4 DEF RxDelete, StopTimer, TimerTypes
  <2>4. since' \in 0 .. Cap2 /\ thrtimer' \in {Off, 2} \cup 0 .. Cap2 /\ armed' \in 0 .. Cap1
    BY <2>1, <2>3, <1>a
  <2> QED BY <2>2, <2>3, <2>4 DEF TimerTypes
<1>5. ASSUME NEW i \in Elements, NEW v \in Values[i], RxFrame(i, v)
      PROVE  TimerTypes'
  <2>1. /\ timer' \in {Off} \cup 0 .. Cap1 /\ armed' \in 0 .. Cap1
        /\ quiet' \in 0 .. Cap1 /\ premature' \in BOOLEAN
    BY <1>5, <1>a DEF RxFrame, FrameSeen, RestartTimer, TimerTypes, Off
  <2>0. Delays \/ Reports \/ Skips
    BY <1>5, FrameTimes
  <2>2. /\ expires' \in BOOLEAN /\ since' \in 0 .. Cap2 /\ crowded' \in BOOLEAN
        /\ stuck' \in BOOLEAN /\ freed' \in BOOLEAN
    <3>1. stuck' = stuck /\ freed' = freed
      BY <1>5 DEF RxFrame
    <3>2. expires' \in BOOLEAN /\ crowded' \in BOOLEAN
      BY <2>0, Zenon DEF Delays, Reports, Skips, TimerTypes
    <3>3. since' \in 0 .. Cap2
      BY <2>0, <1>a DEF Delays, Reports, Skips, TimerTypes
    <3> QED BY <3>1, <3>2, <3>3 DEF TimerTypes
  <2>3. thrtimer' \in {Off, 2} \cup 0 .. Cap2
    BY <2>0, <1>a DEF Delays, Reports, Skips, MustWait, ThrottleDelay, TimerTypes
  <2> QED BY <2>1, <2>2, <2>3 DEF TimerTypes
<1>6. CASE RxUnmatched \/ RxRtr \/ RxThrHandler \/ RxTimeoutHandler
  <2>1. CASE RxUnmatched
    BY <2>1, <1>a DEF RxUnmatched, FrameSeen, RestartTimer, told, TimerTypes, Off
  <2>2. CASE RxRtr
    BY <2>2, <1>a DEF RxRtr, told, TimerTypes, Off
  <2>3. CASE RxThrHandler
    <3>1. since' \in 0 .. Cap2 /\ crowded' \in BOOLEAN
      <4>1. CASE RxChanged(HeldBack, last)
        BY <4>1, <1>a, ReportTimes
      <4>2. CASE UNCHANGED told
        BY <4>2, <1>a DEF told, TimerTypes
      <4> QED BY <2>3, <4>1, <4>2 DEF RxThrHandler
    <3> QED BY <2>3, <3>1 DEF RxThrHandler, ThrTimerConsumed, silence, TimerTypes
  <2>4. CASE RxTimeoutHandler
    BY <2>4, <1>a DEF RxTimeoutHandler, told, TimerTypes, Off
  <2> QED BY <1>6, <2>1, <2>2, <2>3, <2>4
<1>7. CASE Tick
  <2>1. thrtimer' \in {Off, 2} \cup 0 .. Cap2
    BY <1>7, <1>a DEF Tick, Later, TimerTypes, CallInv, ThrottleInv, Off
  <2>2. timer' \in {Off} \cup 0 .. Cap1 /\ quiet' \in 0 .. Cap1 /\ since' \in 0 .. Cap2
    BY <1>7, <1>a DEF Tick, Later, Older, TimerTypes, Off
  <2> QED BY <1>7, <2>1, <2>2 DEF Tick, TimerTypes
<1>8. CASE UNCHANGED vars
  BY <1>8 DEF vars, silence, told, TimerTypes
<1> QED
  BY <1>1, <1>2, <1>3, <1>4, <1>5, <1>6, <1>7, <1>8 DEF Next

\* A message is worked on for an operation that exists; no report is held back
\* where there has never been a throttle interval.
LEMMA CallStep == TypeInv /\ CallInv /\ [Next]_vars => CallInv'
<1> SUFFICES ASSUME TypeInv, CallInv, [Next]_vars PROVE CallInv'
  OBVIOUS
<1>a. Cap2 \in Nat /\ ival2 \in Nat /\ ival2 <= Cap2
  BY IvalFacts, IvalTypes DEF TypeInv
<1>b. Cap2' = Cap2
  OBVIOUS
<1>1. CASE \E m \in Setups : RxSetupNew(m)
  BY <1>1 DEF RxSetupNew, Blank, CallInv
<1>2. CASE \E m \in Setups : RxSetupClear(m) \/ RxSetupNoMemory(m)
  BY <1>2 DEF RxSetupClear, RxSetupNoMemory, CallInv
<1>3. CASE RxSetupStep
  BY <1>3 DEF RxSetupStep, RxSetupFilter, RxSetupFlags, RxSetupNoTimers, RxSetupTimes, RxSetupUnblock,
     RxSetupStop, RxSetupStart, Goes, Unblock, CallInv
<1>4. CASE RxDelete
  BY <1>4 DEF RxDelete, Blank, CallInv
<1>5. ASSUME NEW i \in Elements, NEW v \in Values[i], RxFrame(i, v)
      PROVE  CallInv'
  <2>1. op' = op /\ call' = call
    BY <1>5 DEF RxFrame, setup, program
  <2>0. Delays \/ Reports \/ Skips
    BY <1>5, FrameTimes DEF TypeInv
  <2>2. Cap2 > 0 \/ expires \/ expires' = expires
    BY <2>0, <1>a DEF TypeInv, TimerTypes, Delays, Reports, Skips, MustWait
  <2>3. expires' \/ call' = "unblock" => Cap2 > 0
    BY <2>1, <2>2, Zenon DEF CallInv
  <2> QED BY <2>1, <2>3 DEF CallInv
<1>6. CASE RxUnmatched \/ RxRtr \/ RxThrHandler \/ RxTimeoutHandler \/ Tick \/ UNCHANGED vars
  BY <1>6 DEF RxUnmatched, RxRtr, RxThrHandler, ThrTimerConsumed, RxTimeoutHandler, Tick, vars, setup,
     program, CallInv
<1> QED
  BY <1>1, <1>2, <1>3, <1>4, <1>5, <1>6 DEF Next
\* Nothing that RX_SETUP does to the throttle timer lets a report out early,
\* unless the application asks for it; frames and the timer look at the time.
LEMMA ThrottleStep == TypeInv /\ CallInv /\ ThrottleInv /\ [Next]_vars => ThrottleInv'
<1> SUFFICES ASSUME TypeInv, CallInv, ThrottleInv, [Next]_vars PROVE ThrottleInv'
  OBVIOUS
<1> USE DEF ThrottleRespected, ExpiresMeansRunning
<1>a. /\ Cap2 \in Nat /\ ival2 \in Nat /\ ival2 <= Cap2
      /\ since \in 0 .. Cap2 /\ thrtimer \in {Off, 2} \cup 0 .. Cap2
  BY IvalFacts, IvalTypes DEF TypeInv, TimerTypes
<1>1. CASE \E m \in Setups : RxSetupNew(m)
  BY <1>1 DEF RxSetupNew, Blank, ThrottleInv
<1>2. CASE \E m \in Setups : RxSetupClear(m) \/ RxSetupNoMemory(m)
  BY <1>2 DEF RxSetupClear, RxSetupNoMemory, told, ThrottleInv
<1>3. CASE RxSetupStep
  <2>1. CASE RxSetupFilter \/ RxSetupFlags \/ RxSetupStop \/ RxSetupStart
    BY <2>1 DEF RxSetupFilter, RxSetupFlags, RxSetupStop, RxSetupStart, told, ThrottleInv
  <2>2. CASE RxSetupNoTimers
    BY <2>2 DEF RxSetupNoTimers, told, ThrottleInv
  <2>3. CASE RxSetupTimes
    BY <2>3 DEF RxSetupTimes, told, ThrottleInv
  <2>4. CASE RxSetupUnblock
    BY <2>4 DEF RxSetupUnblock, Unblock, told, ThrottleInv, Off
  <2> QED BY <1>3, <2>1, <2>2, <2>3, <2>4 DEF RxSetupStep
<1>4. CASE RxDelete
  BY <1>4 DEF RxDelete, Blank, ThrottleInv
<1>5. ASSUME NEW i \in Elements, NEW v \in Values[i], RxFrame(i, v)
      PROVE  ThrottleInv'
  <2>1. ival2' = ival2 /\ stuck' = stuck /\ freed' = freed
    BY <1>5 DEF RxFrame, setup
  <2>2. CASE Delays
    <3>1. CASE expires
      BY <2>1, <2>2, <3>1 DEF Delays, ThrottleInv
    <3>2. CASE ~expires
      <4>1. ival2 # 0 /\ since < ival2 /\ thrtimer' = ival2 - since
        BY <2>2, <3>2 DEF Delays, MustWait, ThrottleDelay
      <4>2. thrtimer' # Off /\ since' + thrtimer' >= ival2'
        BY <4>1, <2>1, <2>2, <1>a DEF Delays, Off
      <4> QED BY <2>1, <2>2, <4>2 DEF Delays, ThrottleInv
    <3> QED BY <3>1, <3>2
  <2>3. CASE Reports
    <3>1. ~expires /\ ~(since < ival2)
      BY <2>3, <1>a DEF Reports, MustWait
    <3> QED BY <2>1, <2>3, <3>1 DEF Reports, ThrottleInv
  <2>4. CASE Skips
    BY <2>1, <2>4 DEF Skips, ThrottleInv
  <2> QED BY <1>5, <2>2, <2>3, <2>4, FrameTimes DEF TypeInv
<1>6. CASE RxThrHandler
  <2>1. ~(since < ival2 /\ ~freed)
    BY <1>6, <1>a DEF RxThrHandler, ThrottleInv, Off
  <2>2. ~crowded'
    <3>1. CASE RxChanged(HeldBack, last)
      BY <2>1, <3>1, ReportTimes DEF TypeInv, ThrottleInv
    <3>2. CASE UNCHANGED told
      BY <3>2 DEF told, ThrottleInv
    <3> QED BY <1>6, <3>1, <3>2 DEF RxThrHandler
  <2> QED BY <1>6, <2>2 DEF RxThrHandler, ThrTimerConsumed, ThrottleInv
<1>7. CASE Tick
  <2>1. thrtimer' # Off => thrtimer # Off /\ (since' + thrtimer' >= since + thrtimer \/ (since' = Cap2 /\ thrtimer' >= 0))
    BY <1>7, <1>a DEF Tick, Later, Older, Off
  <2>2. thrtimer' # Off => (freed' \/ since' + thrtimer' >= ival2')
    BY <1>7, <1>a, <2>1 DEF Tick, Later, Older, Off, setup, ThrottleInv
  <2>3. thrtimer' # Off <=> thrtimer # Off
    BY <1>7, <1>a DEF Tick, Later, Off
  <2> QED BY <1>7, <2>2, <2>3 DEF Tick, ThrottleInv
<1>8. CASE RxUnmatched \/ RxRtr \/ RxTimeoutHandler \/ UNCHANGED vars
  BY <1>8 DEF RxUnmatched, RxRtr, RxTimeoutHandler, vars, setup, told, ThrottleInv
<1> QED
  BY <1>1, <1>2, <1>3, <1>4, <1>5, <1>6, <1>7, <1>8 DEF Next

\* A timeout is started anew with every frame, so that it cannot run out before
\* the frames have stayed away.
LEMMA SilenceStep == TypeInv /\ CallInv /\ SilenceInv /\ [Next]_vars => SilenceInv'
<1> SUFFICES ASSUME TypeInv, CallInv, SilenceInv, [Next]_vars PROVE SilenceInv'
  OBVIOUS
<1> USE DEF TimeoutMeansSilence
<1>a. /\ Cap1 \in Nat /\ ival1 \in Nat /\ ival1 <= Cap1
      /\ quiet \in 0 .. Cap1 /\ armed \in 0 .. Cap1 /\ timer \in {Off} \cup 0 .. Cap1
  BY IvalFacts, IvalTypes DEF TypeInv, TimerTypes
<1>1. ASSUME NEW m \in Setups, RxSetupNew(m)
      PROVE  SilenceInv'
  <2>1. m.ival1 \in Nat
    BY IvalFacts DEF Setups
  <2>2. call' = "none" /\ quiet' = quiet /\ premature' = premature
    BY <1>1 DEF RxSetupNew, CallInv
  <2>3. timer' # Off => quiet' + timer' >= armed'
    BY <1>1, <1>a, <2>1, <2>2 DEF RxSetupNew
  <2> QED BY <2>2, <2>3 DEF SilenceInv
<1>2. CASE \E m \in Setups : RxSetupClear(m) \/ RxSetupNoMemory(m)
  BY <1>2 DEF RxSetupClear, RxSetupNoMemory, silence, SilenceInv
<1>3. CASE RxSetupStep
  <2>1. CASE RxSetupFilter \/ RxSetupFlags \/ RxSetupUnblock
    BY <2>1 DEF RxSetupFilter, RxSetupFlags, RxSetupUnblock, Goes, silence, SilenceInv
  <2>2. CASE RxSetupNoTimers \/ RxSetupTimes \/ RxSetupStop
    BY <2>2 DEF RxSetupNoTimers, RxSetupTimes, RxSetupStop, StopTimer, Goes, silence, SilenceInv
  <2>3. CASE RxSetupStart
    <3>1. timer' # Off => quiet' + timer' >= armed'
      BY <2>3, <1>a DEF RxSetupStart, SilenceInv
    <3> QED BY <2>3, <3>1 DEF RxSetupStart, Goes, SilenceInv
  <2> QED BY <1>3, <2>1, <2>2, <2>3 DEF RxSetupStep
<1>4. CASE RxDelete
  BY <1>4 DEF RxDelete, StopTimer, SilenceInv
<1>5. CASE FrameSeen /\ UNCHANGED setup
  <2>1. timer' # Off => quiet' + timer' >= armed' /\ armed' = ival1'
    BY <1>5, <1>a DEF FrameSeen, RestartTimer, setup, Off
  <2> QED BY <1>5, <2>1 DEF FrameSeen, SilenceInv
<1>6. CASE RxRtr
  BY <1>6 DEF RxRtr, SilenceInv
<1>7. CASE RxThrHandler \/ UNCHANGED vars
  BY <1>7 DEF RxThrHandler, vars, setup, program, silence, SilenceInv
<1>8. CASE RxTimeoutHandler
  <2>1. ~(quiet < armed)
    BY <1>8, <1>a DEF RxTimeoutHandler, SilenceInv, Off
  <2> QED BY <1>8, <2>1 DEF RxTimeoutHandler, SilenceInv
<1>9. CASE Tick
  <2>1. timer' # Off => timer # Off /\ quiet' + timer' >= armed'
    BY <1>9, <1>a DEF Tick, Later, Older, SilenceInv, Off
  <2> QED BY <1>9, <2>1 DEF Tick, setup, program, SilenceInv
<1> QED
  BY <1>1, <1>2, <1>3, <1>4, <1>5, <1>6, <1>7, <1>8, <1>9 DEF Next, RxFrame, RxUnmatched
----------------------------------------------------------------------------
(* The contents.                                                           *)

\* What bcm_rx_handler() does with the content of a frame: it is stored and
\* marked, stored and reported, or it is what is stored already (or, while
\* op->frames holds garbage, taken for it).
Stores(i, v) ==
  /\ last' = [last EXCEPT ![i] = [val |-> v, recv |-> TRUE, thr |-> TRUE]]
  /\ reported' = reported /\ lost' = lost \ {i}
StoresAndTells(i, v) ==
  /\ last' = [last EXCEPT ![i] = [val |-> v, recv |-> TRUE, thr |-> FALSE]]
  /\ reported' = [j \in Elements |-> IF j \in {i} THEN last'[j].val ELSE reported[j]]
  /\ lost' = lost \ {i}
TakesForKnown(i, v) ==
  /\ last' = last /\ reported' = reported
  /\ \/ lost' = lost \cup {i}
     \/ last[i].recv /\ last[i].val = v /\ lost' = lost \ {i}

\* A frame is stored, stored and reported, or taken for what is already known: then it was, or it
\* counts as lost.
LEMMA FrameContents ==
  ASSUME NEW i, NEW v, RxFrame(i, v)
  PROVE  Stores(i, v) \/ StoresAndTells(i, v) \/ TakesForKnown(i, v)
<1>1. PICK relevant \in Relevant(i, v) :
        IF relevant THEN UpdateAndSend(i, v) /\ lost' = lost \ {i}
        ELSE /\ lost' = IF garbled THEN lost \cup {i} ELSE lost \ {i}
             /\ UNCHANGED <<last, expires, thrtimer, told>>
  BY Zenon DEF RxFrame
<1>2. CASE relevant
  <2>1. UpdateAndSend(i, v) /\ lost' = lost \ {i}
    BY <1>1, <1>2, Zenon
  <2> QED BY <2>1, Zenon DEF UpdateAndSend, Throttled, RxChanged, told, Stores, StoresAndTells
<1>3. CASE ~relevant
  <2>1. CASE garbled
    BY <1>1, <1>3, <2>1, Zenon DEF told, TakesForKnown
  <2>2. CASE ~garbled
    <3>1. relevant = IsRelevant(i, v)
      BY <2>2, <1>1 DEF Relevant
    <3>2. last[i].recv /\ last[i].val = v
      BY <3>1, <1>3 DEF IsRelevant
    <3> QED BY <1>1, <1>3, <2>2, <3>2, Zenon DEF told, TakesForKnown
  <2> QED BY <2>1, <2>2
<1> QED BY <1>2, <1>3

\* What ContentInv says of an element.
ElementInv(i) ==
  /\ last[i].thr => last[i].recv
  /\ last[i].recv => (last[i].val = newest[i] \/ i \in lost)
  /\ last[i].recv => (last[i].val = reported[i] \/ last[i].thr)
  /\ newest[i] # reported[i] => ((last[i].thr /\ i \in Visited(nframes)) \/ i \in lost)

\* ContentInv speaks of the elements one by one.
LEMMA ByElement == ContentInv <=> \A i \in Elements : ElementInv(i)
BY DEF ContentInv, ElementInv, ThrMarksUnsent, Unsent

\* An element whose content is cleared counts as lost, if it was unsent.
LEMMA ClearedElement ==
  ASSUME NEW i \in Elements, NEW n, ContentTypes, ElementInv(i), last' = Cleared(n),
         lost' = lost \cup {j \in Unsent : j < n},
         newest' = newest, reported' = reported, nframes' = nframes
  PROVE  ElementInv(i)'
<1>1. CASE i < n
  <2>1. last'[i].recv = FALSE /\ last'[i].thr = FALSE
    BY <1>1 DEF Cleared, Nothing
  <2>2. newest'[i] # reported'[i] => i \in lost'
    BY <1>1 DEF Unsent
  <2> QED BY <2>1, <2>2 DEF ElementInv
<1>2. CASE ~(i < n)
  <2>1. last'[i] = last[i] /\ (i \in lost => i \in lost')
    BY <1>2 DEF Cleared
  <2> QED BY <2>1 DEF ElementInv
<1> QED BY <1>1, <1>2

\* The mark RX_THR is set and cleared with the content it is about.
LEMMA ContentStep == TypeInv /\ ContentInv /\ [Next]_vars => ContentInv'
<1> SUFFICES ASSUME TypeInv, ContentInv, [Next]_vars, NEW j \in Elements PROVE ElementInv(j)'
  BY DEF ContentInv, ElementInv, ThrMarksUnsent, Unsent
<1>a. ElementInv(j) /\ ContentTypes /\ last[j] \in LastFrame
  BY ByElement DEF TypeInv, ContentTypes
<1>1. CASE Blank
  BY <1>1 DEF Blank, Nothing, ElementInv
<1>2. ASSUME NEW m \in Setups, RxSetupClear(m)
      PROVE  ElementInv(j)'
  BY <1>2, <1>a, ClearedElement DEF RxSetupClear, told
<1>3. CASE \E m \in Setups : RxSetupNoMemory(m)
  BY <1>3, <1>a DEF RxSetupNoMemory, told, ElementInv
<1>4. CASE RxSetupStep
  <2>1. CASE RxSetupFilter
    <3>1. newest[j] # reported[j] /\ j \notin Visited(nframes') => j \in lost'
      BY <2>1 DEF RxSetupFilter, Unsent
    <3>2. /\ last' = last /\ newest' = newest /\ reported' = reported
          /\ j \in lost => j \in lost'
      BY <2>1 DEF RxSetupFilter, told
    <3> QED BY <1>a, <3>1, <3>2 DEF ElementInv
  <2>2. CASE RxSetupFlags \/ RxSetupNoTimers \/ RxSetupTimes \/ RxSetupUnblock \/ RxSetupStop \/ RxSetupStart
    BY <2>2, <1>a DEF RxSetupFlags, RxSetupNoTimers, RxSetupTimes, RxSetupUnblock, RxSetupStop,
       RxSetupStart, told, ElementInv
  <2> QED BY <1>4, <2>1, <2>2 DEF RxSetupStep
<1>5. ASSUME NEW i \in Elements, NEW v \in Values[i], RxFrame(i, v)
      PROVE  ElementInv(j)'
  <2>1. nframes' = nframes /\ newest' = [newest EXCEPT ![i] = v] /\ i \in Visited(nframes)
    BY <1>5 DEF RxFrame, setup
  <2>2. Stores(i, v) \/ StoresAndTells(i, v) \/ TakesForKnown(i, v)
    BY <1>5, FrameContents
  <2>3. CASE j = i
    <3>1. newest'[j] = v
      BY <2>1, <2>3, <1>a DEF ContentTypes
    <3>2. CASE Stores(i, v)
      <4>1. last'[j] = [val |-> v, recv |-> TRUE, thr |-> TRUE]
        BY <2>3, <3>2, <1>a DEF Stores, ContentTypes
      <4> QED BY <2>1, <2>3, <3>1, <4>1 DEF ElementInv
    <3>3. CASE StoresAndTells(i, v)
      <4>1. last'[j] = [val |-> v, recv |-> TRUE, thr |-> FALSE]
        BY <2>3, <3>3, <1>a DEF StoresAndTells, ContentTypes
      <4>2. reported'[j] = v
        BY <2>3, <3>3, <4>1 DEF StoresAndTells
      <4> QED BY <3>1, <4>1, <4>2 DEF ElementInv
    <3>4. CASE TakesForKnown(i, v)
      <4>1. last'[j] = last[j] /\ reported'[j] = reported[j]
        BY <3>4 DEF TakesForKnown
      <4>2. j \in lost' \/ (last[j].recv /\ last[j].val = v)
        BY <2>3, <3>4 DEF TakesForKnown
      <4> QED BY <1>a, <2>1, <2>3, <3>1, <4>1, <4>2 DEF ElementInv
    <3> QED BY <2>2, <3>2, <3>3, <3>4
  <2>4. CASE j # i
    <3>1. newest'[j] = newest[j]
      BY <2>1, <2>4, <1>a DEF ContentTypes
    <3>2. last'[j] = last[j]
      BY <2>2, <2>4, <1>a DEF Stores, StoresAndTells, TakesForKnown, ContentTypes
    <3>3. reported'[j] = reported[j] /\ (j \in lost => j \in lost')
      BY <2>2, <2>4 DEF Stores, StoresAndTells, TakesForKnown
    <3> QED BY <1>a, <2>1, <3>1, <3>2, <3>3 DEF ElementInv
  <2> QED BY <2>3, <2>4
<1>6. CASE RxThrHandler
  <2>1. nframes' = nframes /\ newest' = newest
    BY <1>6 DEF RxThrHandler, setup
  <2>2. CASE j \in HeldBack
    <3>1. j \in Visited(nframes) /\ last[j].thr /\ last[j].recv
      BY <2>2, <1>a DEF HeldBack, ElementInv
    <3>2. last'[j].val = last[j].val /\ last'[j].thr = FALSE
      BY <1>6, <3>1, <1>a DEF RxThrHandler, LastFrame
    <3>3. reported'[j] = last[j].val
      BY <1>6, <2>2 DEF RxThrHandler, RxChanged
    <3>4. last[j].val = newest[j] \/ j \in lost'
      BY <1>6, <3>1, <1>a DEF RxThrHandler, ElementInv
    <3> QED BY <2>1, <3>2, <3>3, <3>4 DEF ElementInv
  <2>3. CASE j \notin HeldBack
    <3>1. reported'[j] = reported[j] /\ (j \in lost => j \in lost')
      BY <1>6, <2>3 DEF RxThrHandler, RxChanged, told
    <3>2. last'[j].val = last[j].val /\ last'[j].recv = last[j].recv /\ last'[j].thr = last[j].thr
      BY <1>6, <2>3, <1>a DEF RxThrHandler, HeldBack, LastFrame
    <3> QED BY <1>a, <2>1, <3>1, <3>2 DEF ElementInv
  <2> QED BY <2>2, <2>3
<1>7. CASE RxTimeoutHandler
  <2>1. newest' = newest /\ reported' = reported /\ nframes' = nframes
    BY <1>7 DEF RxTimeoutHandler, setup, told
  <2>2. CASE last' = Cleared(nframes) /\ lost' = lost \cup {i \in Unsent : i < nframes}
    BY <2>1, <2>2, <1>a, ClearedElement
  <2>3. CASE UNCHANGED <<last, lost>>
    BY <2>1, <2>3, <1>a DEF ElementInv
  <2> QED BY <1>7, <2>2, <2>3 DEF RxTimeoutHandler
<1>8. CASE RxUnmatched \/ RxRtr \/ Tick \/ UNCHANGED vars
  BY <1>8, <1>a DEF RxUnmatched, RxRtr, Tick, vars, setup, told, ElementInv
<1> QED
  BY <1>1, <1>2, <1>3, <1>4, <1>5, <1>6, <1>7, <1>8 DEF Next, RxSetupNew, RxDelete

----------------------------------------------------------------------------
(* The theorems.                                                           *)

\* At the beginning nothing runs, and nothing is known.
LEMMA IInvInit == Init => IInv
<1> SUFFICES ASSUME Init PROVE IInv
  OBVIOUS
<1>1. CallInv /\ ThrottleInv /\ SilenceInv
  BY DEF Init, CallInv, ThrottleInv, ExpiresMeansRunning, ThrottleRespected, SilenceInv, TimeoutMeansSilence
<1>2. ContentInv
  BY DEF Init, ContentInv, ThrMarksUnsent, Unsent, Nothing
<1> QED BY <1>1, <1>2, TypeInit DEF IInv

\* The fields of an operation agree after every step of whatever order.
LEMMA IInvStep == IInv /\ [Next]_vars => IInv'
<1> SUFFICES ASSUME IInv, [Next]_vars PROVE IInv'
  OBVIOUS
<1>1. TypeInv /\ CallInv /\ ThrottleInv /\ SilenceInv /\ ContentInv
  BY DEF IInv
<1>2. TypeInv'
  BY <1>1, SetupTypesStep, ContentTypesStep, TimerTypesStep DEF TypeInv
<1> QED BY <1>1, <1>2, CallStep, ThrottleStep, SilenceStep, ContentStep DEF IInv

\* The inductive invariant holds in every state of an operation.
LEMMA IInvAlways == Spec => []IInv
BY IInvInit, IInvStep, PTL DEF Spec

\* The fields of a bcm_op agree with each other, whichever frames, timers and
\* RX_SETUPs come in whatever order (Consistent): types, the marks of what is
\* unsent, thrtimer.expires and the timer.
THEOREM FieldsAgree == Spec => []Consistent
<1>1. ASSUME IInv PROVE Consistent
  <2>1. TypeOK
    BY <1>1 DEF IInv, TypeInv, SetupTypes, ContentTypes, TimerTypes, TypeOK, LastFrame
  <2> QED BY <1>1, <2>1 DEF IInv, ContentInv, ThrottleInv, Consistent
<1> QED BY <1>1, IInvAlways, PTL

\* bcm_rx_update_and_send() and bcm_rx_thr_handler() keep reports of one
\* operation ival2 apart, but for those an RX_SETUP lets out at once.
THEOREM ReportsApart == Spec => []ThrottleRespected
<1>1. IInv => ThrottleRespected
  BY DEF IInv, ThrottleInv
<1> QED BY <1>1, IInvAlways, PTL

\* bcm_rx_timeout_handler() reports RX_TIMEOUT only after a silence as long as
\* the timer was started with.
THEOREM SilenceBeforeTimeout == Spec => []TimeoutMeansSilence
<1>1. IInv => TimeoutMeansSilence
  BY DEF IInv, SilenceInv
<1> QED BY <1>1, IInvAlways, PTL
=============================================================================
