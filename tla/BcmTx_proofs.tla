---------------------------- MODULE BcmTx_proofs ----------------------------
(***************************************************************************)
(* What BcmTx promises, for any counts, intervals, flags, number of frames *)
(* and of TX_SETUPs.                                                       *)
(***************************************************************************)
EXTENDS BcmTx, TLAPS

----------------------------------------------------------------------------
(* The inductive invariant.                                                *)

\* What TX_SETUP knows of its operation where it is: the message, the room for
\* its frames, and that no timer runs without an operation.
PlaceInv ==
  /\ pc # "user" => op /\ msg \in Messages
  /\ timer # "off" => op
  /\ op => nframes >= 1
  /\ pc = "array" => msg.nframes > nframes
  /\ pc \in {"copy", "nframes"} => msg.nframes <= allocated
  /\ pc = "array" => i = 0
  /\ pc = "copy" => i <= msg.nframes

\* Only the handler that counts down to 0 reports the end of the first stage.
ReportInv == expired > 0 => count = 0

\* The timer runs with the interval of the stage that count tells, until it
\* meets a TX_SETUP: from SETTIMER to the interval's assignment it is an old one.
StageInv ==
  \/ met
  \/ /\ timer = "ival1" => FirstStage
     /\ timer = "ival2" => ~FirstStage
     /\ pc = "ivals" => timer \in {"off", "old"}

\* A frame goes out before each period, the first one when the timer is started.
SentInv ==
  \/ met \/ noskb
  \/ /\ periods <= sent
     /\ timer = "ival1" /\ pc # "send" => periods < sent

\* The frames that the handler may send are filled and the index is one of
\* them, but where TX_SETUP has changed the number or moves the index.
FramesInv ==
  /\ op /\ pc \notin {"copy", "nframes"} => 0 .. (nframes - 1) \subseteq filled
  /\ pc = "copy" => 0 .. (i - 1) \subseteq filled
  /\ pc = "nframes" => 0 .. (msg.nframes - 1) \subseteq filled
  /\ \/ met \/ ~op
     \/ /\ pc \notin {"rewind", "wrap"} => currframe < nframes
        /\ pc = "wrap" => currframe <= nframes

IInv ==
  /\ TypeOK /\ PlaceInv /\ ReportInv /\ CountedPeriods /\ StageInv
  /\ sent <= wanted /\ SentInv /\ FramesInv /\ SentAsGiven
----------------------------------------------------------------------------
(* Types, and where TX_SETUP is.                                           *)

\* TypeOK, without a set of truth values.
Types ==
  /\ op \in BOOLEAN /\ nframes \in 0 .. MaxFrames /\ currframe \in Nat
  /\ allocated \in nframes .. MaxFrames /\ filled \subseteq 0 .. (allocated - 1)
  /\ countevt \in BOOLEAN /\ count \in Nat /\ ivals \subseteq {"ival1", "ival2"}
  /\ timer \in {"off", "ival1", "ival2", "old"}
  /\ pc \in {"user", "array", "copy", "nframes", "rewind", "flags", "count", "ivals",
             "check", "start", "send", "step", "wrap"}
  /\ msg \in Messages \cup {NoMsg} /\ i \in 0 .. MaxFrames
  /\ setups \in 0 .. MaxSetups
  /\ wanted \in Nat /\ periods \in Nat /\ sent \in Nat /\ expired \in Nat
  /\ outOfRange \in BOOLEAN /\ garbage \in BOOLEAN /\ met \in BOOLEAN /\ noskb \in BOOLEAN

\* Both say the same of the types.
LEMMA FlatTypes == TypeOK <=> Types
BY DEF TypeOK, Types

\* The fields of a message.
LEMMA MessageTypes ==
  /\ MaxFrames \in Nat /\ MaxSetups \in Nat /\ 0 \in 0 .. MaxSetups /\ 0 \in 0 .. MaxFrames
  /\ \A m \in Messages : /\ m.nframes \in 1 .. MaxFrames /\ m.count \in Nat
                         /\ m.ivals \subseteq {"ival1", "ival2"}
<1>1. MaxFrames \in Nat /\ MaxSetups \in Nat /\ 0 \in 0 .. MaxSetups /\ 0 \in 0 .. MaxFrames
  BY ParmAssumption
<1>2. ASSUME NEW m \in Messages
      PROVE  m.nframes \in 1 .. MaxFrames /\ m.count \in Nat /\ m.ivals \subseteq {"ival1", "ival2"}
  <2>1. m.nframes \in 1 .. MaxFrames /\ m.count \in Counts /\ m.ivals \in Ivals
    BY DEF Messages
  <2> QED BY <2>1, ParmAssumption
<1> QED BY <1>1, <1>2

\* What bcm_can_tx() does to the frames that were sent.
LEMMA SendFacts ==
  ASSUME Types, SendFrame
  PROVE  /\ sent < wanted => sent' = sent + 1
         /\ ~(sent < wanted) => sent' = sent
         /\ outOfRange' \in BOOLEAN /\ garbage' \in BOOLEAN /\ noskb' = noskb
         /\ outOfRange' => outOfRange \/ currframe >= allocated
         /\ garbage' => garbage \/ currframe \in 0 .. (allocated - 1) \ filled
<1>1. outOfRange' = (outOfRange \/ currframe >= allocated) /\ noskb' = noskb
  BY Zenon DEF SendFrame
<1>2. garbage' = (garbage \/ currframe \in 0 .. (allocated - 1) \ filled)
  BY Zenon DEF SendFrame
<1>3. (outOfRange \/ currframe >= allocated) \in BOOLEAN
      /\ (garbage \/ currframe \in 0 .. (allocated - 1) \ filled) \in BOOLEAN
  BY Zenon
<1>4. outOfRange' \in BOOLEAN /\ garbage' \in BOOLEAN
  BY <1>1, <1>2, <1>3, Zenon
<1>5. outOfRange' => outOfRange \/ currframe >= allocated
  BY <1>1, Zenon
<1>6. garbage' => garbage \/ currframe \in 0 .. (allocated - 1) \ filled
  BY <1>2, Zenon
<1>7. (sent < wanted => sent' = sent + 1) /\ (~(sent < wanted) => sent' = sent)
  BY DEF SendFrame
<1> QED BY <1>1, <1>4, <1>5, <1>6, <1>7

\* Of bcm_can_tx() without an skb.
LEMMA NoSkbFacts ==
  ASSUME NoSkb
  PROVE  noskb' = TRUE /\ noskb' \in BOOLEAN /\ sent' = sent /\ outOfRange' = outOfRange /\ garbage' = garbage
BY DEF NoSkb

\* What bcm_tx_timeout_handler() does to the history of the first stage.
LEMMA HandlerFacts ==
  ASSUME Types, TimeoutHandler
  PROVE  /\ timer # "off"
         /\ FirstStage => count > 0 /\ count' = count - 1
         /\ ~FirstStage => count' = count
         /\ met' \in BOOLEAN /\ (~met' => ~met /\ pc = "user" /\ timer # "old")
         /\ \/ expired' = expired
            \/ FirstStage /\ count' = 0 /\ expired' = expired + 1
         /\ timer = "ival1" => periods' = periods + 1
         /\ timer # "ival1" => periods' = periods
         /\ timer' = Restart(count')
<1>1. timer # "off" /\ timer' = Restart(count')
  BY DEF TimeoutHandler
<1>2. (FirstStage => count > 0 /\ count' = count - 1) /\ (~FirstStage => count' = count)
  BY DEF TimeoutHandler, FirstStage
<1>3. met' = (met \/ pc # "user" \/ timer = "old")
  BY Zenon DEF TimeoutHandler
<1>4. (met \/ pc # "user" \/ timer = "old") \in BOOLEAN
  BY Zenon
<1>5. met' \in BOOLEAN
  BY <1>3, <1>4, Zenon
<1>6. ~met' => ~met /\ pc = "user" /\ timer # "old"
  BY <1>3, Zenon
<1>7. expired' = expired \/ (FirstStage /\ count' = 0 /\ expired' = expired + 1)
  BY DEF TimeoutHandler, Reports
<1>8. (timer = "ival1" => periods' = periods + 1) /\ (timer # "ival1" => periods' = periods)
  BY DEF TimeoutHandler
<1> QED BY <1>1, <1>2, <1>5, <1>6, <1>7, <1>8

\* What it sends, when the timer runs on.
LEMMA HandlerSends ==
  ASSUME Types, TimeoutHandler
  PROVE  \/ SendFrame /\ currframe' = (IF ReachedLast(currframe + 1) THEN 0 ELSE currframe + 1)
            /\ timer' # "off"
         \/ NoSkb /\ UNCHANGED currframe /\ timer' # "off"
         \/ UNCHANGED <<onWire, currframe>> /\ timer' = "off"
BY Zenon DEF TimeoutHandler, CanTx

\* At the beginning there is no operation.
LEMMA InitInv == Init => IInv
<1> SUFFICES ASSUME Init PROVE IInv
  OBVIOUS
<1>1. Types
  BY MessageTypes DEF Init, Types, NoMsg
<1>2. PlaceInv /\ ReportInv /\ CountedPeriods /\ StageInv
  BY DEF Init, PlaceInv, ReportInv, CountedPeriods, StageInv
<1>3. sent <= wanted /\ SentInv /\ FramesInv /\ SentAsGiven
  BY DEF Init, SentInv, FramesInv, SentAsGiven
<1> QED BY <1>1, <1>2, <1>3, FlatTypes DEF IInv

\* What memset() leaves has its type.
LEMMA BlankTypes ==
  ASSUME Blank
  PROVE  /\ countevt' \in BOOLEAN /\ count' \in Nat /\ ivals' \subseteq {"ival1", "ival2"}
         /\ timer' = "off" /\ currframe' = 0 /\ i' = 0 /\ setups' = 0
         /\ wanted' \in Nat /\ periods' \in Nat /\ sent' \in Nat /\ expired' \in Nat
         /\ outOfRange' \in BOOLEAN /\ garbage' \in BOOLEAN /\ met' \in BOOLEAN /\ noskb' \in BOOLEAN
BY DEF Blank

\* TX_SETUP assigns what a message may ask for, allocates before it copies and
\* copies before it counts the frames; the handler counts down to 0.
LEMMA TypesStep == Types /\ PlaceInv /\ [Next]_vars => Types'
<1> SUFFICES ASSUME Types, PlaceInv, [Next]_vars PROVE Types'
  OBVIOUS
<1> USE DEF frameVars, history, onWire
<1>1. CASE SetupNew
  <2>1. msg' \in Messages /\ nframes' = msg'.nframes /\ allocated' = msg'.nframes
        /\ filled' = 0 .. (msg'.nframes - 1) /\ op' = TRUE /\ pc' = "flags" /\ Blank
    BY <1>1 DEF SetupNew
  <2>2. nframes' \in 0 .. MaxFrames /\ allocated' \in nframes' .. MaxFrames
        /\ filled' \subseteq 0 .. (allocated' - 1)
    BY <2>1, MessageTypes
  <2> QED BY <2>1, <2>2, BlankTypes, MessageTypes DEF Types
<1>2. CASE SetupUpdate
  BY <1>2, MessageTypes DEF SetupUpdate, Types
<1>3. CASE TxDelete
  <2>1. nframes' = 0 /\ allocated' = 0 /\ filled' = {} /\ msg' = NoMsg /\ pc' = pc /\ op' = FALSE /\ Blank
    BY <1>3 DEF TxDelete
  <2>2. nframes' \in 0 .. MaxFrames /\ allocated' \in nframes' .. MaxFrames
        /\ filled' \subseteq 0 .. (allocated' - 1)
    BY <2>1, MessageTypes
  <2>3. msg' \in Messages \cup {NoMsg} /\ op' \in BOOLEAN
    BY <2>1
  <2>5. currframe' \in Nat /\ i' \in 0 .. MaxFrames /\ setups' \in 0 .. MaxSetups
    BY <2>1, BlankTypes, MessageTypes
  <2>4. pc' \in {"user", "array", "copy", "nframes", "rewind", "flags", "count", "ivals",
                 "check", "start", "send", "step", "wrap"}
    BY <2>1 DEF Types
  <2> QED BY <2>1, <2>2, <2>3, <2>4, <2>5, BlankTypes DEF Types
<1>4. CASE TxSetup
  <2>m. pc # "user" => msg.nframes \in 1 .. MaxFrames /\ msg.count \in Nat
                       /\ msg.ivals \subseteq {"ival1", "ival2"}
    BY MessageTypes DEF PlaceInv
  <2>1. CASE NewArray
    BY <2>1, <2>m DEF NewArray, Types, PlaceInv
  <2>2. CASE NoMemory
    BY <2>2 DEF NoMemory, Types
  <2>3. CASE CopyFrame
    <3>1. msg.nframes \in 1 .. MaxFrames /\ msg.nframes <= allocated /\ allocated \in Nat /\ i \in 0 .. MaxFrames
      BY <2>3, <2>m, MessageTypes DEF CopyFrame, Types, PlaceInv
    <3>2. i < msg.nframes => i \in 0 .. (allocated - 1) /\ i + 1 \in 0 .. MaxFrames
      BY <3>1, MessageTypes
    <3>3. filled' \subseteq 0 .. (allocated - 1) /\ i' \in 0 .. MaxFrames /\ pc' \in {"copy", "nframes"}
      BY <2>3, <3>1, <3>2 DEF CopyFrame, Copies, Types
    <3> QED BY <2>3, <3>3 DEF CopyFrame, Types
  <2>4. CASE SetNframes
    <3>1. nframes' \in 0 .. MaxFrames /\ allocated \in nframes' .. MaxFrames
      BY <2>4, <2>m DEF SetNframes, Types, PlaceInv
    <3> QED BY <2>4, <3>1 DEF SetNframes, Types
  <2>5. CASE Rewind
    BY <2>5 DEF Rewind, Types
  <2>6. CASE SetFlags
    <3>1. countevt' \in BOOLEAN
      <4>1. countevt' = ("TX_COUNTEVT" \in msg.flags)
        BY <2>6, Zenon DEF SetFlags
      <4>2. ("TX_COUNTEVT" \in msg.flags) \in BOOLEAN
        OBVIOUS
      <4> QED BY <4>1, <4>2, Zenon
    <3> QED BY <2>6, <3>1 DEF SetFlags, Types
  <2>7. CASE SetCount
    BY <2>7, <2>m DEF SetCount, Types
  <2>8. CASE SetIvals
    BY <2>8, <2>m DEF SetIvals, Types
  <2>9. CASE Check
    BY <2>9 DEF Check, Types
  <2>10. CASE StartTimer
    BY <2>10 DEF StartTimer, Types
  <2>11. CASE Announce
    <3>1. sent' \in Nat /\ outOfRange' \in BOOLEAN /\ garbage' \in BOOLEAN /\ noskb' \in BOOLEAN
      <4>1. CASE SendFrame
        BY <4>1, SendFacts DEF Types
      <4>2. CASE NoSkb
        BY <4>2, NoSkbFacts DEF Types
      <4> QED BY <2>11, <4>1, <4>2 DEF Announce
    <3> QED BY <2>11, <3>1 DEF Announce, Types
  <2>12. CASE StepIndex
    BY <2>12 DEF StepIndex, Types
  <2>13. CASE WrapIndex
    BY <2>13 DEF WrapIndex, Types
  <2> QED BY <1>4, <2>1, <2>2, <2>3, <2>4, <2>5, <2>6, <2>7, <2>8, <2>9, <2>10, <2>11, <2>12, <2>13
          DEF TxSetup
<1>5. CASE TimeoutHandler
  <2>1. count' \in Nat /\ periods' \in Nat /\ expired' \in Nat /\ met' \in BOOLEAN
    BY <1>5, HandlerFacts DEF Types
  <2>2. timer' \in {"off", "ival1", "ival2", "old"}
    BY <1>5, HandlerFacts DEF Restart
  <2>3. currframe' \in Nat /\ sent' \in Nat /\ noskb' \in BOOLEAN
        /\ outOfRange' \in BOOLEAN /\ garbage' \in BOOLEAN
    <3>1. CASE SendFrame /\ currframe' = (IF ReachedLast(currframe + 1) THEN 0 ELSE currframe + 1)
      BY <3>1, SendFacts DEF Types
    <3>2. CASE NoSkb /\ UNCHANGED currframe
      BY <3>2, NoSkbFacts DEF Types
    <3>3. CASE UNCHANGED <<onWire, currframe>>
      BY <3>3 DEF Types
    <3> QED BY <1>5, <3>1, <3>2, <3>3, HandlerSends
  <2> QED BY <1>5, <2>1, <2>2, <2>3 DEF TimeoutHandler, Types
<1>6. CASE UNCHANGED vars
  BY <1>6 DEF vars, Types
<1> QED BY <1>1, <1>2, <1>3, <1>4, <1>5, <1>6 DEF Next
\* The steps of TX_SETUP keep to their order.
LEMMA PlaceStep == Types /\ PlaceInv /\ [Next]_vars => PlaceInv'
<1> SUFFICES ASSUME Types, PlaceInv, [Next]_vars PROVE PlaceInv'
  OBVIOUS
<1> USE DEF frameVars, history, onWire
<1>m. pc # "user" => msg.nframes \in 1 .. MaxFrames
  BY MessageTypes DEF PlaceInv
<1>1. CASE SetupNew
  <2>1. msg' \in Messages /\ nframes' = msg'.nframes /\ op' = TRUE /\ pc' = "flags"
    BY <1>1 DEF SetupNew
  <2> QED BY <2>1, MessageTypes DEF PlaceInv
<1>2. CASE SetupUpdate
  <2>1. msg'.nframes \in 1 .. MaxFrames
    BY <1>2, MessageTypes DEF SetupUpdate
  <2>2. pc' = "copy" => msg'.nframes <= allocated
    BY <1>2, <2>1, MessageTypes DEF SetupUpdate, Types
  <2> QED BY <1>2, <2>1, <2>2 DEF SetupUpdate, PlaceInv
<1>3. CASE TxDelete
  BY <1>3 DEF TxDelete, Blank, PlaceInv
<1>4. CASE TxSetup
  <2>1. CASE NewArray
    <3>1. allocated' = msg.nframes /\ msg.nframes <= allocated'
      BY <2>1, <1>m, MessageTypes DEF NewArray
    <3>2. pc' = "copy" /\ i' = i /\ pc = "array" /\ msg' = msg /\ nframes' = nframes /\ timer' = timer /\ op' = op
      BY <2>1 DEF NewArray
    <3>3. i = 0 /\ msg.nframes \in 1 .. MaxFrames
      BY <3>2, <1>m DEF PlaceInv
    <3>4. i <= msg.nframes
      BY <3>3, MessageTypes
    <3> QED BY <3>1, <3>2, <3>4 DEF PlaceInv
  <2>2. CASE NoMemory \/ Rewind \/ SetFlags \/ SetCount \/ SetIvals \/ Check \/ StartTimer \/ Announce
             \/ StepIndex \/ WrapIndex
    BY <2>2 DEF NoMemory, Rewind, SetFlags, SetCount, SetIvals, Check, StartTimer, Announce, StepIndex,
       WrapIndex, PlaceInv
  <2>3. CASE CopyFrame
    <3>1. pc' = "copy" => i' <= msg.nframes
      BY <2>3, <1>m, MessageTypes DEF CopyFrame, Copies, Types
    <3> QED BY <2>3, <3>1 DEF CopyFrame, PlaceInv
  <2>4. CASE SetNframes
    BY <2>4, <1>m DEF SetNframes, PlaceInv
  <2> QED BY <1>4, <2>1, <2>2, <2>3, <2>4 DEF TxSetup
<1>5. CASE TimeoutHandler
  BY <1>5 DEF TimeoutHandler, PlaceInv
<1>6. CASE UNCHANGED vars
  BY <1>6 DEF vars, PlaceInv
<1> QED BY <1>1, <1>2, <1>3, <1>4, <1>5, <1>6 DEF Next

----------------------------------------------------------------------------
(* The first stage.                                                        *)

\* A step of TX_SETUP that assigns neither the count nor the timer.
Elsewhere ==
  \/ SetupUpdate \/ NewArray \/ NoMemory \/ CopyFrame \/ SetNframes \/ Rewind \/ SetFlags \/ Check
  \/ Announce \/ StepIndex \/ WrapIndex

\* Such a step leaves alone what the first stage is counted with.
LEMMA ElsewhereSame ==
  Elsewhere => /\ count' = count /\ wanted' = wanted /\ periods' = periods /\ expired' = expired
               /\ met' = met /\ ivals' = ivals /\ timer' = timer
               /\ pc' # "ivals"
BY DEF Elsewhere, SetupUpdate, NewArray, NoMemory, CopyFrame, SetNframes, Rewind, SetFlags, Check,
   Announce, StepIndex, WrapIndex, history

\* The steps, sorted by what they do to the first stage.
LEMMA StepCases ==
  [Next]_vars => \/ Blank \/ Elsewhere \/ SetCount \/ SetIvals \/ StartTimer \/ TimeoutHandler
                 \/ UNCHANGED vars
BY DEF Next, TxSetup, Elsewhere, SetupNew, TxDelete

\* The end of the first stage is reported when count becomes 0, and count does
\* not become positive without a new count.
LEMMA ReportStep == Types /\ ReportInv /\ [Next]_vars => ReportInv'
<1> SUFFICES ASSUME Types, ReportInv, [Next]_vars PROVE ReportInv'
  OBVIOUS
<1>1. CASE Blank \/ SetCount
  BY <1>1 DEF Blank, SetCount, ReportInv
<1>2. CASE Elsewhere
  BY <1>2, ElsewhereSame DEF ReportInv
<1>3. CASE SetIvals \/ StartTimer \/ UNCHANGED vars
  BY <1>3 DEF SetIvals, StartTimer, vars, history, ReportInv
<1>4. CASE TimeoutHandler
  <2>1. \/ expired' = expired
        \/ count' = 0
    BY <1>4, HandlerFacts
  <2>2. count = 0 => count' = 0
    BY <1>4 DEF TimeoutHandler, FirstStage
  <2> QED BY <2>1, <2>2 DEF ReportInv
<1> QED BY <1>1, <1>2, <1>3, <1>4, StepCases

\* ... so that it is reported once.
LEMMA OnceStep == Types /\ ReportInv /\ expired <= 1 /\ [Next]_vars => expired' <= 1
<1> SUFFICES ASSUME Types, ReportInv, expired <= 1, [Next]_vars PROVE expired' <= 1
  OBVIOUS
<1>1. CASE Blank \/ SetCount
  BY <1>1 DEF Blank, SetCount
<1>2. CASE Elsewhere
  BY <1>2, ElsewhereSame
<1>3. CASE SetIvals \/ StartTimer \/ UNCHANGED vars
  BY <1>3 DEF SetIvals, StartTimer, vars, history
<1>4. CASE TimeoutHandler
  <2>1. \/ expired' = expired
        \/ count > 0 /\ expired' = expired + 1
    BY <1>4, HandlerFacts
  <2>2. expired \in Nat
    BY DEF Types
  <2> QED BY <2>1, <2>2 DEF ReportInv
<1> QED BY <1>1, <1>2, <1>3, <1>4, StepCases

\* The timer's interval stays that of the stage, until the timer expires within
\* a TX_SETUP.
LEMMA StageStep == Types /\ StageInv /\ [Next]_vars => StageInv'
<1> SUFFICES ASSUME Types, StageInv, [Next]_vars PROVE StageInv'
  OBVIOUS
<1> USE DEF history
<1>1. CASE Blank
  BY <1>1 DEF Blank, StageInv
<1>2. CASE Elsewhere
  BY <1>2, ElsewhereSame DEF StageInv, FirstStage
<1>3. CASE SetCount
  BY <1>3 DEF SetCount, StageInv
<1>4. CASE SetIvals
  BY <1>4 DEF SetIvals, StageInv
<1>5. CASE StartTimer
  <2>1. FirstStage' <=> FirstStage
    BY <1>5 DEF StartTimer, FirstStage
  <2> QED BY <1>5, <2>1 DEF StartTimer, Announces, StageInv
<1>6. CASE TimeoutHandler
  <2>1. pc' = pc /\ ivals' = ivals
    BY <1>6 DEF TimeoutHandler
  <2>2. timer' = Restart(count') /\ (~met' => pc = "user")
    BY <1>6, HandlerFacts
  <2>3. (timer' = "ival1" => FirstStage') /\ (timer' = "ival2" => ~FirstStage')
    BY <2>1, <2>2 DEF Restart, FirstStage
  <2> QED BY <2>1, <2>2, <2>3 DEF StageInv
<1>7. CASE UNCHANGED vars
  BY <1>7 DEF vars, StageInv, FirstStage
<1> QED BY <1>1, <1>2, <1>3, <1>4, <1>5, <1>6, <1>7, StepCases

\* Every period that is counted is one of ival1.
LEMMA CountedStep == Types /\ Types' /\ StageInv /\ CountedPeriods /\ [Next]_vars => CountedPeriods'
<1> SUFFICES ASSUME Types, Types', StageInv, CountedPeriods, [Next]_vars PROVE CountedPeriods'
  OBVIOUS
<1>1. CASE Blank \/ SetCount
  <2>1. count' = wanted' /\ periods' = 0
    BY <1>1 DEF Blank, SetCount
  <2>2. count' \in Nat /\ periods' \in Nat /\ wanted' \in Nat
    BY DEF Types
  <2>3. count' + periods' = wanted'
    <3>1. \A c \in Nat : c + 0 = c
      OBVIOUS
    <3> QED BY <3>1, <2>1, <2>2, Zenon
  <2> QED BY <2>3, Zenon DEF CountedPeriods
<1>2. CASE Elsewhere
  BY <1>2, ElsewhereSame DEF CountedPeriods
<1>3. CASE SetIvals \/ StartTimer \/ UNCHANGED vars
  BY <1>3 DEF SetIvals, StartTimer, vars, history, CountedPeriods
<1>4. CASE TimeoutHandler
  <2>1. CASE met'
    BY <2>1 DEF CountedPeriods
  <2>2. CASE ~met'
    <3>1. ~met /\ timer \in {"ival1", "ival2"}
      BY <1>4, <2>2, HandlerFacts DEF Types
    <3>2. wanted' = wanted
      BY <1>4 DEF TimeoutHandler
    <3>3. CASE timer = "ival1"
      <4>1. count' = count - 1 /\ periods' = periods + 1
        BY <1>4, <3>1, <3>3, HandlerFacts DEF StageInv
      <4> QED BY <3>1, <3>2, <4>1 DEF CountedPeriods, Types
    <3>4. CASE timer = "ival2"
      <4>1. count' = count /\ periods' = periods
        BY <1>4, <3>1, <3>4, HandlerFacts DEF StageInv
      <4> QED BY <3>1, <3>2, <4>1 DEF CountedPeriods
    <3> QED BY <3>1, <3>3, <3>4
  <2> QED BY <2>1, <2>2
<1> QED BY <1>1, <1>2, <1>3, <1>4, StepCases
\* The frames sent are as many as the periods that have passed, and one more
\* while a period of ival1 runs.
LEMMA SentStep ==
  Types /\ Types' /\ StageInv /\ CountedPeriods /\ sent <= wanted /\ SentInv /\ [Next]_vars
    => sent' <= wanted' /\ SentInv'
<1> SUFFICES ASSUME Types, Types', StageInv, CountedPeriods, sent <= wanted, SentInv, [Next]_vars
             PROVE  sent' <= wanted' /\ SentInv'
  OBVIOUS
<1> USE DEF history, onWire
<1>t. /\ sent \in Nat /\ wanted \in Nat /\ periods \in Nat /\ count \in Nat
      /\ sent' \in Nat /\ wanted' \in Nat /\ periods' \in Nat /\ count' \in Nat
  BY DEF Types
<1>1. CASE Blank \/ SetCount
  <2>1. sent' = 0 /\ periods' = 0 /\ (timer' # "ival1")
    BY <1>1 DEF Blank, SetCount
  <2> QED BY <2>1, <1>t DEF SentInv
<1>2. CASE Announce
  <2>1. /\ wanted' = wanted /\ periods' = periods /\ met' = met /\ timer' = timer /\ pc = "send"
        /\ count' = count /\ ivals' = ivals
    BY <1>2 DEF Announce
  <2>2. CASE SendFrame
    <3>1. /\ sent < wanted => sent' = sent + 1
          /\ ~(sent < wanted) => sent' = sent
          /\ noskb' = noskb
      BY <2>2, SendFacts
    <3>2. sent' <= wanted' /\ sent' >= sent
      BY <3>1, <2>1, <1>t
    <3>3. ASSUME ~met, ~noskb PROVE periods' <= sent' /\ (timer' = "ival1" => periods' < sent')
      <4>1. periods <= sent
        BY <3>3 DEF SentInv
      <4>2. timer = "ival1" => periods < wanted
        BY <3>3, <1>t DEF StageInv, FirstStage, CountedPeriods
      <4> QED BY <4>1, <4>2, <3>1, <2>1, <1>t
    <3> QED BY <3>1, <3>2, <3>3, <2>1 DEF SentInv
  <2>3. CASE NoSkb
    BY <2>3, <2>1, NoSkbFacts DEF SentInv
  <2> QED BY <1>2, <2>2, <2>3 DEF Announce
<1>3. CASE SetupUpdate \/ NewArray \/ NoMemory \/ CopyFrame \/ SetNframes \/ Rewind \/ SetFlags \/ Check
           \/ StepIndex \/ WrapIndex
  <2>1. /\ wanted' = wanted /\ periods' = periods /\ met' = met /\ timer' = timer /\ pc # "send"
        /\ sent' = sent /\ noskb' = noskb
    BY <1>3 DEF SetupUpdate, NewArray, NoMemory, CopyFrame, SetNframes, Rewind, SetFlags, Check,
       StepIndex, WrapIndex
  <2> QED BY <2>1 DEF SentInv
<1>4. CASE SetIvals
  BY <1>4 DEF SetIvals, SentInv
<1>5. CASE StartTimer
  <2>1. /\ wanted' = wanted /\ periods' = periods /\ met' = met
        /\ sent' = sent /\ noskb' = noskb /\ pc' = "send"
    BY <1>5 DEF StartTimer, Announces
  <2> QED BY <2>1 DEF SentInv
<1>6. CASE TimeoutHandler
  <2>1. wanted' = wanted /\ pc' = pc
    BY <1>6 DEF TimeoutHandler
  <2>2. \/ SendFrame /\ timer' # "off"
        \/ NoSkb
        \/ UNCHANGED onWire /\ timer' = "off"
    BY <1>6, HandlerSends
  <2>3. sent' <= wanted' /\ sent' >= sent
    BY <2>1, <2>2, SendFacts, NoSkbFacts, <1>t DEF NoSkb
  <2>4. CASE met' \/ noskb'
    BY <2>3, <2>4 DEF SentInv
  <2>5. CASE ~met' /\ ~noskb'
    <3>1. ~met /\ pc = "user" /\ timer \in {"ival1", "ival2"}
      BY <1>6, <2>5, HandlerFacts DEF Types
    <3>2. /\ ~noskb
          /\ SendFrame \/ (UNCHANGED onWire /\ timer' = "off")
      <4>1. ~NoSkb
        BY <2>5, NoSkbFacts
      <4>2. CASE SendFrame
        <5>1. noskb' = noskb
          BY <4>2, SendFacts
        <5> QED BY <4>2, <5>1, <2>5, Zenon
      <4>3. CASE UNCHANGED onWire /\ timer' = "off"
        BY <4>3, <2>5
      <4> QED BY <2>2, <4>1, <4>2, <4>3
    <3>3. CASE timer = "ival1"
      <4>1. periods' = periods + 1 /\ periods < sent /\ count' = count - 1 /\ timer' = Restart(count')
        BY <1>6, <3>1, <3>2, <3>3, HandlerFacts DEF StageInv, SentInv
      <4>2. periods' <= sent'
        BY <4>1, <2>3, <1>t
      <4>3. timer' = "ival1" => periods' < sent'
        <5>1. timer' = "ival1" => count' > 0
          BY <4>1 DEF Restart
        <5>2. count + periods = wanted
          BY <3>1 DEF CountedPeriods
        <5>3. timer' = "ival1" => SendFrame
          BY <3>2
        <5> QED BY <4>1, <5>1, <5>2, <5>3, SendFacts, <1>t
      <4> QED BY <2>3, <4>2, <4>3 DEF SentInv
    <3>4. CASE timer = "ival2"
      <4>1. periods' = periods /\ periods <= sent /\ ~FirstStage /\ count' = count /\ timer' = Restart(count')
        BY <1>6, <3>1, <3>2, <3>4, HandlerFacts DEF StageInv, SentInv
      <4>2. timer' # "ival1"
        BY <4>1, <1>t DEF Restart, FirstStage
      <4> QED BY <2>3, <4>1, <4>2, <1>t DEF SentInv
    <3> QED BY <3>1, <3>3, <3>4
  <2> QED BY <2>4, <2>5
<1>7. CASE UNCHANGED vars
  BY <1>7 DEF vars, SentInv
<1> QED BY <1>1, <1>2, <1>3, <1>4, <1>5, <1>6, <1>7, StepCases DEF Elsewhere
----------------------------------------------------------------------------
(* The frames.                                                             *)

\* The steps that do not touch the frames nor send one.
LEMMA FramesSame ==
  SetupUpdate \/ NoMemory \/ SetCount \/ SetIvals \/ Check \/ StartTimer =>
    /\ op' = op /\ nframes' = nframes /\ currframe' = currframe /\ allocated' = allocated
    /\ filled' = filled /\ met' = met /\ outOfRange' = outOfRange /\ garbage' = garbage
BY DEF SetupUpdate, NoMemory, SetCount, SetIvals, Check, StartTimer, frameVars, history, onWire

\* A frame that is sent from where the index is one of the frames and they are
\* filled is one of the user's.
LEMMA SendsGiven ==
  ASSUME Types, SendFrame, currframe < nframes, 0 .. (nframes - 1) \subseteq filled,
         ~(outOfRange \/ garbage)
  PROVE  ~(outOfRange' \/ garbage')
<1>1. currframe \in 0 .. (nframes - 1) /\ ~(currframe >= allocated)
  BY DEF Types
<1> QED BY <1>1, SendFacts

\* TX_SETUP leaves frames that are filled and an index that is one of them; it
\* is only while it works that the handler may find others.
LEMMA FramesStep ==
  Types /\ PlaceInv /\ FramesInv /\ SentAsGiven /\ [Next]_vars => FramesInv' /\ SentAsGiven'
<1> SUFFICES ASSUME Types, PlaceInv, FramesInv, SentAsGiven, [Next]_vars
             PROVE  FramesInv' /\ SentAsGiven'
  OBVIOUS
<1> USE DEF frameVars, history, onWire
<1>t. /\ nframes \in Nat /\ currframe \in Nat /\ allocated \in Nat /\ i \in Nat
      /\ filled \subseteq 0 .. (allocated - 1)
      /\ pc # "user" => op /\ msg.nframes \in Nat /\ msg.nframes >= 1
      /\ op => nframes >= 1
  <2>1. pc # "user" => op /\ msg.nframes \in 1 .. MaxFrames
    BY MessageTypes DEF PlaceInv
  <2> QED BY <2>1, MessageTypes DEF Types, PlaceInv
<1>1. CASE SetupNew
  <2>1. /\ filled' = 0 .. (nframes' - 1) /\ pc' = "flags" /\ currframe' = 0 /\ nframes' >= 1
        /\ ~outOfRange' /\ ~garbage'
    BY <1>1, MessageTypes DEF SetupNew, Blank
  <2>2. nframes' \in Nat
    BY <1>1, MessageTypes DEF SetupNew
  <2>3. currframe' < nframes'
    BY <2>1, <2>2
  <2> QED BY <2>1, <2>3 DEF FramesInv, SentAsGiven
<1>2. CASE SetupUpdate
  <2>1. /\ i' = 0 /\ pc = "user" /\ pc' \in {"array", "copy"}
    BY <1>2 DEF SetupUpdate
  <2> QED BY <1>2, <2>1, FramesSame DEF FramesInv, SentAsGiven
<1>3. CASE NoMemory \/ SetCount \/ SetIvals \/ Check \/ StartTimer
  <2>1. /\ pc \in {"array", "count", "ivals", "check", "start"}
        /\ pc' \in {"user", "ivals", "check", "start", "send"}
    BY <1>3 DEF NoMemory, SetCount, SetIvals, Check, StartTimer
  <2> QED BY <1>3, <2>1, FramesSame DEF FramesInv, SentAsGiven
<1>4. CASE NewArray
  <2>1. /\ op' = op /\ nframes' = nframes /\ currframe' = currframe /\ filled' = {} /\ met' = met
        /\ outOfRange' = outOfRange /\ garbage' = garbage /\ pc = "array" /\ pc' = "copy" /\ i' = i
    BY <1>4 DEF NewArray
  <2>2. i = 0
    BY <2>1 DEF PlaceInv
  <2> QED BY <2>1, <2>2 DEF FramesInv, SentAsGiven
<1>5. CASE CopyFrame
  <2>1. /\ op' = op /\ nframes' = nframes /\ currframe' = currframe /\ met' = met /\ msg' = msg
        /\ outOfRange' = outOfRange /\ garbage' = garbage /\ pc = "copy"
    BY <1>5 DEF CopyFrame
  <2>2. CASE Copies
    <3>1. filled' = filled \cup {i} /\ i' = i + 1 /\ pc' = "copy"
      BY <1>5, <2>2 DEF CopyFrame
    <3>2. 0 .. (i' - 1) \subseteq filled'
      BY <2>1, <3>1, <1>t DEF FramesInv
    <3> QED BY <2>1, <3>1, <3>2 DEF FramesInv, SentAsGiven
  <2>3. CASE ~Copies
    <3>1. filled' = filled /\ pc' = "nframes" /\ msg.nframes <= i
      BY <1>5, <2>1, <2>3, <1>t DEF CopyFrame, Copies
    <3>2. 0 .. (msg'.nframes - 1) \subseteq filled'
      BY <2>1, <3>1, <1>t DEF FramesInv
    <3> QED BY <2>1, <3>1, <3>2 DEF FramesInv, SentAsGiven
  <2> QED BY <2>2, <2>3
<1>6. CASE SetNframes
  <2>1. /\ op' = op /\ nframes' = msg.nframes /\ currframe' = currframe /\ met' = met /\ filled' = filled
        /\ outOfRange' = outOfRange /\ garbage' = garbage /\ pc = "nframes"
        /\ pc' = IF nframes = msg.nframes THEN "flags" ELSE "rewind"
    BY <1>6 DEF SetNframes
  <2> QED BY <2>1 DEF FramesInv, SentAsGiven
<1>7. CASE Rewind \/ SetFlags
  <2>1. /\ op' = op /\ nframes' = nframes /\ met' = met /\ filled' = filled
        /\ outOfRange' = outOfRange /\ garbage' = garbage
        /\ pc' \in {"flags", "count", "check"} /\ pc \in {"rewind", "flags"}
        /\ currframe' = 0 \/ (currframe' = currframe /\ pc = "flags")
    BY <1>7 DEF Rewind, SetFlags
  <2>2. nframes >= 1
    BY <2>1, <1>t
  <2>3. currframe' = 0 => currframe' < nframes'
    BY <2>1, <2>2, <1>t
  <2>4. met \/ ~op \/ currframe' < nframes'
    BY <2>1, <2>3 DEF FramesInv
  <2> QED BY <2>1, <2>4 DEF FramesInv, SentAsGiven
<1>8. CASE Announce
  <2>1. /\ op' = op /\ nframes' = nframes /\ currframe' = currframe /\ met' = met /\ filled' = filled
        /\ pc = "send" /\ pc' \in {"step", "user"}
    BY <1>8 DEF Announce
  <2>2. FramesInv'
    BY <2>1 DEF FramesInv
  <2>3. SentAsGiven'
    <3>1. CASE SendFrame
      BY <2>1, <3>1, <1>t, SendsGiven DEF FramesInv, SentAsGiven
    <3>2. CASE NoSkb
      BY <2>1, <3>2, NoSkbFacts DEF SentAsGiven
    <3> QED BY <1>8, <3>1, <3>2 DEF Announce
  <2> QED BY <2>2, <2>3
<1>9. CASE StepIndex \/ WrapIndex
  <2>1. /\ op' = op /\ nframes' = nframes /\ met' = met /\ filled' = filled
        /\ outOfRange' = outOfRange /\ garbage' = garbage
    BY <1>9 DEF StepIndex, WrapIndex
  <2>2. /\ pc \in {"step", "wrap"} /\ pc' \in {"wrap", "user"}
        /\ pc = "step" => pc' = "wrap" /\ currframe' = currframe + 1
        /\ pc = "wrap" => /\ pc' = "user"
                          /\ currframe' = IF currframe >= nframes THEN 0 ELSE currframe
    BY <1>9 DEF StepIndex, WrapIndex, ReachedLast
  <2>3. met \/ ~op \/ ((pc = "step" => currframe' <= nframes) /\ (pc = "wrap" => currframe' < nframes))
    BY <2>2, <1>t DEF FramesInv
  <2> QED BY <2>1, <2>2, <2>3 DEF FramesInv, SentAsGiven
<1>10. CASE TimeoutHandler
  <2>1. /\ op' = op /\ nframes' = nframes /\ filled' = filled /\ pc' = pc /\ i' = i /\ msg' = msg
    BY <1>10 DEF TimeoutHandler
  <2>2. CASE met'
    BY <2>1, <2>2 DEF FramesInv, SentAsGiven
  <2>3. CASE ~met'
    <3>1. ~met /\ pc = "user" /\ op
      BY <1>10, <2>3, HandlerFacts DEF PlaceInv
    <3>2. currframe < nframes /\ 0 .. (nframes - 1) \subseteq filled /\ ~(outOfRange \/ garbage)
      BY <3>1 DEF FramesInv, SentAsGiven
    <3>3. currframe' < nframes
      BY <1>10, <3>1, <3>2, <1>t, HandlerSends DEF ReachedLast
    <3>4. ~(outOfRange' \/ garbage')
      <4>1. CASE SendFrame
        BY <3>2, <4>1, SendsGiven
      <4>2. CASE NoSkb
        BY <3>2, <4>2, NoSkbFacts
      <4>3. CASE UNCHANGED onWire
        BY <3>2, <4>3
      <4> QED BY <1>10, <4>1, <4>2, <4>3, HandlerSends
    <3> QED BY <2>1, <3>1, <3>2, <3>3, <3>4 DEF FramesInv, SentAsGiven
  <2> QED BY <2>2, <2>3
<1>11. CASE TxDelete
  <2>1. op' = FALSE /\ pc' = "user" /\ outOfRange' = FALSE /\ garbage' = FALSE
    BY <1>11 DEF TxDelete, Blank
  <2> QED BY <2>1 DEF FramesInv, SentAsGiven
<1>12. CASE UNCHANGED vars
  BY <1>12 DEF vars, FramesInv, SentAsGiven
<1> QED BY <1>1, <1>2, <1>3, <1>4, <1>5, <1>6, <1>7, <1>8, <1>9, <1>10, <1>11, <1>12 DEF Next, TxSetup

----------------------------------------------------------------------------
(* The theorems.                                                           *)

\* Every step of TX_SETUP and of the handler keeps the inductive invariant.
LEMMA IInvStep == IInv /\ [Next]_vars => IInv'
<1> SUFFICES ASSUME IInv, [Next]_vars PROVE IInv'
  OBVIOUS
<1>1. Types
  BY FlatTypes DEF IInv
<1>2. Types'
  BY <1>1, TypesStep DEF IInv
<1>3. TypeOK'
  BY <1>2 DEF Types, TypeOK
<1> QED BY <1>1, <1>2, <1>3, PlaceStep, ReportStep, CountedStep, StageStep, SentStep, FramesStep DEF IInv

\* The inductive invariant holds in every state of an operation.
LEMMA IInvAlways == Spec => []IInv
BY InitInv, IInvStep, PTL DEF Spec

\* However TX_SETUP and bcm_tx_timeout_handler() meet, count stays a number of
\* periods and TX_EXPIRED is sent at most once for a count that was set.
THEOREM OneTxExpired == Spec => []ExpiredOnce
<1>1. Init => expired <= 1
  BY DEF Init
<1>2. IInv /\ expired <= 1 /\ [Next]_vars => (expired <= 1)'
  BY OnceStep, FlatTypes DEF IInv
<1>3. IInv /\ expired <= 1 => ExpiredOnce
  BY DEF IInv, ExpiredOnce
<1> QED BY <1>1, <1>2, <1>3, IInvAlways, PTL DEF Spec

\* TX_EXPIRED tells that count frames are out, in as many periods of ival1, but
\* for a timer that expired within a TX_SETUP and for frames without an skb.
THEOREM CountFramesSent == Spec => []ExpiredMeansSent
<1>1. ASSUME IInv PROVE ExpiredMeansSent
  <2>1. CountedPeriods
    BY <1>1 DEF IInv
  <2>2. ASSUME expired > 0, ~met, ~noskb PROVE sent = wanted
    <3>1. count = 0 /\ periods <= sent /\ sent <= wanted
      BY <1>1, <2>2 DEF IInv, ReportInv, SentInv
    <3>2. periods = wanted /\ sent \in Nat /\ wanted \in Nat
      BY <1>1, <2>1, <2>2, <3>1, FlatTypes DEF IInv, CountedPeriods, Types
    <3> QED BY <3>1, <3>2
  <2> QED BY <2>1, <2>2 DEF ExpiredMeansSent
<1> QED BY <1>1, IInvAlways, PTL

\* What bcm_can_tx() sends are frames that the user gave, of the old message or
\* of the new one, while TX_SETUP and the timer do not overlap.
THEOREM GivenFramesSent == Spec => []SentAsGiven
<1>1. IInv => SentAsGiven
  BY DEF IInv
<1> QED BY <1>1, IInvAlways, PTL
=============================================================================
