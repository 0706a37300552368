SPECIFICATION FairSpec
CONSTANTS
  MaxFrames = 2
  Counts = {0, 2}
  Ivals = {{}, {"ival1"}, {"ival1", "ival2"}, {"ival2"}}
  Flags = {{"SETTIMER", "STARTTIMER", "TX_COUNTEVT"}, {"TX_COUNTEVT", "TX_RESET_MULTI_IDX"}, {"TX_ANNOUNCE"}}
  MaxSetups = 2
INVARIANTS
  ExpiredOnce
  ExpiredMeansSent
  SentAsGiven
PROPERTIES
  FirstStageEnds
