SPECIFICATION FairSpec
CONSTANTS
  Frames = {0, 1, 3}
  FlagSets = {{}, {"RX_ANNOUNCE_RESUME", "RX_NO_AUTOTIMER"}, {"RX_RTR_FRAME"}}
  TimerFlags = {{}, {"SETTIMER", "STARTTIMER"}}
  Values <- MCValues
  Ival1s = {0, 1}
  Ival2s = {0, 3}
  MaxUpdates = 1
INVARIANTS
  
  ThrottleRespected
  TimeoutMeansSilence

  
