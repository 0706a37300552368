SPECIFICATION FairSpec
CONSTANTS
  mntc = 1
  mnct = 1
  Testing = {"client"}
  Disconnecting = {"client", "server"}
  AutoDisconnecting = {"client", "server"}
  Reuse = TRUE
  MayCrash = {"client", "server"}
  MaxOpens = 2
  ChanCap = 2
INVARIANTS NoLostWakeup TimersFit ParametersArrive
PROPERTIES CallsReturn DeadPeerDetected
CHECK_DEADLOCK FALSE
