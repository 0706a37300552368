SPECIFICATION Spec
CONSTANTS
  SNMod = 4
  bs = 3
  mnt = 1
  mnbe = 1
  AckTimeout = TRUE
  MayBeBusy = TRUE
  RxSize = 5
  Sizes = {1, 5}
  MaxMsgs = 2
  ChanCap = 3
INVARIANTS
  SnAlreadyIncreased
CHECK_DEADLOCK FALSE
