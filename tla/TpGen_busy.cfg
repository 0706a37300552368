SPECIFICATION Spec
CONSTANTS
  SNMod = 4
  bs = 2
  mnt = 1
  mnbe = 1
  AckTimeout = TRUE
  MayBeBusy = TRUE
  RxSize = 1
  Sizes = {1, 3}
  MaxMsgs = 2
  ChanCap = 2
INVARIANTS
  NeverStalls
CHECK_DEADLOCK FALSE
