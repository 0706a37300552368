SPECIFICATION FairSpec
CONSTANTS
  SNMod = 4
  bs = 3
  mnt = 1
  mnbe = 1
  AckTimeout = TRUE
  MayBeBusy = FALSE
  RxSize = 6
  Sizes = {1, 4, 6}
  MaxMsgs = 2
  ChanCap = 3
INVARIANTS
  TypeOK
  InOrderDelivery
  CompleteMeansDelivered
  NoBadAdjust
PROPERTIES
  EventuallySettled
  ImplementsTransfer
CHECK_DEADLOCK FALSE
