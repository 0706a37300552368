SPECIFICATION FairSpec
CONSTANTS
  SNMod = 4
  mnt = 1
  mnbe = 1
  Confs = {{"AUTO_DISCONNECT"}, {"HALF_DUPLEX", "AUTO_DISCONNECT"}}
  a = a
  b = b
  Nodes = {a, b}
  Initiators = {a, b}
  MaxMsgs = 2
  ChanCap = 2
INVARIANTS InOrderDelivery Alternation IdleTimerHalfDuplex
PROPERTIES Settled
CHECK_DEADLOCK FALSE
