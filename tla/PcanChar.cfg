SPECIFICATION Spec
CONSTANTS
  Readers = {p2}
  Writers = {p1, p2}
  Nonblock = {p2}
  Messages <- MCMessages
  Lines <- MCLines
  Frames <- MCFrames
  Hardware = {"sja", "usb6", "usb7"}
  WCount = 2
  RCount = 2
  Block = 1
  MaxPerIrq = 1
  RxDepth = 3
  Troubles = {"EPI", "reset", "timeout", "urb", "submit", "unplug", "readurb"}
  MaxEvents = 3
INVARIANTS ReadyMeansSent  ReceivedOrReported NoLostWakeup
PROPERTIES FifosAreQueues
CHECK_DEADLOCK FALSE
