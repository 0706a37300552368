SPECIFICATION Spec
CONSTANTS
  EFF = "EFF"
  RTR = "RTR"
  SffMask = {"x"}
  EffMask = {"x", "y"}
  Socks = {"s", "t"}
  Devs = {"d", "e"}
  FilterSets <- SomeFilterSets
  Frames <- SomeFrames
  Unpluggable = {"d"}
  MaxIndex = 3
INVARIANTS
  DeliveredAsAsked
  NothingLeftBehind
CHECK_DEADLOCK FALSE
