SPECIFICATION Spec
CONSTANTS
  MaxFrames = 4
  MaxFaults = 2
  MaxLoops = 2
INVARIANTS NoFrameLost BaudClose
PROPERTIES Recovers
CHECK_DEADLOCK FALSE
