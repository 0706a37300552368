SPECIFICATION QueueFairSpec
CONSTANTS
  MaxMsgs = 7
INVARIANTS NoMessageLost NoUseAfterFree
PROPERTIES NoneLeftBehind
CHECK_DEADLOCK FALSE
