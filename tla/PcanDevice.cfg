SPECIFICATION Spec
CONSTANTS
  Devs = {1, 2}
  Files = {f1}
  Setups <- MCSetups
INVARIANTS   OpenPathsServed
CHECK_DEADLOCK FALSE
