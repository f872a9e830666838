SPECIFICATION Spec
CONSTANTS
  Setups <- PrestageDP
  MaxSteps = 1
INVARIANT OutputComplete
CHECK_DEADLOCK FALSE
