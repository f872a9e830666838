SPECIFICATION Spec
CONSTANTS
  Setups <- Models
  Batches <- Uneven
  TopK = 2
  Threshold = 3
  MaxRows = 6
  MaxSteps = 1
INVARIANT SelectionOwn
CHECK_DEADLOCK FALSE
