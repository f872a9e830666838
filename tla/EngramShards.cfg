SPECIFICATION Spec
CONSTANTS
  Setups <- Sound
  MaxSteps = 2
INVARIANTS
  OutputComplete
  BufferFits
PROPERTY StepsEnd
CHECK_DEADLOCK FALSE
