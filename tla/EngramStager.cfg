SPECIFICATION Spec
CONSTANTS
  NumLayers = 2
  MaxTokens = 2
  MaxSteps = 3
  MaxDummies = 1
INVARIANTS
  ForwardReadsOwnStep
  HostReadsSettledHashes
  HostRewritesIdleRows
  IInv
PROPERTY RowsSpec
CHECK_DEADLOCK FALSE
