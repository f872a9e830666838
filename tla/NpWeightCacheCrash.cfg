SPECIFICATION Spec
CONSTANTS
  Processes = {p1, p2}
  Weights <- TwoWeights
  CrashPoints <- Stages
  MaxCrashes = 1
INVARIANT DumpedOrDumps
CHECK_DEADLOCK FALSE
