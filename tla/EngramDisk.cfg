SPECIFICATION Spec
CONSTANTS
  Threads = {th1, th2}
  Chunk = 2
  Tables = 2
  WeightBytes = 2
  ScaleBytes = 1
  FileRows = 5
  RowStart = 1
  NumRows = 3
  Requests <- MCRequests
  Unique <- Sorted
  MaxCalls = 2
  MaxErrors = 1
INVARIANTS
  RowsComplete
  WritesDisjoint
  ErrorsRaise
PROPERTY CallsEnd
CHECK_DEADLOCK FALSE
