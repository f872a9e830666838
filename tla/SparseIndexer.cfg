SPECIFICATION MCSpec
CONSTANTS
  Setups <- Models
  Batches <- Usual
  TopK = 2
  Threshold = 3
  MaxRows = 5
  MaxSteps = 2
  dcp_world_size = 2
  cp_interleave = 2
  topk_tokens = 2
  MaxSeqLen = 5
  Scores = {1, 2, 3}
  SeqLens <- RowLengths
INVARIANTS
  CachesWritten
  RowsOwn
  MasksOwn
  ScoresOwn
  MergeExact
PROPERTY IndexerEnds
CHECK_DEADLOCK FALSE
