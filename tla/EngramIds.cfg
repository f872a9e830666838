SPECIFICATION IdsSpec
CONSTANTS
  NumLayers = 2
  NumNgrams = 2
  NumHeads = 4
  VocabSize = 1672
  NumRows = 5
  MaxTokens = 5
  LongBits = 16
  IdBits = 15
  CompressedSizes = {1, 100}
  NumShards = 3
  Draw <- LeastMiddleGreatest
INVARIANTS
  FindsOwnRow
  PrimesWithoutGap
  BucketsDisjoint
  RowsOfOwnBucket
PROPERTY HashesEnd
CHECK_DEADLOCK FALSE
