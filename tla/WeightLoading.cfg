SPECIFICATION MCSpec
CONSTANTS
  Processes = {p1, p2, p3}
  Weights <- TwoWeights
  CrashPoints <- BeforeNames
  MaxCrashes = 2
  Folder <- FourFiles
  Contents <- Tensors
  Indexes <- SomeIndex
  Unneeded = {"e", "f"}
  BadFiles = {"s1", "s3", "all"}
  max_workers = 2
  WorldSizes = {1, 2}
  Kinds = {"lazy", "threads", "fast"}
  Writers = {w1, w2, w3}
  MaxKills = 2
  Formats = {"np_cache", "generator", "writer"}
INVARIANTS
  OneDumps
  ReadersFindDump
  EachTensorOnce
  NothingLeftRunning
  ReplacedOrNot
  NoTempLeft
PROPERTY LoadsEnd
CHECK_DEADLOCK FALSE
