SPECIFICATION Spec
CONSTANTS
  Requests = {r1, r2}
  Prompts <- ReloadPrompts
  Sampled <- MCSampled
  TokenMap <- MCTokenMap
  ImageToken = 3
  PadId = 0
  Depth = 2
  BlockSize = 2
  WindowSize = 4
  NumBlocks = 4
  ProfileBlocks = 2
  Setups <- Reload
  MaxLen = 6
  MaxChunk = 3
  MaxDrafts = 1
  MaxBinds = 1
INVARIANTS
  NgramsMatchHistory
SYMMETRY Symmetry
CHECK_DEADLOCK FALSE
