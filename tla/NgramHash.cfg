SPECIFICATION Spec
CONSTANTS
  Requests = {r1, r2}
  Prompts <- MCPrompts
  Sampled <- MCSampled
  TokenMap <- MCTokenMap
  ImageToken = 3
  PadId = 0
  Depth = 2
  BlockSize = 2
  WindowSize = 3
  NumBlocks = 3
  ProfileBlocks = 2
  Setups <- Sound
  MaxLen = 5
  MaxChunk = 2
  MaxDrafts = 1
  MaxBinds = 2
INVARIANTS
  TypeOK
  NgramsMatchHistory
  SlotsHold
PROPERTY SharedSlotsStable
SYMMETRY Symmetry
CHECK_DEADLOCK FALSE
