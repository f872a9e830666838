SPECIFICATION Spec
CONSTANTS
  text = text
  image = image
  Requests = {text, image}
  Setups <- Deployments
  Prompt <- Prompts
  Spans <- ImageSpans
  Window = 3
  MaxImageTokens = 5
  BlockSize = 2
  NumBlocks = 8
  MaxModelLen = 8
  MaxTokens = 9
  CaptureSizes = {2, 6}
  ChunkSize = 1
INVARIANTS
  WindowExact
  ImagesWhole
  DraftsExact
  BlocksWhole
  PaddingReadsNothing
  PlanFits
CHECK_DEADLOCK FALSE
