CONSTANTS
  text = text
  word = word
  image = image
  Tokens = {text, word, image}
  Images = {image}
  Parallel = 2
  KvSize = 6
  CachePadding = 1
  WindowSize = 99
  Requests = {r1, r2, r3}
  Jobs <- MixedJobs
  BatchSize = 2
  MultiUser = {TRUE, FALSE}
  MaxPredict = 2
  MaxHeld = 1
SYMMETRY Symmetry
SPECIFICATION Spec
INVARIANTS
  AttentionExactUnlessMerged
  PositionsExact
  PromptIntact
  SeatForEveryPermit
  NeverFull
