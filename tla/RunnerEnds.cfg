CONSTANTS
  text = text
  word = word
  image = image
  Tokens = {text, word, image}
  Images = {image}
  Parallel = 1
  KvSize = 3
  CachePadding = 2
  WindowSize = 1
  Requests = {r1, r2, r3}
  Jobs <- MixedJobs
  BatchSize = 2
  MultiUser = {TRUE, FALSE}
  MaxPredict = 2
  MaxHeld = 1
SPECIFICATION FairSpec
INVARIANTS
  AttentionExactUnlessMerged
PROPERTIES
  RequestsEnd
