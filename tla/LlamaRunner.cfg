SPECIFICATION FairSpec
CONSTANTS
  Tokens = {"a", "b"}
  Parallel = 2
  KvSize = 6
  Prompts <- MCPrompts
  NumKeeps = {0, 1}
  BatchSize = 2
  UBatchSize = 3
  MultiUser = {TRUE, FALSE}
  ComputeMayFail = TRUE
  NumPredict = 2
  MaxHeld = 1
  MaxRequests = 3
INVARIANTS
  UsedExact
  SlotsStoredUnlessTorn
  AttentionExactUnlessTorn
  NeverFull
PROPERTIES
  SequencesEnd
CHECK_DEADLOCK FALSE
