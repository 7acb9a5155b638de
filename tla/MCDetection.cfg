SPECIFICATION MCSpec
CONSTANTS
  NULL = NULL
  Events = {"e1", "e2"}
  RULES <- MCRULES
  Matching <- MCMatching
  Requests = {"r1"}
  Manual = {"m1"}
  Triages = {"worker", "t1"}
  Worker = "worker"
  BatchSize = 1
  MaxFaults = 1
  Selections <- MCNamed
  Capital = {"Sh"}
  Prefix <- MCPrefixes
  Mapped = {"image", "user"}
  Skipped = {"*"}
  Rows <- MCRows
  MaxTokens = 5
INVARIANTS
  DetectionIsTrue
  AnsweredIsWhole
  TriagedIsSaved
  CompilesAsSigma
PROPERTIES
  StoredIsTriaged
CHECK_DEADLOCK FALSE
