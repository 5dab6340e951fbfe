SPECIFICATION FairSpec
CONSTANTS
  KeepRecent = 2
  MinMessages = 4
  MaxDepth = 1
  MaxBatch = 1
  MaxCalls = 2
  MaxTurns = 1
  MaxClears = 1
  MaxShrinks = 0
  Outcomes = {"text", "calls", "length", "reasoning", "empty", "broken"}
  ToolOutcomes = {"ok"}
INVARIANTS TypeOK
PROPERTIES CancelReleasesAgent
