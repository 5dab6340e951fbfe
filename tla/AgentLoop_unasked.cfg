SPECIFICATION Spec
CONSTANTS
  KeepRecent = 2
  MinMessages = 4
  MaxDepth = 1
  MaxBatch = 2
  MaxCalls = 2
  MaxTurns = 1
  MaxClears = 0
  MaxShrinks = 0
  Outcomes = {"text", "calls"}
  ToolOutcomes = {"ok"}
INVARIANTS EveryBatchAsked
