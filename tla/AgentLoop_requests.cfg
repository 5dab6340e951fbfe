SPECIFICATION Spec
CONSTANTS
  KeepRecent = 2
  MinMessages = 4
  MaxDepth = 1
  MaxBatch = 2
  MaxCalls = 3
  MaxTurns = 1
  MaxClears = 0
  MaxShrinks = 1
  Outcomes = {"text", "calls", "http4", "tooLong"}
  ToolOutcomes = {"ok", "failed", "outside"}
INVARIANTS RetryIsPaired  PromptFirst
