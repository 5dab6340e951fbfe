SPECIFICATION Spec
CONSTANTS
  KeepRecent = 2
  MinMessages = 4
  MaxDepth = 1
  MaxBatch = 2
  MaxCalls = 3
  MaxTurns = 2
  MaxClears = 1
  MaxShrinks = 0
  Outcomes = {"text", "calls"}
  ToolOutcomes = {"ok", "endTurn"}
INVARIANTS QuietWhenIdle RunningCallIsKept FollowUpEndsTurn TurnEndIsOwn
PROPERTIES DestructiveNeedsConsent
