SPECIFICATION Spec
CONSTANTS
  Skills = {"plan", "review"}
  SkillCap = 2
  Kinds = {"turn", "skill", "quick", "clear"}
  MaxTyped = 2
  MaxRounds = 3
  MaxSteps = 1
INVARIANTS DispatchInv DownIsQuiet
PROPERTIES SkillHeedsCancel ServesInTurn
