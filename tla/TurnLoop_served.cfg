SPECIFICATION FairSpec
CONSTANTS
  Skills = {"plan", "review"}
  SkillCap = 1
  Kinds = {"turn", "skill"}
  MaxTyped = 2
  MaxRounds = 1
  MaxSteps = 1
PROPERTIES WaitingIsServed QuitEndsUnlessTakenBack
