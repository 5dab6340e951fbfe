SPECIFICATION FairSkillSpec
CONSTANTS
  Agents = {"lead", "peer", "worker"}
  Configs <- MCConfigs
  Replies <- MCReplies
INVARIANTS
  SkillInv
  OneLayerDeep
  ConvergedIsUnanimous
PROPERTIES
  SkillRunEnds
