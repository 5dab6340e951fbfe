SPECIFICATION ToolsSpec
CONSTANTS
  Symbols <- MCSymbols
  RangeBytes = 3
  RangeLines = 2
  MaxCells = 4
  Context = 1
  DiffLines = 5
  MaxWrite = 3
  MaxFile = 5
  ListEntries = 4
  ListDepth = 2
  ScanFiles = 2
  Contents <- MCContents
  Searches <- MCSearches
  Replaces <- MCReplaces
  Saves <- MCSaves
  Tree <- MCTree
  Prompts = {p}
  Lists <- MCLists
  Tasks = {"a"}
  FileNames = {1, 2, 3}
  NamedFiles = 2
  PruneThreshold = 3
  MergeCount = 2
  MaxBriefs = 1
INVARIANTS
  
  PagesAreTheFile
PROPERTIES
  
  OnlyWhatWasAsked
