SPECIFICATION AppSpec
CONSTANTS
  KeepRecent = 2
  MinMessages = 4
  MaxMessages = 4
  MaxFaults = 1
  MaxKeys = 2
  Records <- MCRecords
  Files <- MCFiles
  Foreign <- MCForeign
  Silence = Silence
INVARIANTS
  AppInv
  HostIsCurrent
  
  ClearMeansSaved
PROPERTIES
  LoadedIsPaired
