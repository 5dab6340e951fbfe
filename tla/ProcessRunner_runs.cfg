SPECIFICATION FairRunnerSpec
CONSTANTS
  Callers = {"agent", "skill"}
  Commands <- MCCommands
  Cap = 1
  MaxWritten = 3

  
  
PROPERTIES
  PollingEnds
