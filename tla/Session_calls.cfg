SPECIFICATION MessagesSpec
CONSTANTS
  KeepRecent = 2
  MinMessages = 4
  CallIds = {1, 2}
  MaxMessages = 5
  KeepTools = 1
  KeepTexts = 1
  ShortText = 2
  Notice = 2
  Headroom = 2
  Reserve = 4
  Word = 64
  MaxLength = 6
  MaxOpened = 1
  Started <- MCStarted
  Said <- MCSaid
  Windows <- MCWindows
INVARIANTS RepairedHasNoOrphans ShrinkInv
PROPERTIES ShrinkingKeepsPairs CompactionKeepsUser
