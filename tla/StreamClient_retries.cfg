SPECIFICATION StreamSpec
CONSTANTS
  Answers <- MCAnswers
  MaxRetries = 2
  MaxStreams = 2
INVARIANTS
  StreamInv
  DeliveredOnce
  CallsAreAsSent
  ShownIsVisible
