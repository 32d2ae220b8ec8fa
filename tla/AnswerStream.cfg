SPECIFICATION FairSpec
CONSTANTS
  Deltas <- MCDeltas
  LongDeltas <- MCLongDeltas
  Reasons <- MCReasons
  MaxDeltas = 3
INVARIANTS
  TypeOK
  ReasonIsTrue
PROPERTIES
  DeliversAnswer
  PromptReturns
CHECK_DEADLOCK FALSE
