SPECIFICATION FairSpec
CONSTANTS
  MaxAttempts = 4
INVARIANTS
  TypeOK
  AtMostTwoAttempts
  ConnectedMeansChannel
  NeverStuck
PROPERTIES
  EveryStepCounts
  ConnectReturns
CHECK_DEADLOCK FALSE
