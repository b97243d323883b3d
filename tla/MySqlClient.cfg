SPECIFICATION FairSpec
CONSTANTS
  Calls = {c1, c2}
  MaxRetries = 2
  Faults <- AllFaults
INVARIANTS
  TypeOK
  OneFaultIsAbsorbed
PROPERTIES
  ImplementsSqlCall
  EveryStepCounts
  CallsReturn
CHECK_DEADLOCK FALSE
