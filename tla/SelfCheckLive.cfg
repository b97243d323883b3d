SPECIFICATION FairSpec
CONSTANTS
  Devices = {d1}
  MaxChecks = 2
  Faults <- StoreFaults
  MaxFaults = 0
INVARIANTS
  TypeOK
PROPERTIES
  CheckingEnds
  RequestsSettle
  OnlyStartupLoadGoesBack
CHECK_DEADLOCK FALSE
