SPECIFICATION Spec
CONSTANTS
  Modules = {1, 2}
  Hashes <- SampleHashes
  MaxChecks = 2
INVARIANTS
  AnyAbnormalIsFailed
CHECK_DEADLOCK FALSE
