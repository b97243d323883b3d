SPECIFICATION Spec
CONSTANTS
  Modules = {1, 2}
  Hashes <- SampleHashes
  MaxChecks = 2
INVARIANTS
  TypeOK
  RecordIsComplete
  ModulesNotOlderThanResult
  StatusAgreesWithPage
PROPERTIES
  ImplementsPileRecords
CHECK_DEADLOCK FALSE
