SPECIFICATION Spec
CONSTANTS
  Devices = {d1}
  MaxChecks = 2
  Faults <- PipelineFaults
  MaxFaults = 2
INVARIANTS
  ShownIsRecorded
  NoResultLost
  DuplicatesNeedFaults
  RecordNotOlderThanResult
  RecordedInOrder
PROPERTIES
  ImplementsLedger
  ImplementsPileRecords
CHECK_DEADLOCK FALSE
