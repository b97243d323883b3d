SPECIFICATION FairSpec
CONSTANTS
  Devices = {d1, d2, d3}
  LongIds = {d1, d2}
  MaxRecords = 2
  Limit = 1
INVARIANTS
  TypeOK
  HistoryServed
  DetailServed
PROPERTIES
  LoadsEnd
