SPECIFICATION FairSpec
CONSTANTS
  Devices = {d1, d2}
  Polls = {p1, p2}
  MaxQueue = 1
  MaxChanges = 1
  MaxFailures = 1
INVARIANTS
  TypeOK
  UndisturbedPollIsAccurate
  NoStatusWithoutRedis
PROPERTIES
  OnlyOverlapGoesBack
  EventuallyAccurate
  DevicesAppear
