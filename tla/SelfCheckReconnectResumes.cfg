SPECIFICATION FairSpec
CONSTANTS
  Devices = {d1}
  MaxChecks = 1
  Faults <- LinkFault
  MaxFaults = 1
PROPERTIES
  ReconnectResumes
CHECK_DEADLOCK FALSE
