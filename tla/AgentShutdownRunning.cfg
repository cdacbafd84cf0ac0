CONSTANTS
  Samples = {s1}
  SessionCap = 1
  StartTime = 10
  MaxNow = 10
  MaxRuns = 1
  MaxBacklog = 1
  MaxFailures = 0
SPECIFICATION FairSpec
CHECK_DEADLOCK FALSE
PROPERTY
  ShutdownEndsAlways
