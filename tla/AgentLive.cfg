CONSTANTS
  Samples = {s1}
  SessionCap = 1
  StartTime = 10
  MaxNow = 10
  MaxRuns = 2
  MaxBacklog = 1
  MaxFailures = 0
SPECIFICATION FairSpec
CHECK_DEADLOCK FALSE
PROPERTIES
  StopEnds
  ShutdownEnds
  SamplesArePushed
