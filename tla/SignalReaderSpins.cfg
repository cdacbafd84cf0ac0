SPECIFICATION Spec
CONSTANTS
  Callers = {c1}
  Threads = {1}
  NumShards = 2
  RingCapacity = 1
  Interval = 2
  MaxStarts = 1
  Processes <- MCProcesses
  MaxSamples = 1
PROPERTY WaitsForNotification
CHECK_DEADLOCK FALSE
