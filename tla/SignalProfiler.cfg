SPECIFICATION Spec
CONSTANTS
  Callers = {c1, c2}
  Threads = {1, 2}
  NumShards = 2
  RingCapacity = 1
  Interval = 2
  MaxStarts = 2
  Processes <- MCProcesses
  MaxSamples = 2
INVARIANTS TypeOK RecordsAreWhole OnePlace ArmedIsReady HandlerNeverWaits DiscoveryIsSound DiscoveryFinds
PROPERTIES StateIsSettled RecordedIsSent
CHECK_DEADLOCK FALSE
