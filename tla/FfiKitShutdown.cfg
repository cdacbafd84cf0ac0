CONSTANTS
  Tags = {t1}
  MaxAgents = 1
  MaxSignals = 1
  MaxFailures = 0
SPECIFICATION Spec
CHECK_DEADLOCK FALSE
PROPERTY
  KillStopsProfiler
