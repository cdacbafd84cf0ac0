CONSTANTS
  Samples = {s1, s2}
  SessionCap = 2
  StartTime = 10
  MaxNow = 20
  MaxRuns = 2
  MaxBacklog = 1
  MaxFailures = 1
SYMMETRY SampleSymmetry
SPECIFICATION Spec
CHECK_DEADLOCK FALSE
INVARIANTS
  TypeOK
  OnePlace
  StopFlushes
  OneMainThread
  NoReportDropped
  ShutdownLeavesNothing
PROPERTIES
  ImplementsLedger
  HonoursContract
