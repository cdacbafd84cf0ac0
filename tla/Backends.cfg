SPECIFICATION Spec
CONSTANTS
  Kinds = {"pyspy", "rbspy", "pprof"}
  Threads = {t1, t2}
  NoThread = NoThread
  Stacks <- MCStacks
  Grouped <- MCGrouped
  TagValues <- MCTagValues
  Config = {"pid", "thread_id"}
  QueueSize = 1
  Period = 10
  MaxSamples = 2
  MaxCalls = 3
  MaxFailures = 1
INVARIANTS TypeOK ReportedOnce LostOnlyInWindow TagScopes ProfilesDecode
PROPERTIES QuietAfterShutdown ShutdownReturns
CHECK_DEADLOCK FALSE
