CONSTANTS
  Tags = {t1}
  MaxAgents = 2
  MaxSignals = 3
  MaxFailures = 1
SPECIFICATION Spec
CHECK_DEADLOCK FALSE
INVARIANTS
  TypeOK
  OneAgentRuns
  LostBehindKill
PROPERTY
  KillFreesSender
