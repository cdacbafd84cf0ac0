SPECIFICATION Spec
CONSTANTS
  Frames = {"f1", "f2", "f3"}
  Codes = {"c1", "c2"}
  Memories <- MCMemories
  MaxDepth = 2
  Null = Null
  Fault = Fault
  Unicodes = {"s1", "s2", "s3"}
  Contents <- MCContents
  Objects <- MCObjects
  Heaps <- MCHeaps
  Remains <- MCRemains
  Width <- MCWidth
  BufLen = 4
  Period = 10
  MaxSamples = 2
  MaxChanges = 2
  MaxFlushes = 2
INVARIANTS TypeOK FramesAreTheStack ProfileDecodes NamesAreCurrent
PROPERTY UnwindEnds
CHECK_DEADLOCK FALSE
