SPECIFICATION UnwindSpec
CONSTANTS
  Frames = {f1, f2}
  Codes = {c1}
  Memories <- MCMemories
  MaxDepth = 3
  Null = Null
  Fault = Fault
PROPERTY UnwindAlwaysEnds
CHECK_DEADLOCK FALSE
