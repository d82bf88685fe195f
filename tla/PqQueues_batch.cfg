SPECIFICATION Spec
CHECK_DEADLOCK FALSE
CONSTANTS
  Modes = {0}
  KeySlots = {0}
  BatchMax = 2
  SigSlots = 8
  Calls <- BatchCalls
  MaxCalls = 1
  MaxLoads = 1
  MaxRing = 0
INVARIANTS BatchCounted
