SPECIFICATION Spec
CONSTANTS
  Slots = 4
  Capacities <- NoCapacity
  StdSegs = 2
  SealSegs = 2
  IdxMod = 8
  Loads <- SignAfter
  MaxRequests = 6
  MaxStarts = 1
INVARIANTS OutputIsOwn
CHECK_DEADLOCK FALSE
