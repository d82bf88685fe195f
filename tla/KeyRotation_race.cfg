SPECIFICATION Spec
CONSTANTS
  Threads = {"t1", "t2"}
  Ops = {"prepare_typed", "commit"}
  Types = {"P256"}
  Algs = {}
  Surfaces = {}
  MayFail = FALSE
  MaxCalls = 4
PROPERTIES ActiveKeyStable
CHECK_DEADLOCK FALSE
