SPECIFICATION Spec
CONSTANTS
  NumShards = 2
  RingSize = 4
  CqCap = 2
  BatchMax = 2
  Quantum = 1
  StallRounds = 1
  IdxMod = 8
  Opcodes = {0}
  SubmitPolicy = "RR_PER_REQ"
  ShardsPerBatch = 2
  SubmitVias = {"inline"}
  SubmitSizes = {1, 2}
  PollSizes = {1, 2}
  PollKinds = {"poll"}
  StopMayTimeout = FALSE
  MaxRequests = 3
  MaxStarts = 2
INVARIANTS TypeOK IInv NothingAbandoned
PROPERTIES ServiceSpec
CHECK_DEADLOCK FALSE
