SPECIFICATION Spec
CONSTANTS
  NumShards = 2
  RingSize = 4
  CqCap = 2
  BatchMax = 2
  Quantum = 2
  StallRounds = 1
  IdxMod = 8
  \* OpCode::SHA256 and OpCode::SHA512
  Opcodes = {10, 11}
  SubmitPolicy = "SHARD_LOCAL"
  ShardsPerBatch = 2
  SubmitVias = {"inline"}
  SubmitSizes = {1, 2}
  PollSizes = {1, 2}
  PollKinds = {"poll"}
  StopMayTimeout = FALSE
  MaxRequests = 4
  MaxStarts = 1
INVARIANTS OwnOpcode
CHECK_DEADLOCK FALSE
