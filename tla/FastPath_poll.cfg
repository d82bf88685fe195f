SPECIFICATION PollerSpec
CONSTANTS
  NumShards = 2
  RingSize = 2
  CqCap = 2
  BatchMax = 2
  Quantum = 2
  StallRounds = 2
  IdxMod = 4
  Opcodes = {0}
  SubmitPolicy = "SHARD_LOCAL"
  ShardsPerBatch = 2
  SubmitVias = {"inline"}
  SubmitSizes = {2}
  PollSizes = {2}
  PollKinds = {"poll", "count"}
  StopMayTimeout = TRUE
  MaxRequests = 3
  MaxStarts = 1
PROPERTIES PollReturns
CHECK_DEADLOCK FALSE
