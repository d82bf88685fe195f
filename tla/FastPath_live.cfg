SPECIFICATION FairSpec
CONSTANTS
  NumShards = 2
  RingSize = 2
  CqCap = 1
  BatchMax = 2
  Quantum = 2
  StallRounds = 1
  IdxMod = 4
  Opcodes = {0}
  SubmitPolicy = "SHARD_LOCAL"
  ShardsPerBatch = 2
  SubmitVias = {"inline"}
  SubmitSizes = {2}
  PollSizes = {1}
  PollKinds = {"poll"}
  StopMayTimeout = FALSE
  MaxRequests = 4
  MaxStarts = 1
PROPERTIES EveryRequestAnswered
CHECK_DEADLOCK FALSE
