SPECIFICATION Spec
CONSTANTS
  NumShards = 2
  RingSize = 2
  CqCap = 2
  BatchMax = 2
  Quantum = 2
  StallRounds = 1
  IdxMod = 4
  Opcodes = {0}
  SubmitPolicy = "SHARD_LOCAL"
  ShardsPerBatch = 1
  SubmitVias = {"inline", "slab"}
  SubmitSizes = {1, 2}
  PollSizes = {1}
  PollKinds = {"poll"}
  StopMayTimeout = FALSE
  MaxRequests = 5
  MaxStarts = 1
INVARIANTS OwnAnswer LiveRequestsIntact CqNeverOverrun
PROPERTIES CommittedStable
CHECK_DEADLOCK FALSE
