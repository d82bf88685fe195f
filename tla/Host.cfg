SPECIFICATION Spec
CHECK_DEADLOCK FALSE
INVARIANTS PqAnswersAreOwn RunningAsWanted  DeterministicKept
INVARIANTS LegacyAnswers BridgeAnswers
INVARIANTS FlagsAreTrue GpuStaysUsable
INVARIANTS DriversHonest PayloadsConserved CompletionIsOwn
PROPERTIES RefusalIsClean
