SPECIFICATION DeviceSpec
CHECK_DEADLOCK FALSE
CONSTANTS
  Threads <- One
  Ops <- AllOps
  Types <- Both
  Algs <- AllAlgs
  Surfaces <- Guarded
  MayFail = FALSE
  MaxCalls = 4
INVARIANTS DeviceTypeOK SelectedWhole OwnWholeKey MirrorLeads
INVARIANTS ReadsAreOwn OutputsKept NoGarbageBlessed
PROPERTIES SelectedStable TwoFaultsToZeroize
