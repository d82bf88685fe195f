SPECIFICATION Spec
CHECK_DEADLOCK FALSE
CONSTANTS
  KeySlots = {0}
  Modes = {"STRICT"}
  Repairs = {1}
  Intervals = {1}
  MaxFaults = 2
  MaxOps = 3
  MaxChanges = 0
INVARIANTS NeverSignsZeroized
