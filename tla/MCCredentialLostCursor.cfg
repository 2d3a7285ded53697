\* Counterexample: the first certification whose cursor is not stored.
SPECIFICATION Spec
CONSTANTS
  old = old
  Devices = {old}
  MaxEpoch = 3
  MaxEpochGap = 2
  MaxDraws = 8
  Faults = {"refusal"}
INVARIANTS DiscardLeavesNothing
CHECK_DEADLOCK FALSE
