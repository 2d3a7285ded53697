\* Creation, migration and re-creation on two devices, refused writes.
SPECIFICATION Spec
CONSTANTS
  old = old
  new = new
  Devices = {old, new}
  MaxEpoch = 0
  MaxEpochGap = 2
  MaxDraws = 8
  Faults = {"refusal"}
SYMMETRY DeviceSymmetry
INVARIANTS MaterialIsWhole
CHECK_DEADLOCK FALSE
