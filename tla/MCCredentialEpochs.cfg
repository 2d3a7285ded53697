\* Certification, sweeps and the handoff under every fault, on one device.
SPECIFICATION Spec
CONSTANTS
  old = old
  Devices = {old}
  MaxEpoch = 2
  MaxEpochGap = 1
  MaxDraws = 6
  Faults = {"refusal", "unwinding", "crash"}
INVARIANTS CertifiedIsSweepable ForwardSecrecy HandedOffIsSilent
CHECK_DEADLOCK FALSE
