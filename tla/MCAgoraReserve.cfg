\* Counterexample: the envelope served twice in one epoch.
SPECIFICATION Spec
CONSTANTS
  Leaves <- MCLeaves
  SkOf <- MCSkOf
  ClassOrder <- OneClass
  VoucherOf <- VouchInA
  FoundingThreshold <- ThresholdOne
  Founder = "f"
  FounderClasses <- FoundsA
  InboxKeys = {"k"}
  Decisions <- RenewalDecisions
  Genesis = 0
  MaxEpoch = 2
  Capacity = 2
  MinHorizon = 1
  DefaultHorizon = 2
  LogEnabled = TRUE
  MaxDraws = 1
PROPERTIES ServedEnvelopeIsStable
CHECK_DEADLOCK FALSE
