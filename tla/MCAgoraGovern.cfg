\* Every kind of quorum decision (two of them malformed), with migration, access and the log; the operator implements EpochMembership.
SPECIFICATION Spec
CONSTANTS
  Leaves <- MCLeaves
  SkOf <- FounderLineage
  ClassOrder <- OneClass
  VoucherOf <- VouchInA
  FoundingThreshold <- ThresholdOne
  Founder = "f"
  FounderClasses <- FoundsA
  InboxKeys = {"k"}
  Decisions <- GovernDecisions
  Genesis = 0
  MaxEpoch = 1
  Capacity = 2
  MinHorizon = 1
  DefaultHorizon = 1
  LogEnabled = TRUE
  MaxDraws = 3
INVARIANTS CapacityHeld TypeOK OpenCountsAreCurrent LogIsTheHistory RevocationIsACut AccessEndsWithStanding
PROPERTIES DecisionsAreBacked ImplementsMembership
CHECK_DEADLOCK FALSE
