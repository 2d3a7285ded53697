\* Sessions, migrations and a revocation race into two classes of three places over three epochs; under the schedule admissions land.
SPECIFICATION FairSpec
CONSTANTS
  Leaves <- MCLeaves
  SkOf <- FounderLineage
  ClassOrder <- TwoClasses
  VoucherOf <- VouchInA
  FoundingThreshold <- ThresholdTwoInB
  Founder = "f"
  FounderClasses <- FoundsBoth
  InboxKeys = {"k"}
  Decisions <- MembershipDecisions
  Genesis = 0
  MaxEpoch = 2
  Capacity = 3
  MinHorizon = 1
  DefaultHorizon = 2
  LogEnabled = FALSE
  MaxDraws = 2
INVARIANTS LandsAtMostOnce ReceiptsHonoured InboxTravelsWithLeaf MigrationNeverInflates RootsFixedThisEpoch StandingIsLostForGood
PROPERTIES AdmissionsAreBacked ReceiptsLand
CHECK_DEADLOCK FALSE
