\* A class of up to four leaves; every exclusion set over a two-bit domain.
SPECIFICATION Spec
CONSTANTS
  Commitments = {1, 2, 3, 4}
  TreeDepth = 3
  GapDepth = 2
  Upper = 3
  Modulus = 6
  RawMax = 9
INVARIANTS PathsVerifyExactly AbsenceIsExact TwinsAgree
