\* Three artifacts as bytes, eight as text, and every list of up to three short values.
SPECIFICATION Spec
CONSTANTS
  Radix = 3
  DigestLen = 1
  LengthPrefix = 2
  U64Len = 1
  USizeMax = 2
  NotUtf8 <- MCNotUtf8
  Bundles <- MCBundles
  Invitations <- MCInvitations
  Handoffs <- MCHandoffs
  ByteSize = 16
  CharSize = 8
  CheckLen = 1
  Digest <- MCDigest
  Armored <- MCArmored
  Absorbed <- MCAbsorbed
  MaxEdits = 2
INVARIANTS EncodingsAreCanonical ArmorIsRecovered
CHECK_DEADLOCK FALSE
