SPECIFICATION Spec
CONSTANTS
  Agora = 7
  IdModulus = 256
  FieldOrder = 463
  ScalarOrder = 57
  ByteStrings = 1024
  Holders = {1, 3}
  Generations = {0, 1, 2}
  Backends = {"plonk"}
  Claims <- MCClaims
  Inboxes = {1, 3}
  MaxEpoch = 2
  MaxMigrations = 2
  MaxRevoked = 1
  RootSecret <- MCRootSecret
  Opening <- MCOpening
  EpochSecret <- MCEpochSecret
INVARIANT OneCountPerKey
