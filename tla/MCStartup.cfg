SPECIFICATION FairSpec
CONSTANTS
  Timeout = 2
  Backoff = 1
  Threshold = 4
  Retries = 2
  Pairings <- MCPairings
  Networks <- MCNetworks
  Digest <- MCDigest
  Secret <- MCSecret
  MaxFaults = 1
INVARIANTS
  MismatchNeverPlays
  SameGameId
  AuditKnowsTheId
  LateHandshakeHarmless
PROPERTIES
  NoFalseFreeze
  StartupEnds
CHECK_DEADLOCK FALSE
