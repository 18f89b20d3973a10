SPECIFICATION Spec
CONSTANTS
  Requests = {r1, r2}
  Prompts <- MCPrompts
  TokensOf <- MCTokensOf
  FallbackToKeyId = TRUE
  SingleFlight = TRUE
  MaxInflight = 1
  InflightTtl = 1
  MaxEntries = 3
  MaxSessionEntries = 2
  EvictExpiredFirst = TRUE
  DefaultTtl = 1
  MinTtl = 1
  MAX_TTL_SECS = 2
  OldFile <- MCOldFile
  MaxTime = 2
  MaxFaults = 1
SYMMETRY Symmetry
INVARIANTS IndexExact MarkHasWriter SavedWhenClean
PROPERTY NextTurnReads
\* Hold on this instance as well: INVARIANTS CapacityHolds
