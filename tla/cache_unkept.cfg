\* A statement of the sources that the code does not keep, and TLC's counterexample.
SPECIFICATION Spec
CONSTANTS
  Requests = {r1, r2}
  Prompts <- MCPrompts
  TokensOf <- MCTokensOf
  FallbackToKeyId = TRUE
  SingleFlight = TRUE
  MaxInflight = 1
  InflightTtl = 1
  MaxEntries = 3
  MaxSessionEntries = 2
  EvictExpiredFirst = TRUE
  DefaultTtl = 1
  MinTtl = 1
  MAX_TTL_SECS = 2
  OldFile <- MCOldFile
  MaxTime = 2
  MaxFaults = 1
INVARIANT OneWriter
\* Others that the same instance violates:
\* INVARIANT FailedWriteRetried
