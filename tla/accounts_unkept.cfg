\* A statement of the sources that the code does not keep, and TLC's counterexample.
SPECIFICATION LoginSpec
CONSTANTS
  r1 = r1
  r2 = r2
  r3 = r3
  r4 = r4
  s1 = s1
  s2 = s2
  t1 = t1
  old = old
  Requests = {r1, r2, r3}
  Pasted = {t1}
  Sessions = {s1, s2}
  Old = old
  OverQuota = {old}
  Rotations = {FALSE}
  Failures = {"save"}
  Operations <- AnyOperation
  MaxId = 2
  Target <- Renewals
  Ports = {1}
  Visits <- Callbacks
  MaxRestarts = 1
CHECK_DEADLOCK FALSE
INVARIANT FileLoads
\* Others that the same instance violates:
\* INVARIANT TokensApart
\* PROPERTY RenewalEnables
\* INVARIANT ClientMatches
\* PROPERTY QuotaOfOwner
