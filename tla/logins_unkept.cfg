\* A statement of the sources that the code does not keep, and TLC's counterexample.
SPECIFICATION UnfairToServers
CONSTANTS
  r1 = r1
  r2 = r2
  r3 = r3
  r4 = r4
  s1 = s1
  s2 = s2
  t1 = t1
  old = old
  Requests = {r1, r2}
  Pasted = {t1}
  Sessions = {s1, s2}
  Old = old
  OverQuota = {old}
  Rotations = {TRUE}
  Failures = {}
  Operations <- LoggingIn
  MaxId = 2
  Target <- Logging
  Ports = {1}
  Visits <- SilentToo
  MaxRestarts = 0
CHECK_DEADLOCK FALSE
PROPERTY CallbackUsed
\* Others that the same instance violates:
\* PROPERTY MismatchKeepsPolling
\* PROPERTY PortReleased
