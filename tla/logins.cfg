SPECIFICATION FairLoginSpec
CONSTANTS
  r1 = r1
  r2 = r2
  r3 = r3
  r4 = r4
  s1 = s1
  s2 = s2
  t1 = t1
  old = old
  Requests = {r1, r2}
  Pasted = {t1}
  Sessions = {s1, s2}
  Old = old
  OverQuota = {old}
  Rotations = {TRUE}
  Failures = {"validate", "save", "balance"}
  Operations <- OneLogsIn
  MaxId = 2
  Target <- Renewals
  Ports = {1}
  Visits <- Mixed
  MaxRestarts = 1
CHECK_DEADLOCK FALSE
INVARIANTS CodePresentedOnce OwnCallbackOnly
PROPERTIES SessionsEnd
\* Hold on this instance as well: INVARIANTS TypeOK
