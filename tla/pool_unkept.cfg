\* A statement of the sources that the code does not keep, and TLC's counterexample.
SPECIFICATION Spec
CONSTANTS
  r1 = r1
  r2 = r2
  r3 = r3
  s1 = s1
  Ids = {1, 2}
  Groups = {"g"}
  MaxFailures = 2
  Requests = {r1, r2, r3}
  Sessions = {}
  Group <- SecondInGroup
  Opus <- AnyModel
  Session <- NoSessions
  StickyMaxWaiting = 1
  Outcomes = {"cancel", "invalid_grant", "call error"}
  Catalogue <- Twins
  InitialPools <- TwinPools
  Modes = {"priority"}
  AdminOps = {"set_disabled", "add", "delete"}
  MaxCalls = 1
  MaxAdmin = 2
  MaxReloads = 1
INVARIANT WaitingExact
\* Others that the same instance violates:
\* INVARIANT ActiveExact
\* PROPERTY OperatorsDisableHolds
\* PROPERTY HealsOnlyWhenAllDisabled
\* PROPERTY DeletesOnlyDisabled
