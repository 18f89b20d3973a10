\* A statement of the sources that the code does not keep, and TLC's counterexample.
SPECIFICATION Spec
CONSTANTS
  a1 = a1
  a2 = a2
  a3 = a3
  a4 = a4
  m1 = m1
  Ids = {1, 2}
  Groups = {"g"}
  MaxFailures = 3
  Requests = {a1, a2, a3, m1}
  Kind <- Kinds2
  Group <- NoGroups
  Malformations = {{}}
  Counted = {a1, m1}
  MaxRetriesPerCredential = 3
  MaxTotalRetries = 9
  Pools <- Unlimited
  Casts <- AnyCast
  Modes = {"priority"}
INVARIANT TriesPerCredential
\* Others that the same instance violates:
\* INVARIANT SuspicionHeeded
\* INVARIANT RevokedSurvives
\* INVARIANT ClientErrorsFailOver
\* INVARIANT OutagesForgiven
