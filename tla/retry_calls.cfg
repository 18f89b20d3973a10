SPECIFICATION FairSpec
CONSTANTS
  a1 = a1
  a2 = a2
  a3 = a3
  a4 = a4
  m1 = m1
  Ids = {1, 2}
  Groups = {"g"}
  MaxFailures = 3
  Requests = {a2, m1}
  Kind <- Kinds2
  Group <- NoGroups
  Malformations = {{}, {a2}}
  Counted = {}
  MaxRetriesPerCredential = 3
  MaxTotalRetries = 9
  Pools <- Mixed
  Casts <- BestLast
  Modes = {"priority", "balanced"}
INVARIANTS SlotsReturned Blameless FailoverReaches
PROPERTIES EveryCallEnds
\* Hold on this instance as well: INVARIANTS TypeOK
