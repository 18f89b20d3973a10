SPECIFICATION FairSpec
CONSTANTS
  r1 = r1
  r2 = r2
  r3 = r3
  q1 = q1
  f1 = f1
  f2 = f2
  op1 = op1
  op2 = op2
  op3 = op3
  Kind <- Usual
  Cred <- OneCred
  Tasks = {r1, q1, op1, op3}
  Ids = {1}
  Rotations = {TRUE}
  Lifetimes = {TRUE}
  StartsFresh = {TRUE, FALSE}
  Events = {"ide", "cancel"}
  MaxEvents = 1
INVARIANTS TypeOK
PROPERTIES EveryRefreshEnds
