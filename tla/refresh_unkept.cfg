\* A statement of the sources that the code does not keep, and TLC's counterexample.
SPECIFICATION Spec
CONSTANTS
  r1 = r1
  r2 = r2
  r3 = r3
  q1 = q1
  f1 = f1
  f2 = f2
  op1 = op1
  op2 = op2
  op3 = op3
  Kind <- Usual
  Cred <- OneCred
  Tasks = {r1, r2, f1, op1, op2, op3}
  Ids = {1, 2}
  Rotations = {TRUE}
  Lifetimes = {TRUE}
  StartsFresh = {TRUE}
  Events = {"expire", "ide", "restart"}
  MaxEvents = 2
INVARIANT ForcedOncePerToken
\* Others that the same instance violates:
\* INVARIANT RotationReachesFile
\* PROPERTY OnlyOwnTokenLost
\* PROPERTY EditsKept
\* PROPERTY ReplacedOnlyWhenUnused
\* PROPERTY CondemnedOnlyWhenDead
