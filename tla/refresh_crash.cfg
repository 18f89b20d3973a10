SPECIFICATION Spec
CONSTANTS
  r1 = r1
  r2 = r2
  r3 = r3
  q1 = q1
  f1 = f1
  f2 = f2
  op1 = op1
  op2 = op2
  op3 = op3
  Kind <- Usual
  Cred <- TwoCreds
  Tasks = {r1, r2, r3, q1}
  Ids = {1, 2}
  Rotations = {TRUE, FALSE}
  Lifetimes = {TRUE, FALSE}
  StartsFresh = {TRUE}
  Events = {"expire", "restart", "cancel", "lost", "error", "write error"}
  MaxEvents = 3
INVARIANTS OneFreshToken OldTokenNotPresented TokenKept
\* Hold on this instance as well: INVARIANTS TypeOK
