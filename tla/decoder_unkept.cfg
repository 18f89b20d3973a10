\* A statement of the sources that the code does not keep, and TLC's counterexample.
SPECIFICATION Spec
CONSTANTS
  MaxCells = 12
  MaxDamage = 1
  Streams <- LongFirst
  Damages <- AnyDamage
  OddHeaders <- NoneOdd
  Misreadings <- NoMisreading
  Chunks = {1, 2, 3}
  PRELUDE_SIZE = 2
  MIN_MESSAGE_SIZE = 3
  MAX_MESSAGE_SIZE = 6
  MaxErrors = 5
  MaxBufferSize = 12
INVARIANT DamageCostsOneFrame
\* Others that the same instance violates:
\* INVARIANT OneDamageDoesNotStop
