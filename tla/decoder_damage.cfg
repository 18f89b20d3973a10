SPECIFICATION Spec
CONSTANTS
  MaxCells = 10
  MaxDamage = 1
  Streams <- OneStream
  Damages <- AnyDamage
  OddHeaders <- MaybeOdd
  Misreadings <- AnyMisreading
  Chunks = {1, 2, 3, 7}
  PRELUDE_SIZE = 2
  MIN_MESSAGE_SIZE = 3
  MAX_MESSAGE_SIZE = 4
  MaxErrors = 3
  MaxBufferSize = 8
INVARIANTS OnlyIntactInOrder SoundFramesKept
\* Hold on this instance as well: INVARIANTS TypeOK, IntactStreamRead
