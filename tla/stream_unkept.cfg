\* A statement of the sources that the code does not keep, and TLC's counterexample.
SPECIFICATION StreamSpec
CONSTANTS
  REPEAT_GUARD_TRIP_THRESHOLD = 2
  MAX_INVOKE_HOLD_CELLS = 6
  ToolIds = {}
  MixesThinking = TRUE
  MaxPieces = 0
  MaxEvents = 1
  Scripts <- Unkept
INVARIANT DiscussedCallsAreText
\* Others that the same instance violates:
\* INVARIANT EveryThinkingSigned
\* INVARIANT QuotedIsText
\* PROPERTY ImplementsAnthropicStream
