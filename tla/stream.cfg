SPECIFICATION StreamSpec
CONSTANTS
  REPEAT_GUARD_TRIP_THRESHOLD = 2
  MAX_INVOKE_HOLD_CELLS = 6
  ToolIds = {t1, t2}
  MixesThinking = FALSE
  MaxPieces = 3
  MaxEvents = 2
  Scripts <- AllScripts
INVARIANTS StreamedAsWhole ThinkingSigned
PROPERTY ImplementsAnthropicStream
SYMMETRY Symmetry
\* Hold on this instance as well: INVARIANTS StreamTypeOK, FloodStopped, ToolInputsWhole, ReasonFits
