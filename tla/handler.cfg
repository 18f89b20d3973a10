SPECIFICATION Spec
CONSTANTS
  Payloads <- AnyPayload
  MAX_WEB_SEARCH_ROUNDS = 1
  MaxEvents = 4
INVARIANTS OneRecordOneTrace NoHoldAndWait SearchStaysInside LoopCallsFit
CHECK_DEADLOCK FALSE
