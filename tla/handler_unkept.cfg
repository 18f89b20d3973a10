\* A statement of the sources that the code does not keep, and TLC's counterexample.
SPECIFICATION Spec
CONSTANTS
  Payloads <- AnyPayload
  MAX_WEB_SEARCH_ROUNDS = 1
  MaxEvents = 4
CHECK_DEADLOCK FALSE
INVARIANT CreditsRecorded
\* Others that the same instance violates:
\* INVARIANT WholeReasonFits
