SPECIFICATION FairSpec
CONSTANTS
  Operators = {o1}
  Scheduler = daily
  MaxVersion = 3
  MaxOperations = 1
  MaxFailures = 2
  MaxCrashes = 2
CHECK_DEADLOCK FALSE
INVARIANTS Startable RollbackHonest
PROPERTIES NoDowngrade ScheduledUpdateArrives
\* Statements of the sources that the same instance violates:
\* INVARIANT AnyStepTakenBack
\* INVARIANT LostToOverlap
\* PROPERTY ReusedIsVerified
\* INVARIANT RollbackOffered
