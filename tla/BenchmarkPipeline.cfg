CONSTANTS
  Config <- Configurations
  Suite = {"s1", "s2"}
  Repetition = {1, 2}
  Fault = {"f", "g"}
  MaxInvocations = 2
SPECIFICATION Spec
INVARIANTS
  TypeOK
  DerivedIsNeverAhead
  CompletedIsConsistent
  PreflightSuffices
PROPERTY DefaultPreserves
\* No invocation after the last.
CHECK_DEADLOCK FALSE
