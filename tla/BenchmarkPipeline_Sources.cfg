CONSTANTS
  Config <- Configurations
  Suite = {"s1", "s2"}
  Repetition = {1, 2}
  Fault = {"f", "g"}
  MaxInvocations = 2
SPECIFICATION Spec
INVARIANT ComparisonIsOfItsSources
CHECK_DEADLOCK FALSE
