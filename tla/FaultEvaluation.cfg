CONSTANTS
  Setup <- NoSetup
  Main <- TwoReads
  Cleanup <- OneCleanup
  Relations <- OneRelation
  Initial = {}
  FaultActive = TRUE
  CaseCount = 2
SPECIFICATION EvalSpec
INVARIANTS
  EvaluationIsValid
  DetectionIsDeserved
  NoDetectionIsJustified
\* The evaluation ends.
CHECK_DEADLOCK FALSE
