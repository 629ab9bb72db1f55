CONSTANTS
  Setup <- NoSetup
  Main <- TwoReads
  Cleanup <- OneCleanup
  Relations <- OneRelation
  Initial = {}
  FaultActive = TRUE
  CaseCount = 1
SPECIFICATION EvalSpec
INVARIANT
  FailedOracleIsDetection
\* The evaluation ends.
CHECK_DEADLOCK FALSE
