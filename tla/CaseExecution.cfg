\* Three executable steps, three cleanup steps, two relations.
CONSTANTS
  Setup <- TheSetup
  Main <- TheMain
  Cleanup <- TheCleanup
  Relations <- TheRelations
  Initial <- TheInitial
  FaultActive = FALSE
SPECIFICATION Spec
INVARIANTS
  TypeOK
  PassedMeansClean
  BestEffortNeverDecides
  EligibleCleanupRan
  ScopeIsLatest
PROPERTIES
  RelationsBeforeCleanup
  CaseEnds
\* The case ends.
CHECK_DEADLOCK FALSE
