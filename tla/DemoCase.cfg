\* One create in setup, up to four main steps, three cleanup steps, at most one
\* relation; up to two requests of earlier cases.
CONSTANTS
  Components <- TheComponents
  Operations <- TheOperations
  Cases <- TheCases
  Preludes <- ThePreludes
  Faults <- TheFaults
  Catalog <- TheCatalog
SPECIFICATION Spec
INVARIANTS
  ReadsAgree
  NoFalseAlarm
  MarkedMeansChanged
  CatalogFaultIsCaught
  ValidStepIsSent
  RunsAlike
PROPERTIES
  NoIdentifierReused
  ExecutesAsSpecified
\* Both runs end.
CHECK_DEADLOCK FALSE
