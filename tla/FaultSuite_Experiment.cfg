\* Two faults, one request in each run, any number of lost responses.
CONSTANTS
  f1 = f1
  f2 = f2
  FaultIds = {f1, f2}
  Catalog = {f1, f2}
  FaultSeq <- TwoFaults
  MaxRequests = 1
  None = None
SPECIFICATION Spec
INVARIANTS
  PublishedMeansRestored
PROPERTIES
  SuiteEnds
  ImplementsExperiment
CHECK_DEADLOCK FALSE
