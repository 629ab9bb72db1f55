\* Two faults and two requests in each run, at most one of them given up.
CONSTANTS
  f1 = f1
  f2 = f2
  FaultIds = {f1, f2}
  Catalog = {f1, f2}
  FaultSeq <- TwoFaults
  MaxRequests = 2
  None = None
SPECIFICATION Spec
INVARIANTS
  TypeOK
  EvidenceIsOfTheRun
  CountCoversEvidence
  CountEqualsEvidenceUnlessLost
  SutHoldsOwnOrGivenUp
  RecordedRunIsUnderFault
CONSTRAINT OneGivenUp
\* The suite ends and the proxy may stay idle for ever.
CHECK_DEADLOCK FALSE
