CONSTANTS
  f1 = f1
  f2 = f2
  FaultIds = {f1, f2}
  Catalog = {f1, f2}
  FaultSeq <- TwoFaults
  MaxRequests = 1
  None = None
SPECIFICATION Spec
INVARIANT SutHoldsOwnOnly
CHECK_DEADLOCK FALSE
