\* Two faults in the catalog, a third id that was never loaded, and three
\* requests that may all be in flight at once.
CONSTANTS
  FaultIds = {f1, f2, unknown}
  Catalog = {f1, f2}
  Requests = {r1, r2, r3}
  None = None
SPECIFICATION Spec
INVARIANTS
  TypeOK
  CountIsBacked
PROPERTIES
  MarkAndCountTogether
  EveryRequestFinishes
