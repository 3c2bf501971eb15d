SPECIFICATION Spec
CONSTANTS
  Requests = {r1, r2}
  StoreRequestPayloads = FALSE
  MaxFaults = 0
  MaxCrashes = 0
SYMMETRY Symmetry
INVARIANT EveryEndIsAudited
