CONSTANTS
  Caller = {c1, c2}
  Login = {g1, g2}
  Token = {k1, k2, k3}
  Null = Null
  Faults <- AllFaults
SPECIFICATION Spec
SYMMETRY Symmetry
INVARIANTS OneLogin TokenHasURLs NoBareSend FailsForReason
PROPERTIES WipesOnlyRefused
