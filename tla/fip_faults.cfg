CONSTANTS
  Worker = {w, r}
  Remedial = {r}
  Address = {a1, a2}
  Fixed = Fixed
  Lost = Lost
  Null = Null
  Id = {i1, i2, i3, i4}
  Max = 2
SYMMETRY Interchangeable
SPECIFICATION Spec
CONSTANT Faults = TRUE
INVARIANT TypeOK
PROPERTIES TakenForReason FailsForReason TrackedIsSpared
