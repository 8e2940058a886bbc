CONSTANTS
  Asset = {a1}
  Server = {s1, s2}
  Task = {t1, t2}
  Null = Null
  MaxBuffer = 1
  MaxAttempts = 2
  DeleteTries = 2
  Faults <- AllFaults
SPECIFICATION Spec
SYMMETRY Symmetry
CONSTRAINT FewMishaps
INVARIANTS NoOrphan RetryIsClean ReadyIsReal CallerNotMisled NothingStranded IInv
PROPERTIES StaysDeleted
CHECK_DEADLOCK FALSE
