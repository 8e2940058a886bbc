CONSTANTS
  Asset = {a1, a2}
  Server = {s1, s2}
  Task = {t1, t2, t3}
  Null = Null
  MaxBuffer = 1
  MaxAttempts = 1
  DeleteTries = 2
  Faults <- MildFaults
SPECIFICATION Spec
SYMMETRY Symmetry
INVARIANTS OwnServer
PROPERTIES KillsOnlyUnserved KeepsContract
CHECK_DEADLOCK FALSE
