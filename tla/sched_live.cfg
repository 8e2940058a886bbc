CONSTANTS
  Asset = {a1}
  Server = {s1, s2}
  Task = {t1, t2}
  Null = Null
  MaxBuffer = 1
  MaxAttempts = 2
  DeleteTries = 1
  Faults <- FairFaults
SPECIFICATION FairSpec
PROPERTIES DeletionEnds LeftoversMove RequestServed
CHECK_DEADLOCK FALSE
