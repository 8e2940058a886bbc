CONSTANTS
  Asset = {a1}
  Server = {s1, s2}
  Task = {t1, t2}
  Null = Null
  MaxBuffer = 1
  MaxAttempts = 1
  DeleteTries = 1
  Faults <- EngineFaults
  PeerFaults <- AllPeers
SPECIFICATION ProvisioningSpec
SYMMETRY Symmetry
INVARIANTS AgentInService NoStrayAgent AgentsInv
PROPERTY RefinesEngine
CHECK_DEADLOCK FALSE
