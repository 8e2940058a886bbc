CONSTANTS
  GroupName = {n0, n1}
  Default = n0
  DefaultId = 3
  Match = {Null, m1}
  Null = Null
  Hooked = {"addFloatingIP", "addServerSecurityGroup", "securityGroupRule"}
  Errs = {"limit"}
  MaxServers = 2
  MaxGroups = 1
  MaxRules = 1
  MaxIPs = 1
  Caller = {c1, c2}
  Ops <- AllOps
  NameLists <- OneName
  MaxSendAttempts = 3
SPECIFICATION Spec
SYMMETRY Symmetry
INVARIANTS AtMostOnce EffectTold RulesAgree PointsBack
PROPERTIES FreshServer
CONSTRAINT Apart
CHECK_DEADLOCK FALSE
