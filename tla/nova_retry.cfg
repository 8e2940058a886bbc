CONSTANTS
  GroupName = {n0}
  Default = n0
  DefaultId = 1
  Match = {Null}
  Null = Null
  Hooked = {"addServerFloatingIP"}
  Errs = {"limit"}
  MaxServers = 1
  MaxGroups = 0
  MaxRules = 0
  MaxIPs = 1
  Caller = {c1}
  Ops <- AttachOps
  NameLists <- NoName
  MaxSendAttempts = 3
SPECIFICATION Spec
PROPERTIES RetrySucceeds
CHECK_DEADLOCK FALSE
