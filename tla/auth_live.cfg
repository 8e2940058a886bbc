CONSTANTS
  Caller = {c1, c2}
  Login = {g1, g2}
  Token = {k1, k2}
  Null = Null
  Faults <- LiveFaults
SPECIFICATION LiveSpec
PROPERTIES SendRequestReturns LoginsEnd RefusedTokenGoes AuthenticateReturns
