CONSTANTS
  c1 = c1
  c2 = c2
  d1 = d1
  d2 = d2
  None = None
  Callers = {c1, c2}
  Devices = {d1, d2}
  StallLimit = 2
  MaxPosts = 2
SPECIFICATION Spec
INVARIANTS TypeOK NoLeak NoStalePhoto ShownIsTrue
PROPERTIES ContractSpec SessionsEndForAReason CallsReturn GoneIsDropped
CHECK_DEADLOCK FALSE
