SPECIFICATION LiveViewSafety
CONSTANTS
  None = None
  Ids = {d}
  Id = d
  NOSIGNAL_GRACE_MISSES = 1
  STALL_MISSES = 1
  DEVICE_CHECK_EVERY = 2
  Clients = {c1, c2}
  Senders = {s1, s2}
  Loops = {l1, l2}
  Disconnects = {x}
  Requests = {}
SYMMETRY Symmetry
INVARIANTS
  RegisteredSenderIsFed
  NoFrozenEnd
