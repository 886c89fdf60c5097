SPECIFICATION AndroidSafety
CONSTANTS
  None = None
  Random = Random
  Controllers = {c1, c2}
  Setters = {s1}
  Servers = {n1, n2}
  Tokens = {t1}
  Configs = {f1, f2}
  StartMayTimeOut = TRUE
  StopMayTimeOut = TRUE
SYMMETRY Symmetry
INVARIANTS
  RunningIsServing
  NoOrphanServer
