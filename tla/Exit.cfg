SPECIFICATION ExitSpec
CONSTANTS
    Backends = {b1, b2}
    Slow = {b2}
    Requests = {r1, r2}
    Platform = "linux"
    None = None
INVARIANTS
    AskedOnce
    ToldAreDown
PROPERTIES
    ProcessLeaves
CHECK_DEADLOCK FALSE
