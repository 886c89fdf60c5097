SPECIFICATION ExitSafety
CONSTANTS
    Backends = {b1, b2}
    Requests = {r1, r2}
    Platform = "linux"
    Slow = {}
    None = None
SYMMETRY Symmetry
INVARIANTS NoExitMidTeardown
CHECK_DEADLOCK FALSE
