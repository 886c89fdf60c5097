SPECIFICATION ExitSpec
CONSTANTS
    Backends = {b1, b2}
    Requests = {r1, r2}
    Platform = "macos"
    Slow = {b1, b2}
    None = None
PROPERTIES ProcessLeaves
CHECK_DEADLOCK FALSE
