SPECIFICATION CallsSpec
CONSTANTS
    None = None
    Random = Random
    Controllers = {c1}
    Setters = {c1}
    Servers = {n1, n2}
    Tokens = {t1}
    Configs = {f1, f2}
    StartMayTimeOut = TRUE
    StopMayTimeOut = TRUE
INVARIANTS
    TokensAgree
    EachRunIsTorn
PROPERTIES
    CallsReturn
    StopIsObeyed
    LeftoverSessionsClose
