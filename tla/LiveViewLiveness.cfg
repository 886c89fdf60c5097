SPECIFICATION LiveViewSpec
CONSTANTS
    None = None
    Ids = {d}
    Id = d
    NOSIGNAL_GRACE_MISSES = 2
    STALL_MISSES = 1
    DEVICE_CHECK_EVERY = 2
    Clients = {c1, c2}
    Senders = {s1}
    Loops = {l1}
    Disconnects = {x}
    Requests = {k1}
PROPERTIES
    NoLeakedLoop
    SubscriberIsFed
    StreamsEnd
    MarkIsTemporary
