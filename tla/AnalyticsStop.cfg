CONSTANTS
    u1 = u1
    m1 = m1
    m2 = m2
    m3 = m3
    Users = {u1}
    NoUser = NoUser
    Messages = {m1, m2, m3}
    Feeds <- MCFeeds
    BatchSize = 2
    MaxEarly = 1
    MaxFaults = 1
SPECIFICATION Spec
PROPERTY StopFlushes
CHECK_DEADLOCK FALSE
