SPECIFICATION FairSpec
CONSTANTS
    Workers = {w1}
    Monitors = {m1}
    Starters = {s1}
    Notifiers = {n1}
    Handlers = {h1}
    Writer = writer
    None = None
    QueueCap = 1
    BatchCap = 2
    PoolCap = 1
    MaxRequests = 3
    MaxBeats = 2
CHECK_DEADLOCK FALSE
PROPERTY
    UpdateReturns
