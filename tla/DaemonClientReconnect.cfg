SPECIFICATION FairSpec
CONSTANTS
    Callers = {t1}
    Closers = {}
    Clients = {c1}
    None = None
CHECK_DEADLOCK FALSE
PROPERTY ReconnectReturns
