SPECIFICATION Spec
CONSTANTS
    Callers = {t1, t2}
    Closers = {main}
    Clients = {c1, c2}
    None = None
CHECK_DEADLOCK FALSE
INVARIANTS
    TypeOK
    OneOpenClient
    RebuiltAlone
    OnlyMonitorsBlock
