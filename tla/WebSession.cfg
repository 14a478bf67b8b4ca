SPECIFICATION FairSpec
CONSTANTS
    Tabs = {t1, t2}
    Users = {u1}
    None = None
    MaxLogins = 2
INVARIANTS
    TypeOK
    SessionIsWhole
PROPERTIES
    LiveSessionKept
    ExpiredSessionEnds
    RefinesSession
