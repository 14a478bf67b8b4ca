SPECIFICATION Spec
CONSTANTS
    Notifiers = {n1}
    Syncer = syncer
    Manual = manual
    Pids = {1}
    None = None
    MaxAttempts = 2
    MaxChanges = 2
INVARIANTS
    TypeOK
    TwoSyncsSuffice
