SPECIFICATION FairSpec
CONSTANTS
    Notifiers = {n1}
    Syncer = syncer
    Manual = manual
    Pids = {1}
    None = None
    MaxAttempts = 1
    MaxChanges = 1
PROPERTY
    Converges
