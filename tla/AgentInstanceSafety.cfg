SPECIFICATION Spec
CONSTANTS
    Operators = {o1, o2}
    Boot = boot
    Checkers = {hc}
    Procs = {p1, p2}
    None = None
    Calls = {"start", "stop", "restart"}
    Impatient = {o1, o2}
    RestartCountCap = 1
SYMMETRY Symmetric
PROPERTIES
    AbandonedOnlyByStaleWaiter
    RefinesSupervision
INVARIANTS
    TypeOK
    PidTracksProcess
    RunningHasProcess
    StopOwnsProcess
