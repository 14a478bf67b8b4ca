SPECIFICATION FairSpec
CONSTANTS
    Operators = {o1}
    Boot = boot
    Checkers = {hc}
    Procs = {p1, p2}
    None = None
    Calls = {"stop", "restart"}
    Impatient = {}
    RestartCountCap = 1
PROPERTIES
    CallsReturn
    Recovery
