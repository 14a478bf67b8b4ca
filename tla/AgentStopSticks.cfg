SPECIFICATION Spec
CONSTANTS
    Operators = {o1}
    Boot = boot
    Checkers = {hc}
    Procs = {p1, p2}
    None = None
    Calls = {"stop"}
    Impatient = {}
    RestartCountCap = 1
PROPERTY
    StopSticks
