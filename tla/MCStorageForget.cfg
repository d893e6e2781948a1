CONSTANTS
    Callers = {"monitor", "handler"}
    Drives = {d1}
    None = None
    MaxFaults = 0
SPECIFICATION MCSpec
CHECK_DEADLOCK FALSE
PROPERTIES
    OtherwiseRemoved
