CONSTANTS
    Callers = {"monitor", "handler"}
    Drives = {d1, d2}
    None = None
    MaxFaults = 1
SPECIFICATION MCSpec
CHECK_DEADLOCK FALSE
INVARIANTS
    NoLostWake
    LinkMeansConfigured
PROPERTIES
    FilesFollowDrive
    LinkFollowsDrive
