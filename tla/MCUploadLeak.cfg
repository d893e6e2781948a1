CONSTANTS
  l1 = l1
  r1 = r1
  r2 = r2
  Links = {l1}
  Reqs = {r1}
  MaxFiles = 2
  MaxBytes = 2
  DiskSize = 4
  ReserveBytes = 1
  MaxCrashes = 0
SPECIFICATION MCSpec
CHECK_DEADLOCK FALSE
INVARIANT ReleaseUndoesReserve
