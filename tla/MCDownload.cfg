CONSTANTS
  l1 = l1
  p1 = p1
  p2 = p2
  k1 = k1
  k2 = k2
  r1 = r1
  r2 = r2
  Links = {l1}
  Phones = {p1, p2}
  Keys = {k1}
  Reqs = {r1, r2}
  MaxFiles = 2
  NoByteLimit = 9
  MaxRestarts = 1
SPECIFICATION MCSpec
SYMMETRY ReqSymmetry
CHECK_DEADLOCK FALSE
INVARIANTS GivenWithinLimit CountedOnceUnlessRaced
PROPERTIES ResumeUnlessRaced ImplementsBudget
