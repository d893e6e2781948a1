CONSTANTS
  u1 = u1
  u2 = u2
  Uploads = {u1, u2}
  MaxTries = 3
  None = None
  Foreign = Foreign
SPECIFICATION Spec
INVARIANTS OnlyWholeFiles NothingLeftBehind
PROPERTIES ImplementsSafeFolder Decided
