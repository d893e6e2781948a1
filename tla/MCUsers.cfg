CONSTANTS
  a = a
  b = b
  c1 = c1
  c2 = c2
  Names = {a, b}
  Calls = {c1, c2}
  Background = {"ready"}
  NoUser = NoUser
  NoCall = NoCall
  Access <- AllWritable
  ListLimit = 2
  Others = 1
  MaxRestarts = 1
  MaxFaults = 1
SPECIFICATION MCSpec
INVARIANTS AlwaysAnAdmin MemoryIsFile LoneSyncMirrors
PROPERTIES ChangesOneAccount ForeignUntouched
