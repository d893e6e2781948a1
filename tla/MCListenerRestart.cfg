CONSTANTS
  l1 = l1
  t1 = t1
  t2 = t2
  Links = {l1}
  Transfers = {t1}
  Ticker = Ticker
  NoLink = NoLink
  AutoOffMinutes = 15
  MaxFiles = 1
  MaxStarts = 1
SPECIFICATION MCSpec
CHECK_DEADLOCK FALSE
INVARIANT OldLinksWork
