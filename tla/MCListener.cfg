CONSTANTS
  l1 = l1
  t1 = t1
  t2 = t2
  Links = {l1}
  Transfers = {t1, t2}
  Ticker = Ticker
  NoLink = NoLink
  AutoOffMinutes = 15
  MaxFiles = 2
  MaxStarts = 1
SPECIFICATION MCSpec
CHECK_DEADLOCK FALSE
INVARIANTS AddressIsServed IssuedLinkServed
PROPERTIES ListenerCloses TurnsItselfOff OffOnlyIdleUnlessDisturbed
