CONSTANTS
  u1 = u1
  b1 = b1
  b2 = b2
  c1 = c1
  Users = {u1}
  Reqs = {b1, b2}
  Codes = {c1}
  Owner = Owner
  NoUser = NoUser
  NoCookie = NoCookie
  NoCode = NoCode
  MaxPw = 2
  MaxSecret = 2
  MaxClock = 2
  CodeTTL = 0
  SessionTTL = 1
  MaxCodes = 1
  MaxSessions = 2
  FreeAttempts = 1
  Minute = 1
  IdleAfter = 2
  MaxFailures = 1
SPECIFICATION MCSpec
SYMMETRY ReqSymmetry
CHECK_DEADLOCK FALSE
INVARIANTS SessionsFollowAccount CodeWorksOnce SecretIsConfirmed LockoutDoubles
PROPERTIES StepWorksOnce SignedOutForAReason
