SPECIFICATION Spec
CONSTANTS
  Addrs = {a1, a2}
  acceptBacklog = 1
  MaxConvs = 2
  MaxLate = 1
  MaxSessions = 3
INVARIANT ErrorReachesEverySession
CHECK_DEADLOCK FALSE
