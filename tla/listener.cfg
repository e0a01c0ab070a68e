SPECIFICATION FairSpec
CONSTANTS
  Addrs = {a1, a2}
  acceptBacklog = 1
  MaxConvs = 2
  MaxLate = 1
  MaxSessions = 3
INVARIANTS
  SessionsFiled
  ErrorReachesAll
PROPERTIES
  SlaveGetsIn
CHECK_DEADLOCK FALSE
