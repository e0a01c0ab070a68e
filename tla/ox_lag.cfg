SPECIFICATION FairSpec
CONSTANTS
  h1 = h1
  h2 = h2
  h3 = h3
  c1 = c1
  c2 = c2
  c3 = c3
  c4 = c4
  Hosts = {h1}
  Conns = {c1}
  HostOf <- OneHost
  ReceiveCap = 1
  OrderCap = 2
  ELSLen = 3
  FirstCalls = {"down"}
  MaxReports = 6
  MaxStops = 1
  MaxErrors = 1
CHECK_DEADLOCK FALSE
INVARIANTS
  AnswerLag
  OneAnswerPerReport
  BacklogNeverDrains
PROPERTY
  ReportsAnswered
