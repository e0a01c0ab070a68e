SPECIFICATION Spec
CONSTANTS
  h1 = h1
  h2 = h2
  h3 = h3
  c1 = c1
  c2 = c2
  c3 = c3
  c4 = c4
  Hosts = {h1, h2, h3}
  Conns = {c1, c2, c3, c4}
  HostOf <- Mixed
  ReceiveCap = 1
  OrderCap = 1
  ELSLen = 3
  FirstCalls = {"down"}
  MaxReports = 1
  MaxStops = 0
  MaxErrors = 0
SYMMETRY Symm
CONSTRAINT Calm
INVARIANTS
  OrderIsolation
  PanicOnlyByCrowd
CHECK_DEADLOCK FALSE
