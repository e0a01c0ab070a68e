SPECIFICATION ReportsSpec
CONSTANTS
  Start <- StartOfKcp2
  Buttons <- SomeButtons
  MaxFlight = 2
  c1 = c1
  c2 = c2
  Conns = {c1, c2}
  MaxReports = 3
  MaxBreaks = 1
  numFloors = 4
  Fleets <- MCFleets
INVARIANTS
  NoGhostCalls
  OnlyFirstServed
  EachCallOnce
  LeftOutOnlyAtZero
  RemoteCallAssigned
PROPERTIES
  HallCallsStay
  HallCallsArrive
  FirstServed
  Terminates
