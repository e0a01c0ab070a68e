SPECIFICATION DFairSpec
CONSTANTS
  numFloors = 3
  StartFloor = 2
  HallButtons <- OneHallButton
  MaxPresses = 2
  MaxSwitches = 1
  MaxStops = 1
INVARIANTS
  MotorHasTarget
  StandsWhileOpen
  PositionKnown
PROPERTIES
  ImplementsElevator
  Settles
