CONSTANTS
  MIN_FREQ = 1
  START_FREQ = 2
  StopLow = 2
  StopHigh = 4
  PerTenth = 4
  Q = 2
  W = 16
  MoveFreqs = {5}
  Times = {1}
  VT100Active = FALSE
  MaxCommands = 3
  MaxEdges = 1
SPECIFICATION BoundedSpec
PROPERTIES
  StopCommandStops
  InterruptedEmergencyCompletes
  BreakStopsMotor
