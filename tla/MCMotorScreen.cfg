CONSTANTS
  MIN_FREQ = 1
  START_FREQ = 2
  StopLow = 2
  StopHigh = 2
  PerTenth = 3
  Q = 1
  W = 4
  MoveFreqs = {3}
  Times = {0}
  VT100Active = TRUE
SPECIFICATION Spec
CONSTRAINT FewEventsDuringEdit
PROPERTY ImplementsSafetyTrip
