CONSTANTS
  Measure_task = Measure_task
  VT100_task = VT100_task
  LCD_task = LCD_task
  Task = {Measure_task, VT100_task, LCD_task}
  Prio <- MCPrio
  SMPL_ARR1_FULL = SMPL_ARR1_FULL
  SMPL_ARR2_FULL = SMPL_ARR2_FULL
  MEAS_RES_READY = MEAS_RES_READY
  Bit = {SMPL_ARR1_FULL, SMPL_ARR2_FULL, MEAS_RES_READY}
  Half = 2
  Channels = 2
  Laps = 2
  Rounds = 2
SPECIFICATION Spec
INVARIANTS
  TypeOK
  NoMissedEvent
  OneHalf
  CopiesAreWhole
  MonitorUpToDate
PROPERTIES
  ResultsKeepComing
  MonitorPrints
