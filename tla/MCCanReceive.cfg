CONSTANTS
  MbCnt = 3
  LogSz = 3
  MaxFrames = 5
SPECIFICATION Spec
INVARIANTS
  TypeOK
  NoFrameForgotten
  EveryFrameAccounted
  RepeatsNeedOverruns
  BoundedOvertaking
  NoLostWakeup
PROPERTIES
  EveryFrameHandled
  ImplementsLogQueue
