SPECIFICATION Spec
CONSTANTS
  app = app
  detect = detect
  Motors <- Dual
  Threads = {app, detect}
  Detectors = {}
  Commands <- Duty
  Faults = {"ABS"}
  StopTime = 1
  IgnoreTimes = {0, 2}
  ZeroMinCurrent = FALSE
INVARIANTS TypeOK
PROPERTIES OnlyLateCommands
