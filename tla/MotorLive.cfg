SPECIFICATION FairSpec
CONSTANTS
  app = app
  detect = detect
  Motors <- Single
  Threads = {detect}
  Detectors = {detect}
  Commands <- Driving
  Faults = {"ABS", "DRV"}
  StopTime = 2
  IgnoreTimes = {}
  ZeroMinCurrent = TRUE
PROPERTIES ReleaseStops FaultsClear OnlyLateCommands
