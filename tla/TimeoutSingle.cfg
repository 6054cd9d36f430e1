SPECIFICATION FairTimeoutSpec
CONSTANTS
  app = app
  detect = detect
  watch = watch
  Motors <- Single
  Threads = {detect, watch}
  Detectors = {detect}
  Commands <- Throttle
  Faults = {}
  StopTime = 2
  IgnoreTimes = {1}
  ZeroMinCurrent = FALSE
  TimeoutThread = watch
  BrakeCurrent = TRUE
  KillSwitch = TRUE
  KillIgnore = 2
INVARIANTS TimeoutTypeOK
 
