SPECIFICATION Spec
CONSTANTS
  usb = usb
  uart = uart
  can = can
  detect = detect
  None = None
  Dummy = Dummy
  Links = {usb, can}
  NullLinks = {can}
  Kinds = {detect}
  Motors = {2}
  Second = 2
INVARIANTS CommandsTypeOK RunsWhatWasAccepted Freed
PROPERTIES AcceptedIsRun BlockingEnds
