SPECIFICATION Spec
CONSTANTS
  usb = usb
  uart = uart
  can = can
  detect = detect
  None = None
  Dummy = Dummy
  Links = {usb, uart}
  NullLinks = {}
  Kinds = {detect}
  Motors = {2}
  Second = 2
PROPERTIES DiscardedWhileRunning
