SPECIFICATION RingSpec
CONSTANTS
  f1 = f1
  f2 = f2
  f3 = f3
  NoFrame = NoFrame
  Torn = Torn
  Frames = {f1, f2, f3}
  Size = 4
INVARIANTS RingTypeOK NoLostEvent
PROPERTIES ImplementsQueue RingDrains
