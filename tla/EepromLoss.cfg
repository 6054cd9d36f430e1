CONSTANTS
  a = a
  b = b
  c = c
  d1 = d1
  d2 = d2
  Blank = Blank
  None = None
  Vars = {a, b}
  Table <- TableAB
  Data = {d1, Blank}
  N = 5
  MaxLosses = 1
  WindowLoss = FALSE
  FlashErrors = FALSE
SPECIFICATION Spec
INVARIANTS TypeOK Durable PagesSettled ReadsLastStored RecoveryFits
PROPERTY ImplementsNvMap
