CONSTANTS
  a = a
  b = b
  c = c
  d1 = d1
  d2 = d2
  Blank = Blank
  None = None
  Vars = {a, c}
  Table <- TableA
  Data = {d1, Blank}
  N = 2
  MaxLosses = 2
  WindowLoss = TRUE
  FlashErrors = TRUE
SPECIFICATION Spec
INVARIANTS UsedFirst NoStaleValue PagesSettled
