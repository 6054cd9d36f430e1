CONSTANTS
  a = a
  b = b
  c = c
  d1 = d1
  d2 = d2
  Blank = Blank
  None = None
  Vars = {a, c}
  Table <- TableA
  Data = {d1, d2}
  N = 3
  MaxLosses = 0
  WindowLoss = FALSE
  FlashErrors = FALSE
SPECIFICATION Spec
INVARIANT SwapKeepsEveryVariable
