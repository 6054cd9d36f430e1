SPECIFICATION Spec
CONSTANTS
  mc = mc
  mc2 = mc2
  custom = custom
  v1 = v1
  v2 = v2
  t1 = t1
  t2 = t2
  None = None
  Areas = {mc, mc2}
  Checked = {mc, mc2}
  Addr <- Words
  Kept <- ListedAddr
  Values = {v1, v2}
  Threads = {t1, t2}
  MaxLosses = 1
  FlashErrors = TRUE
  PowerSwitch = FALSE
SYMMETRY Symmetric
INVARIANTS StoredSurvives ReadsAsStored
PROPERTIES UsesNvMap
