CONSTANTS
  t1 = t1
  t2 = t2
  Threads = {t1, t2}
  NMax = 1
  NLevels = 3
  MaxHeld = 1
SPECIFICATION Spec
PROPERTIES
  ForeverWaits
CHECK_DEADLOCK FALSE
