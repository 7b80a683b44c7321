SPECIFICATION Spec
CONSTANTS
  t1 = t1
  t2 = t2
  t3 = t3
  h1 = h1
  h2 = h2
  Nobody = Nobody
  Tasks = {t1, t2}
  Deps <- Chain
  Given = {t1, t2}
  Terminals = {h1, h2}
  Opened = {h1}
  MaxConcurrent = 1
  KeepsWorking = FALSE
  Manual = {}
  Bound <- Crashes
CHECK_DEADLOCK FALSE
INVARIANTS
  ThreeStrikes
