SPECIFICATION Spec
CONSTANTS
  t1 = t1
  t2 = t2
  t3 = t3
  h1 = h1
  h2 = h2
  Nobody = Nobody
  Tasks = {t1, t2}
  Deps <- Chain
  Given = {t1}
  Terminals = {h1, h2}
  Opened = {h1}
  MaxConcurrent = 1
  KeepsWorking = TRUE
  Manual = {"failed"}
  Bound <- Unruly
CHECK_DEADLOCK FALSE
INVARIANTS
  TerminalLock
  DispatchedHasDispatch
PROPERTIES
  ClaimIsFresh
