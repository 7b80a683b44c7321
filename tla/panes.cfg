SPECIFICATION FairSpec
CONSTANTS
  open = open
  a = a
  b = b
  c = c
  r1 = r1
  r2 = r2
  Nobody = Nobody
  Steps = {open, a, b, c}
  Runs = {r1, r2}
  RunOf <- RunOfStep
  Before <- EarlierSteps
  Ref <- PaneFrom
  Retryable = {b}
  MaxPanes = 1
  Hasty = FALSE
  Fickle = FALSE
  MaxMishaps = 1
CHECK_DEADLOCK FALSE
INVARIANTS TypeOK OneLivePrompt NoDeadHolder SucceedsOnOwnAnswer
PROPERTIES LiveStepsSettle
