SPECIFICATION FairSpec
CONSTANTS
  t1 = t1
  t2 = t2
  t3 = t3
  h1 = h1
  h2 = h2
  Nobody = Nobody
  Tasks = {t1, t2, t3}
  Deps <- Join
  Given = {t1, t2, t3}
  Terminals = {h1, h2}
  Opened = {h1}
  MaxConcurrent = 1
  KeepsWorking = FALSE
  Manual = {}
  Bound <- Orderly
CHECK_DEADLOCK FALSE
INVARIANTS
  TypeOK
  ReadyMeansDepsDone
  GateHolds
  WithinMaxConcurrent
PROPERTIES
  ImplementsTaskGraph
  TasksSettle
