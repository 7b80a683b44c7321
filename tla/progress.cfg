SPECIFICATION FairSpec
CONSTANTS
  r1 = r1
  r2 = r2
  a1 = a1
  a2 = a2
  Loop = Loop
  NoRun = NoRun
  Autos = {a1}
  Runs <- TwoRuns
  AutoOf <- OneAuto
  N = 2
  PosOf <- Pair
  Group = {1}
  Halt = {1}
  EndChain = {}
  Throwing = {1}
  Pausable = {}
  Bound <- Mishaps
PROPERTIES ActiveRunSettles
CHECK_DEADLOCK FALSE
