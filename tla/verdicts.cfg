SPECIFICATION Spec
CONSTANTS
  r1 = r1
  r2 = r2
  a1 = a1
  a2 = a2
  Loop = Loop
  NoRun = NoRun
  Autos = {a1, a2}
  Runs <- TwoRuns
  AutoOf <- TwoAutos
  N = 3
  PosOf <- SoloThenPair
  Group = {2}
  Halt = {1, 2}
  EndChain = {1}
  Throwing = {1}
  Pausable = {}
  Bound <- Failing
INVARIANTS VerdictFitsSteps EndChainHonoured NoLeakedLock
PROPERTIES SettledIsFinal DurableResultKept
CHECK_DEADLOCK FALSE
