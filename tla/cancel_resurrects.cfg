SPECIFICATION Spec
CONSTANTS
  r1 = r1
  r2 = r2
  a1 = a1
  a2 = a2
  Loop = Loop
  NoRun = NoRun
  Autos = {a1}
  Runs <- OneRun
  AutoOf <- OneRunOf
  N = 3
  PosOf <- PairThenSolo
  Group = {1}
  Halt = {1, 2, 3}
  EndChain = {}
  Throwing = {}
  Pausable = {}
  Bound <- Cancels
PROPERTIES SettledIsFinal
CHECK_DEADLOCK FALSE
