SPECIFICATION FairSpec
CONSTANTS
  r1 = r1
  r2 = r2
  a1 = a1
  a2 = a2
  Loop = Loop
  NoRun = NoRun
  Autos = {a1}
  Runs <- OneRun
  AutoOf <- OneRunOf
  N = 4
  PosOf <- Sandwich
  Group = {2}
  Halt = {1, 2}
  EndChain = {3}
  Throwing = {1}
  Pausable = {r1}
  Bound <- NoDeletes
INVARIANTS TypeOK TickExclusion StepOrder UpstreamDurable GroupOnDisk
PROPERTIES ActiveRunSettles
CHECK_DEADLOCK FALSE
