SPECIFICATION FairSpec
CONSTANTS
  odd = odd
  even = even
  never = never
  NoCron = NoCron
  Shared = {}
  Http = {h}
  Timed = {s}
  Issues = {i1}
  Crons = {odd, even, never}
  Occurs <- Instances
  MaxLateness = 1
  MaxPages = 2
  Mishaps = {}
  MaxClock = 5
  MaxChanges = 2
CHECK_DEADLOCK FALSE
PROPERTIES FiresFresh 
