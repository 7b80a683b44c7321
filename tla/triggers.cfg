SPECIFICATION FairSpec
CONSTANTS
  odd = odd
  even = even
  never = never
  NoCron = NoCron
  Shared = {t1, t2}
  Http = {}
  Timed = {}
  Issues = {i1, i2}
  Crons = {odd, even, never}
  Occurs <- Instances
  MaxLateness = 1
  MaxPages = 2
  Mishaps = {}
  MaxClock = 4
  MaxChanges = 1
CHECK_DEADLOCK FALSE
INVARIANTS TypeOK FiresOnce NothingMissed
PROPERTIES IssuesAreHandled 
