SPECIFICATION FairSpec
CONSTANTS
  Members = {m1, m2}
  Ids = {1, 2}
  Outcomes = {"MERGED", "CLOSED"}
  EndOnApprove = TRUE
  FailedCycleHalts = FALSE
  Debounce = TRUE
  Mishaps = {}
  Cycles = {1, 2, 3, 4}
  MaxReviews = 2
  MaxMishaps = 1
CHECK_DEADLOCK FALSE
INVARIANTS TypeOK NoOrphanCycle NothingSkipped
PROPERTIES ReviewsAreAnswered SettledEndsWatch
