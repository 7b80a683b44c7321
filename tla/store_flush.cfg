SPECIFICATION FairSpec
CONSTANTS
  w1 = w1
  w2 = w2
  Slots = {w1, w2}
  Bound <- AFew
CHECK_DEADLOCK FALSE
INVARIANTS TypeOK FlushedIsDurable
PROPERTIES ImplementsStore ChangesAreSaved
