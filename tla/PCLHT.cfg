CONSTANTS
  Threads = {t1, t2}
  Keys = {1, 2, 4, 5}
  Called = {2, 4, 5}
  Vals = {8}
  Entries = 1
  InitBuckets = 2
  PercFullHalve = 5
  RatioHalve = 8
  OccupAfterRes = 200
  MaxBuckets = 10
  MaxOps = 3
  MaxResizes = 1
  MaxCrashes = 1
SPECIFICATION MCSpec
INVARIANTS TableHoldsMap ResultsAreCurrent
PROPERTIES CallsReturn
CHECK_DEADLOCK FALSE
