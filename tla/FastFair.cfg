CONSTANTS
  Threads = {t1, t2}
  cardinality = 4
  Starts = {1, 3}
  Inserted = {5, 45}
  Searched = {10, 30, 45}
  Bounds = {15, 45}
  Mixes = {{"insert", "search"}, {"insert", "range"}, {"insert", "delete"}, {"search", "delete"}}
  MaxPages = 9
  MaxOps = 3
  Overlap = {1}
SPECIFICATION Spec
INVARIANTS  CrashKeepsKeys
PROPERTIES CallsReturn
CHECK_DEADLOCK FALSE
