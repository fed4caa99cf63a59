SPECIFICATION FairSpec
CONSTANTS
  Threads = {t1, t2}
  Main = t1
  Nobody = nobody
  Ids = {1, 2}
  Funcs = {f}
  Top = 2
  MaxSize = 1
  MaxCalls <- TwoEach
  FileFails = FALSE
  Ops = {"pmem_map_file", "depAdd", "Store", "funcBegin", "funcEnd", "flush", "dummy_begin"}
INVARIANTS LogSound
PROPERTIES ImplementsAtomicTrace CallsReturn
CHECK_DEADLOCK FALSE
