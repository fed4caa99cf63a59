SPECIFICATION Spec
CONSTANTS
  Threads = {t1, t2}
  Main = t1
  Nobody = nobody
  Ids = {1}
  Funcs = {f}
  Top = 3
  MaxSize = 2
  MaxCalls <- TwoEach
  FileFails = TRUE
  Ops = {"malloc", "free", "pmem_create", "Store"}
INVARIANTS OwnedRegistered LoggedIsPM
CHECK_DEADLOCK FALSE
