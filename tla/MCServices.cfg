SPECIFICATION ServicesSpec
CONSTANTS
  Keys = {1, 2, 3, 4, 5, 6, 7}
  Hash <- MCHash
  Busy = {1, 7}
  Workers = {w1, w2}
  Background = {b}
  item_lock_hashpower = 1
  InitialPower = 2
  HASHPOWER_MAX = 3
  PromptResume = TRUE
  Writers <- MCWriters
  Events = {1}
  WATCHER_LIMIT = 2
  Clients = {c1}
  logger_buf_size = 5
  logger_watcher_buf_size = 5
  ReqLen = 2
  LineLen = 2
  SkipLen = 1
  MaxEntries = 4
  FrameCount = 2
  Classes = {1, 2}
  SizeOf <- MCSizeOf
  slab_page_size = 2
  MaxTime = 3
  Budgets <- MCBudgets
INVARIANTS LookupsExact  EntriesInOrder  RecoveryExact
 
CHECK_DEADLOCK FALSE
