SPECIFICATION MemcachedSpec
CONSTANTS
 Wanted = {"k1"}
 CrawlSets = {{"HOT","COLD"}}
 Keys = {"k1","k2","k3"}
 PageChunks <- MCPageChunks
 PmemPages = {}
 FirstPages <- MCFirstPages
 FreshPages <- MCFreshPages
 PmemPool <- MCPmemPool
 LRU_BUMP_BUF_SIZE = 2
 Conns = {c1,c2}
 Preloaded <- MCPreloaded
 MaxMoves = 1
 MaxCrawls = 1
 MaxGets = 1
 Tries = 2
 PullTries = 2
 BusyLoops = 1
 SLAB_MOVE_MAX_LOOPS = 0
 Shifts <- MCTogetherShifts
 Together = TRUE
 hot_lru_pct = 20
 warm_lru_pct = 40
INVARIANT NoCircularWait
SYMMETRY MCSymmetry
CHECK_DEADLOCK FALSE
