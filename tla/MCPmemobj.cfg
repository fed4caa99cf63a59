CONSTANTS
  Objects = {10, 20}
  Words = 4
  Blocks = {100, 200, 300}
  BlockWords = 5
  SsoCapacity = 2
  SsoMask = 1000
  MaxLen = 3
  MaxCap = 4
  MaxCalls = 2
  MaxOps = 3
  HollowAppend = FALSE
  ResizeInPlace = FALSE
  Threads = {t1, t2}
  Resizer = rs
  Keys = {1, 2, 3, 4, 5, 6, 7, 8, 9, 10}
  Hash <- MCHash
  Tag <- MCTag
  assoc_num = 1
  HashPower = 3
  Mixes <- MCMixes
  MaxLevels = 4
  MaxMetas = 4
INIT PmemobjInit
NEXT PmemobjNext
SYMMETRY Symmetry
INVARIANTS  EndsWhole MemorySound  TableSurvives
