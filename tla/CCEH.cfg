SPECIFICATION Spec
CONSTANTS
  Threads = {t1, t2}
  Keys = {1, 2, 3, 4, 5, 6, 7, 8, 9}
  Bits <- MCBits
  First <- MCFirst
  Second <- MCSecond
  kNumSlot = 2
  Probe = 1
  Called <- MCCalled
  MaxDepth = 3
  MaxSegs = 6
  MaxOps = 3
  
PROPERTIES CallsReturn
CHECK_DEADLOCK FALSE
