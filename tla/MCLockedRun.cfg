SPECIFICATION RunFairSpec
CONSTANTS
  Shapes = {"bare", "flushed", "own", "tx", "opens", "closes"}
  Groups = 3
  LoopLines = {4, 5}
  LoopShapes = {"bare", "flushed", "own"}
  FuncOf <- LockFuncs
  VarOf <- OwnVars
  Inputs <- LockInputs
  Executed <- SafeToRun
  MaxLen = 24
  MaxDebt = 2
INVARIANTS StatementsKept  LocksSound 
PROPERTIES Terminates Finishes
CHECK_DEADLOCK FALSE
