SPECIFICATION StagesSpec
CONSTANTS
  Shapes = {"bare", "flushed", "own", "tx", "opens", "closes"}
  Groups = 3
  LoopLines = {4, 5}
  LoopShapes = {"bare", "flushed", "own"}
  FuncOf <- StepOneFuncs
  VarOf <- StepOneVars
  Numbers = {1, 2}
  MaxTrace = 5
  Statements <- AllStatements
  Traces <- AllTraces
INVARIANTS ThreadsKept DuraFixed FlushesAdded LocksNest OthersKept
CHECK_DEADLOCK FALSE
