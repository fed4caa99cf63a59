------------------------------ MODULE MCStages ------------------------------
(***************************************************************************)
(* Two stages of the repair, each on its own inputs: addConstraints of     *)
(* step1.py on small programs, and removeDeadlocks of step4.py on every    *)
(* short trace over two locks.                                             *)
(***************************************************************************)
EXTENDS RemoveDeadlocks, SequencesExt

CONSTANTS Numbers, MaxTrace, FuncOf, VarOf, Shapes, Groups, LoopLines, LoopShapes

VARIABLES stage, raw, order, threads, bug, claimedFlushes, result, pc

stepOneVars == <<raw, order, threads, bug, claimedFlushes, result, pc>>

(* Two functions; the lines of a loop store to one variable.               *)
Lines == 1..Groups \cup LoopLines
StepOneFuncs == [l \in Lines |-> IF l \in LoopLines \cup {1} THEN "f" ELSE "g"]
StepOneVars == [l \in Lines |-> IF l \in LoopLines THEN 0 ELSE l]

P == INSTANCE ProgramSets
S == INSTANCE StepOne WITH Programs <- P!StepOnePrograms

AllStatements ==
  {[op |-> "store", id |-> <<"stmt", 1>>]}
    \cup [op : {"lock"}, id : {"Lock"} \X Numbers]
    \cup [op : {"unlock"}, id : {"UnLock"} \X Numbers]

AllTraces == BoundedSeq(AllStatements, MaxTrace)

StagesInit ==
  \/ /\ stage = "step1" /\ S!Init
     /\ trace = <<>> /\ i = 1 /\ acc = Start
  \/ /\ stage = "removeDeadlocks" /\ Init
     /\ raw = <<>> /\ order = <<>> /\ threads = <<>> /\ bug = 0 /\ claimedFlushes = {}
     /\ result = <<>> /\ pc = "done"

StagesNext ==
  /\ UNCHANGED stage
  /\ \/ stage = "step1" /\ S!Next /\ UNCHANGED vars
     \/ stage = "removeDeadlocks" /\ Next /\ UNCHANGED stepOneVars

StagesSpec == StagesInit /\ [][StagesNext]_<<stage, vars, stepOneVars>>

-----------------------------------------------------------------------------
InStepOne == stage = "step1"

(* step1.py keeps the statements of every thread (StepOne).                *)
ThreadsKept == InStepOne => S!ThreadsKept

(* step1.py leaves no durability bug (StepOne).                            *)
DuraFixed == InStepOne => S!DuraFixed

(* step1.py adds flushes and fences only, and a flush for each bug once    *)
(* (StepOne).                                                              *)
FlushesAdded == InStepOne => S!FlushesAdded
=============================================================================
