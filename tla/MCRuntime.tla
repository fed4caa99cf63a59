------------------------------ MODULE MCRuntime ------------------------------
(* The bounds on the number of calls the two threads of an instance make.   *)
EXTENDS PMCRuntime
TwoEach == [t \in Threads |-> 2]
OnlyMain == [t \in Threads |-> IF t = Main THEN 2 ELSE 0]
=============================================================================
