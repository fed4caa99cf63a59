----------------------------- MODULE ProgramSets -----------------------------
(***************************************************************************)
(* The small programs the repair tools are checked on, for TLC.            *)
(***************************************************************************)
EXTENDS DuraRepair

CONSTANTS
  Groups,      \* number of stores in a trace, and of lines that run once
  LoopLines,   \* lines that may run several times
  LoopShapes   \* what the program may do around their stores

Lines == 1..Groups \cup LoopLines

(* step4.py: the lines of a loop are in two functions.                     *)
LockFuncs == [l \in Lines |-> IF l = Groups + 1 THEN "g" ELSE "f"]
OwnVars == [l \in Lines |-> l]

Orders == {<<1, 2>>, <<2, 1>>}

(* Thread 1 starts; either thread may run any line, and more than once. *)
Looping ==
  {gs \in [1..Groups -> [th : {1, 2}, line : LoopLines, from : {0} \cup LoopLines, shape : LoopShapes]] :
     gs[1].th = 1 /\ gs[1].from = 0}

(* Every line runs once, in order, and uses variables stored before it. *)
Straight ==
  {gs \in {[k \in 1..Groups |-> [th |-> a[k], line |-> k, from |-> b[k], shape |-> c[k]]] :
             a \in [1..Groups -> {1, 2}],
             b \in {f \in [1..Groups -> 0..Groups] : \A k \in 1..Groups : f[k] < k},
             c \in [1..Groups -> Shapes]} :
     gs[1].th = 1}

(* Every transaction of a thread ends before its next one begins. *)
Matched(tr) ==
  \A th \in {1, 2} :
    LET ops == SelectSeq(ThreadOf(tr, th), LAMBDA s : s.op \in {"begin", "commit"})
    IN /\ Len(ops) % 2 = 0
       /\ \A i \in DOMAIN ops : ops[i].op = IF i % 2 = 1 THEN "begin" ELSE "commit"

(* For step1.py: matched transactions, no values passed on. *)
Unrelated(programs) ==
  {gs \in programs : Matched(parseTrace(gs)) /\ \A k \in DOMAIN gs : gs[k].from = 0}

StepOnePrograms == Unrelated(Straight) \cup Unrelated(Looping)

(* A thread uses a value it has stored itself: only then does convert.py   *)
(* report an MPB bug, which DuraRepair leaves out.                         *)
Chained(tr) ==
  \E i, k \in DOMAIN tr :
    /\ i < k
    /\ IsStore(tr[i]) /\ IsStore(tr[k])
    /\ tr[i].at = tr[k].from /\ tr[i].th = tr[k].th

(* step1.py has moved no statement within its thread; StepOne shows that   *)
(* it may.                                                                 *)
InThreadOrder(tr, out) ==
  \A th \in {1, 2} :
    SelectSeq(ThreadOf(out, th), LAMBDA s : s.id[1] = "stmt") = ThreadOf(tr, th)

(* For step4.py: matched transactions and something to repair. *)
ToLock(programs) ==
  {in \in [program : {gs \in programs :
                        LET tr == parseTrace(gs)
                        IN Matched(tr) /\ ~Chained(tr) /\ generateBugConstraints(tr) # <<>>},
           order : Orders] :
     LET tr == parseTrace(in.program)
     IN InThreadOrder(tr, addConstraints(tr, in.order))}

(* No thread runs while a transaction of the other one is open. *)
Apart(tr) ==
  \A i \in 2..Len(tr) : TransactionOpen(tr, i) => tr[i].th = tr[i-1].th

(* The program flushes its own stores: step1.py has added no flush. *)
OwnFlushes(tr) == \A i \in DOMAIN tr : tr[i].op = "flush" => tr[i].pre[2] = 0

(* The programs whose repaired form is run. *)
SafeToRun(tr) == Apart(tr) /\ RunsOnce(tr) /\ OwnFlushes(tr)

LockInputs == ToLock(Straight) \cup ToLock(Looping)
=============================================================================
