------------------------------ MODULE LockRepair ------------------------------
(***************************************************************************)
(* generateRepair (src/repair/step4.py): while the solver finds a schedule *)
(* of the trace with a bug, put the two statements of the bug under the    *)
(* lock M1 and remove the locks that would be taken twice.                 *)
(*                                                                         *)
(* The code numbers the locks with a counter r that only serves to give    *)
(* them different names; here a new lock takes the least number not in     *)
(* use, so that a round that changes nothing leads back to the same state. *)
(***************************************************************************)
EXTENDS LockConstraints, DeadlockScan

CONSTANTS
  Inputs,   \* pairs of a program (a sequence of [th, line, from, shape]) and
            \* an order of its threads, for step1.py
  MaxLen,   \* bound: a longer trace is not repaired any further
  MaxDebt   \* bound: num_locks does not fall below -MaxDebt

VARIABLES
  input,      \* the trace as read
  trace,      \* trace
  bugs,       \* set1
  pc,         \* where generateRepair is
  truthValue, \* has the last round found a bug?
  num_locks   \* num_locks

vars == <<input, trace, bugs, pc, truthValue, num_locks>>
-----------------------------------------------------------------------------
Fresh(tr) ==
  LET used == {id[2] : id \in {i \in Ids(tr) : i[1] # "stmt"}}
  IN CHOOSE r \in 1..Cardinality(used) + 1 :
       r \notin used /\ \A q \in 1..r - 1 : q \in used

(* Inside a lock region; the test is not made inside a transaction. *)
LockedAt(tr, id) ==
  \E i \in DOMAIN tr : tr[i].id = id /\ LockOpen(tr, i) /\ ~TransactionOpen(tr, i)

OpenLock(tr, i) ==
  IF LockOpen(tr, i) THEN SelectLastInSubSeq(tr, 1, i - 1, IsLock) ELSE 0

(* The lock whose region holds both statements, 0 for none. *)
CommonLock(tr, first, second) ==
  LET common(k) ==
        LET f == SelectLastInSubSeq(tr, 1, k, LAMBDA s : s.id = first)
        IN f # 0 /\ OpenLock(tr, f) # 0 /\ OpenLock(tr, f) = OpenLock(tr, k)
      both == {k \in DOMAIN tr : tr[k].id = second /\ common(k)}
  IN IF both = {} THEN 0 ELSE OpenLock(tr, Min(both))

(* Remove a lock and the first unlock after it. *)
WithoutLock(tr, l) ==
  LET u == SelectInSubSeq(tr, l, Len(tr), IsUnlock)
  IN RemoveFirst(IF u = 0 THEN tr ELSE RemoveFirst(tr, tr[u]), tr[l])
-----------------------------------------------------------------------------
(***************************************************************************)
(* A lock region from target to a fence.  It ends behind the first fence   *)
(* of its thread; before that, at a statement of another thread, at the    *)
(* other statement of the bug, at a lock, or where the scope changes, with *)
(* a new fence.  If nothing ends it, the new fence and the unlock go to    *)
(* the end and the copy of the trace starts again at `from'.               *)
(***************************************************************************)
(* Mutant of Stops: another thread does not end the region. *)
Stops_SameThread(s, target, other) ==
  s.id = other.id \/ IsLock(s) \/ (s.th = target.th /\ s.pre # target.pre)

Stops(s, target, other) ==
  \/ s.th # target.th
  \/ s.id = other.id
  \/ IsLock(s)
  \/ s.pre # target.pre

Region(tr, from, to, target, other, r) ==
  LET p == SelectInSubSeq(tr, from, to, LAMBDA s : s.id = target.id)
      ends == {i \in p + 1..to : /\ p # 0
                                 /\ tr[i].id # target.id
                                 /\ Stops(tr[i], target, other) \/ tr[i].op = "fence"}
      e == IF ends = {} THEN to + 1 ELSE Min(ends)
      own == ends # {} /\ ~Stops(tr[e], target, other)
      copy(i) == IF tr[i].id = target.id THEN <<LockFor(r, target), tr[i]>> ELSE <<tr[i]>>
  IN [out |-> FlattenSeq([k \in 1..e - from |-> copy(from + k - 1)])
                \o <<IF own THEN tr[e] ELSE FenceFor(r, target), UnLockFor(r, target)>>,
      next |-> IF ends = {} THEN from ELSE IF own THEN e + 1 ELSE e,
      locks |-> Cardinality({i \in from..e - 1 : tr[i].id = target.id})]

(* The "very restricted lock" around one statement; the last statement of  *)
(* the trace never gets one.                                               *)
Restricted(tr, from, target, r) ==
  LET p == SelectInSubSeq(tr, from, Len(tr) - 1, LAMBDA s : s.id = target.id)
  IN IF p = 0
     THEN [out |-> SubSeq(tr, from, Len(tr) - 1), next |-> from, locks |-> 0]
     ELSE [out |-> SubSeq(tr, from, p - 1) \o
                     <<LockFor(r, target), tr[p], UnLockFor(r, target), tr[p+1]>>,
           next |-> p + 2, locks |-> 1]

(* For the first statement, the copy goes on up to the second one. *)
RestrictedFirst(tr, target, other, r) ==
  LET a == Restricted(tr, 1, target, r)
      q == SelectInSubSeq(tr, a.next, Len(tr) - 1, LAMBDA s : s.id = other.id)
  IN IF a.locks = 0 THEN a
     ELSE [a EXCEPT !.out = @ \o SubSeq(tr, a.next, (IF q = 0 THEN Len(tr) ELSE q) - 1),
                    !.next = IF q = 0 THEN @ ELSE q]

Skip(from) == [out |-> <<>>, next |-> from, locks |-> 0]

(* The loop that looks for the second statement copies statements in twos  *)
(* and reads past the end when it meets an odd number of others.           *)
Overruns(tr, from, target) ==
  /\ SelectInSubSeq(tr, from, Len(tr), LAMBDA s : s.id = target.id) = 0
  /\ (Len(tr) - from + 1) % 2 = 1

(* Mutant of CopyRest: one statement is skipped. *)
CopyRest_Late(out, tr, from) == out \o SubSeq(tr, from + 1, Len(tr))

(* Copy what is not in the repaired trace yet. *)
CopyRest(out, tr, from) ==
  FoldLeft(LAMBDA o, s : IF s \in ToSet(o) THEN o ELSE Append(o, s), out,
           SubSeq(tr, from, Len(tr)))

Added(one, two, common) == one.locks + two.locks - (IF common = 0 THEN 0 ELSE 1)

(* The lock around the first statement, from a copy of the whole trace. *)
LockFirst(tr, first, second, W) ==
  IF first.id \in W THEN Region(tr, 1, Len(tr) - 1, first, second, Fresh(tr))
  ELSE RestrictedFirst(tr, first, second, Fresh(tr))

(* The lock around the second one, r, in what the first has left to copy. *)
LockSecond(tr, from, first, second, W, r) ==
  IF second.id \in W THEN Region(tr, from, Len(tr), second, first, r)
  ELSE Restricted(tr, from, second, r)

Finish(tr, one, two, common) ==
  [trace |-> CopyRest(one.out \o two.out, tr, two.next),
   locks |-> Added(one, two, common),
   crash |-> FALSE]

Second(tr, one, first, second, W, locked, common) ==
  IF locked THEN Finish(tr, one, Skip(one.next), common)
  ELSE [Finish(tr, one, LockSecond(tr, one.next, first, second, W, Fresh(tr \o one.out)), common)
          EXCEPT !.crash = second.id \in W /\ Overruns(tr, one.next, second)]

(* A lock that holds both statements is removed, and each gets its own;    *)
(* otherwise a statement that is locked already is left as it is.          *)
LockBoth(tr0, first, second, W, common) ==
  LET tr == IF common = 0 THEN tr0 ELSE WithoutLock(tr0, common)
      locked(s) == common = 0 /\ LockedAt(tr0, s.id)
  IN Second(tr, IF locked(first) THEN Skip(1) ELSE LockFirst(tr, first, second, W),
            first, second, W, locked(second), common)

appendTraceWithLocks(tr, b, W) ==
  LET inOrder == b.t.id[2] < b.j.id[2]
      first == IF inOrder THEN b.t ELSE b.j
      second == IF inOrder THEN b.j ELSE b.t
  IN LockBoth(tr, first, second, W, CommonLock(tr, first.id, second.id))
-----------------------------------------------------------------------------
tx == getTransactionConstraints(input)

Init ==
  /\ \E in \in Inputs : input = Number(addConstraints(parseTrace(in.program), in.order))
  /\ trace = input
  /\ bugs = <<>>
  /\ pc = "read"
  /\ truthValue = TRUE
  /\ num_locks = 0

(* The bugs are read once; without any, the loop is not entered. *)
ReadBugs ==
  /\ pc = "read"
  /\ bugs' = readMPAs(trace, generateBugConstraints(trace))
  /\ pc' = IF bugs' = <<>> THEN "done" ELSE "addLocks"
  /\ UNCHANGED <<input, trace, truthValue, num_locks>>

(* An IndexError ends the program; otherwise the trace is replaced. *)
Replace(a) ==
  /\ trace' = IF a.crash THEN trace ELSE a.trace
  /\ num_locks' = IF a.crash THEN num_locks ELSE num_locks + a.locks
  /\ pc' = IF a.crash THEN "crashed" ELSE "removeDeadlocks"
  /\ UNCHANGED truthValue

(* Repair the first bug the solver's model satisfies. *)
Repair(b) == Replace(appendTraceWithLocks(trace, b, writes(bugs)))

(* Mutant of NoBugLeft: the loop condition is not reset. *)
NoBugLeft_Again ==
  /\ pc' = "removeDeadlocks"
  /\ UNCHANGED <<trace, truthValue, num_locks>>

(* Unsatisfiable: "all bugs have been repaired". *)
NoBugLeft ==
  /\ truthValue' = FALSE
  /\ pc' = "removeDeadlocks"
  /\ UNCHANGED <<trace, num_locks>>

(* One round.  The model of the solver, hence the bug, can be any. *)
addLocks ==
  /\ pc = "addLocks"
  /\ Len(trace) <= MaxLen /\ num_locks >= -MaxDebt
  /\ LET violable == Violable(trace, tx, bugs)
     IN \/ \E k \in violable : Repair(bugs[k])
        \/ violable = {} /\ NoBugLeft
  /\ UNCHANGED <<input, bugs>>

removeDeadlocks ==
  /\ pc = "removeDeadlocks"
  /\ LET a == FoldLeft(Scan, Start, trace)
     IN trace' = a.out /\ num_locks' = num_locks - a.dropped
  /\ pc' = IF truthValue THEN "addLocks" ELSE "done"
  /\ UNCHANGED <<input, bugs, truthValue>>

Next == ReadBugs \/ addLocks \/ removeDeadlocks

Spec == Init /\ [][Next]_vars

(* The program runs until it ends.  Every step changes pc, and one is      *)
(* possible unless the program has ended or a bound is reached: so        *)
(* this is weak fairness of Next, without asking the solver whether Next   *)
(* is enabled.                                                             *)
Advance ==
  /\ pc \in {"read", "addLocks", "removeDeadlocks"}
  /\ Len(trace) <= MaxLen /\ num_locks >= -MaxDebt
  /\ pc' \in {"addLocks", "removeDeadlocks", "done", "crashed"} \ {pc}
FairSpec == Spec /\ WF_pc(Advance)
-----------------------------------------------------------------------------
Statements(tr) == SelectSeq(tr, LAMBDA s : s.id[1] = "stmt")

(* generateRepair: the repair of a trace that runs each line once ends     *)
(* with a repaired trace.                                                  *)
Terminates == RunsOnce(input) ~> pc = "done"

(* appendTraceWithLocks only adds statements: the program's own are all there, once  *)
(* and in the order of the trace that was read.                            *)
StatementsKept == pc = "addLocks" => Statements(trace) = input

(* addLocks: "all bugs have been repaired" is not said of a trace that     *)
(* cannot run at all, for which every bug is unsatisfiable.                *)
NotVacuous == pc = "done" => Runnable(trace, tx)

(* addLocks and removeDeadlocks: lock regions do not nest and every lock   *)
(* is released by its own thread.                                          *)
LocksBracketed ==
  pc \in {"addLocks", "done"} =>
    \A i \in DOMAIN trace : IsLock(trace[i]) =>
      LET u == SelectInSubSeq(trace, i + 1, Len(trace),
                              LAMBDA s : IsLock(s) \/ IsUnlock(s))
      IN /\ u # 0
         /\ trace[u].id = UnLockId(trace[i].id)
         /\ \A k \in i..u : trace[k].th = trace[i].th

(* num_locks: for a trace without transactions, the number of locks the    *)
(* report gives is the number of locks in the trace.                       *)
NumLocksExact ==
  pc = "done" /\ NoTransactions(input) => num_locks = Cardinality({i \in DOMAIN trace : IsLock(trace[i])})

(* The locks added are bracketed, and as many as the report says.          *)
LocksSound == LocksBracketed /\ NumLocksExact
=============================================================================
