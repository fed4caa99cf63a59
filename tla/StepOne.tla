------------------------------- MODULE StepOne -------------------------------
(***************************************************************************)
(* addConstraints of src/repair/step1.py as it runs: one thread after the  *)
(* other, one bug after the other, and then the recombination.             *)
(***************************************************************************)
EXTENDS DuraRepair

CONSTANT Programs   \* sequences of [th, line, from, shape]

VARIABLES
  raw,             \* the trace as read
  order,           \* the threads taken up so far
  threads,         \* the threads, repaired so far
  bug,             \* the next bug of the current thread
  claimedFlushes,  \* claimedFlushes
  result,          \* recombinedTrace
  pc               \* "thread", "bug" or "done"

vars == <<raw, order, threads, bug, claimedFlushes, result, pc>>

Threads == {s.th : s \in ToSet(raw)}
bugs == Duras(raw)

Init ==
  /\ \E gs \in Programs : raw = parseTrace(gs)
  /\ order = <<>>
  /\ threads = [th \in Threads |-> ThreadOf(raw, th)]
  /\ bug = 1
  /\ claimedFlushes = {}
  /\ result = <<>>
  /\ pc = "thread"

(* getIndividualThreads lists a set: the order is any. *)
NextThread(th) ==
  /\ pc = "thread"
  /\ th \notin ToSet(order)
  /\ order' = Append(order, th)
  /\ bug' = 1
  /\ pc' = IF bugs = <<>> THEN "thread" ELSE "bug"
  /\ UNCHANGED <<raw, threads, claimedFlushes, result>>

RepairBug ==
  /\ pc = "bug"
  /\ LET th == Last(order)
         a == repairDURA([thread |-> threads[th], claimed |-> claimedFlushes], bugs[bug])
     IN /\ threads' = [threads EXCEPT ![th] = a.thread]
        /\ claimedFlushes' = a.claimed
  /\ bug' = bug + 1
  /\ pc' = IF bug < Len(bugs) THEN "bug" ELSE "thread"
  /\ UNCHANGED <<raw, order, result>>

Recombine ==
  /\ pc = "thread"
  /\ ToSet(order) = Threads
  /\ result' = recombine(raw, threads, order)
  /\ pc' = "done"
  /\ UNCHANGED <<raw, order, threads, bug, claimedFlushes>>

Next == (\E th \in Threads : NextThread(th)) \/ RepairBug \/ Recombine

Spec == Init /\ [][Next]_vars
-----------------------------------------------------------------------------
(* repairDURA: when step1.py is done with a trace that runs each line      *)
(* once, every bug it counts as fixed is: the store is followed by a flush *)
(* of its variable and a fence of its thread.                              *)
DuraFixed ==
  pc = "done" /\ RunsOnce(raw) =>
    \A k \in DOMAIN bugs :
      LET i == Find(result, bugs[k])
          thread == ThreadOf(result, result[i].th)
      IN MadeDurable(thread, Find(thread, bugs[k]))

(* The recombination of a trace without transactions loses, doubles and    *)
(* moves nothing within a thread, and keeps the order of all stores.       *)
ThreadsKept ==
  pc = "done" /\ NoTransactions(raw) =>
    /\ \A th \in Threads : ThreadOf(result, th) = threads[th]
    /\ SelectSeq(result, IsStore) = SelectSeq(raw, IsStore)

(* claimedFlushes: no flush serves two bugs, not even over the end of a    *)
(* thread: there are as many claimed flushes as repaired bugs.             *)
OneFlushPerBug ==
  pc = "done" => Cardinality(claimedFlushes) = Len(bugs)

(* repairThread only adds: what is left without the additions is the       *)
(* thread of the program, after every single repair.                       *)
OnlyAdds ==
  \A th \in Threads :
    SelectSeq(threads[th], LAMBDA s : s.id[1] = "stmt") = ThreadOf(raw, th)
(* What step 1 adds: whole threads with additions only, and one flush for  *)
(* each bug.                                                               *)
FlushesAdded == OnlyAdds /\ OneFlushPerBug
=============================================================================
