------------------------------ MODULE LockedRun ------------------------------
(***************************************************************************)
(* The repaired program: the threads of the trace step4.py has written run *)
(* concurrently on persistent memory.                                      *)
(*                                                                         *)
(* A store reaches persistent memory for certain when its variable has     *)
(* been flushed after it and the flushing thread has then passed a fence,  *)
(* or when the transaction it is in commits (x86 and PMDK, external).  M1  *)
(* is the mutex of all the locks.                                          *)
(***************************************************************************)
EXTENDS LockRepair

CONSTANT Executed(_)   \* whether the repaired form of a trace is run

VARIABLES
  next,        \* for every thread, the statement it is at
  holder,      \* the thread that holds M1, 0 for none
  dirty,       \* stores that have run and are not flushed
  flushing,    \* pairs <<store, thread>>: flushed by the thread, no fence yet
  misordered   \* bugs that have happened: numbers of `bugs'

runVars == <<next, holder, dirty, flushing, misordered>>
allVars == <<vars, runVars>>

Threads == {s.th : s \in ToSet(input)}
code(th) == ThreadOf(trace, th)
stmt(th) == code(th)[next[th]]

NotDurable == dirty \cup {p[1] : p \in flushing}

RunInit ==
  /\ Init
  /\ next = [th \in Threads |-> 1]
  /\ holder = 0
  /\ dirty = {}
  /\ flushing = {}
  /\ misordered = {}

At(th, ops) ==
  /\ pc = "done" /\ Executed(input)
  /\ next[th] <= Len(code(th))
  /\ stmt(th).op \in ops
  /\ next' = [next EXCEPT ![th] = @ + 1]

(* A bug happens when its second statement runs and the first has run and  *)
(* is not durable.                                                         *)
RunStore(th) ==
  /\ At(th, {"store"})
  /\ misordered' = misordered \cup
       {k \in DOMAIN bugs : bugs[k].j.id = stmt(th).id /\ bugs[k].t.id \in NotDurable}
  /\ dirty' = dirty \cup {stmt(th).id}
  /\ UNCHANGED <<holder, flushing>>

RunFlush(th) ==
  LET hit == {id \in dirty : input[Find(input, id)].at = stmt(th).at}
  IN /\ At(th, {"flush"})
     /\ dirty' = dirty \ hit
     /\ flushing' = flushing \cup {<<id, th>> : id \in hit}
     /\ UNCHANGED <<holder, misordered>>

RunFence(th) ==
  /\ At(th, {"fence"})
  /\ flushing' = {p \in flushing : p[2] # th}
  /\ UNCHANGED <<holder, dirty, misordered>>

RunLock(th) ==
  /\ At(th, {"lock"})
  /\ holder = 0
  /\ holder' = th
  /\ UNCHANGED <<dirty, flushing, misordered>>

RunUnlock(th) ==
  /\ At(th, {"unlock"})
  /\ holder' = 0
  /\ UNCHANGED <<dirty, flushing, misordered>>

RunBegin(th) ==
  /\ At(th, {"begin"})
  /\ UNCHANGED <<holder, dirty, flushing, misordered>>

(* The commit makes the stores of its own transaction durable. *)
RunCommit(th) ==
  LET b == SelectLastInSubSeq(code(th), 1, next[th], LAMBDA s : s.op = "begin")
      mine == {code(th)[i].id : i \in b + 1..next[th]}
  IN /\ At(th, {"commit"})
     /\ dirty' = dirty \ mine
     /\ flushing' = {p \in flushing : p[1] \notin mine}
     /\ UNCHANGED <<holder, misordered>>

RunStep(th) ==
  /\ \/ RunStore(th) \/ RunFlush(th) \/ RunFence(th)
     \/ RunLock(th) \/ RunUnlock(th)
     \/ RunBegin(th) \/ RunCommit(th)
  /\ UNCHANGED vars

RunNext == (Next /\ UNCHANGED runVars) \/ \E th \in Threads : RunStep(th)

RunSpec == RunInit /\ [][RunNext]_allVars

(* The repair goes on until it ends; then every thread that can run does.  *)
(* M1 is free again and again, and a waiting thread is not passed over     *)
(* more often than the others have locks: strong fairness is not needed.   *)
RunFairSpec ==
  RunSpec /\ WF_pc(Advance) /\ \A th \in 1..2 : WF_next(RunStep(th))
-----------------------------------------------------------------------------
(* In no execution of a repaired program does one of the bugs happen.      *)
NoBugHappens == misordered = {}

(* The added locks block no thread for ever. *)
Finishes == pc = "done" /\ Executed(input) ~> \A th \in Threads : next[th] > Len(code(th))
=============================================================================
