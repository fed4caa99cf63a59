----------------------------- MODULE DeadlockScan -----------------------------
(***************************************************************************)
(* One iteration of removeDeadlocks (src/repair/step4.py): it drops a lock *)
(* taken while another one is held, and an unlock that does not release    *)
(* the held one.                                                           *)
(*                                                                         *)
(* An id is a pair of a name and a number: an unlock releases the lock of  *)
(* the same number.                                                        *)
(***************************************************************************)
EXTENDS Integers, Sequences

Free == <<"none", 0>>      \* openLock = -1

Releases(u, lockId) == u.op = "unlock" /\ u.id = <<"UnLock", lockId[2]>>

(* Mutants of Kept: nested locks stay; statements outside of a lock go.    *)
Kept_Nested(open, s) == s.op = "unlock" => open # Free /\ Releases(s, open)
Kept_Inside(open, s) ==
  \/ s.op = "lock" /\ open = Free
  \/ open # Free /\ (Releases(s, open) \/ s.op \notin {"lock", "unlock"})

Kept(open, s) ==
  \/ s.op = "lock" /\ open = Free
  \/ open # Free /\ Releases(s, open)
  \/ s.op \notin {"lock", "unlock"}

Opened(open, s) ==
  IF ~Kept(open, s) THEN open
  ELSE IF s.op = "lock" THEN s.id
  ELSE IF s.op = "unlock" THEN Free
  ELSE open

(* num_locks drops with every statement that is dropped. *)
Scan(acc, s) ==
  [out |-> IF Kept(acc.open, s) THEN Append(acc.out, s) ELSE acc.out,
   open |-> Opened(acc.open, s),
   dropped |-> IF Kept(acc.open, s) THEN acc.dropped ELSE acc.dropped + 1]

Start == [out |-> <<>>, open |-> Free, dropped |-> 0]
=============================================================================
