--------------------------- MODULE RemoveDeadlocks ---------------------------
(***************************************************************************)
(* removeDeadlocks (src/repair/step4.py), statement by statement.  It is   *)
(* called once per round, with whatever addLocks has left: any trace.      *)
(***************************************************************************)
EXTENDS DeadlockScan

CONSTANTS
  Statements,   \* records with an operation and an id
  Traces        \* the traces it may be called with

(* A lock is named Lock_<number>: no lock has the name of openLock = -1. *)
ASSUME StatementAssumption ==
  /\ \A s \in Statements : s.op = "lock" => s.id # Free
  /\ Traces \subseteq Seq(Statements)

VARIABLES
  trace,   \* trace
  i,       \* the statement that is looked at
  acc      \* traceToReturn, openLock and what num_locks loses

vars == <<trace, i, acc>>

Init == trace \in Traces /\ i = 1 /\ acc = Start

Step ==
  /\ i <= Len(trace)
  /\ acc' = Scan(acc, trace[i])
  /\ i' = i + 1
  /\ UNCHANGED trace

Next == Step

Spec == Init /\ [][Next]_vars
-----------------------------------------------------------------------------
(* Every statement is either in the result or counted. *)
TypeOK ==
  /\ trace \in Seq(Statements)
  /\ i \in 1..Len(trace) + 1
  /\ DOMAIN acc = {"out", "open", "dropped"}
  /\ acc.out \in Seq(Statements)
  /\ acc.open \in {Free} \cup {s.id : s \in Statements}
  /\ acc.dropped \in Nat
  /\ Len(acc.out) + acc.dropped = i - 1

IsLocking(s) == s.op \in {"lock", "unlock"}
QuietBetween(k, m) == \A n \in k + 1..m - 1 : ~IsLocking(acc.out[n])

(* In the trace removeDeadlocks returns no lock is taken while another one *)
(* is held: a lock is followed by its own unlock before any other lock, or *)
(* by no lock at all.                                                      *)
NeverTwice ==
  \A k \in DOMAIN acc.out :
    acc.out[k].op = "lock" =>
      \/ \E u \in k + 1..Len(acc.out) :
           Releases(acc.out[u], acc.out[k].id) /\ QuietBetween(k, u)
      \/ QuietBetween(k, Len(acc.out) + 1)

(* Nor is a lock released that is not held: an unlock follows its lock,    *)
(* with no other lock or unlock between them.                              *)
OnlyHeldReleased ==
  \A u \in DOMAIN acc.out :
    acc.out[u].op = "unlock" =>
      \E k \in 1..u - 1 :
        /\ acc.out[k].op = "lock"
        /\ Releases(acc.out[u], acc.out[k].id)
        /\ QuietBetween(k, u)

(* The two together: the result locks and unlocks in turns, each unlock    *)
(* after its own lock.                                                     *)
LocksNest == NeverTwice /\ OnlyHeldReleased

(* The statements of a trace that are neither a lock nor an unlock. *)
Others(tr) ==
  LET kept[n \in 0..Len(tr)] ==
        IF n = 0 THEN <<>>
        ELSE IF IsLocking(tr[n]) THEN kept[n - 1] ELSE Append(kept[n - 1], tr[n])
  IN kept[Len(tr)]

(* Every other statement of the trace is in the result, in its order. *)
OthersKept == Others(acc.out) = Others(SubSeq(trace, 1, i - 1))
=============================================================================
