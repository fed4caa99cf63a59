----------------------------- MODULE MCLockedRun -----------------------------
(* LockedRun on small programs. *)
EXTENDS LockedRun, ProgramSets
=============================================================================
