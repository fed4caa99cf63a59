----------------------------- MODULE MCServices -----------------------------
(***************************************************************************)
(* Three services of memcached, each by itself: the hash table with its    *)
(* maintenance thread (Assoc), the log (Logger) and the slab pool in       *)
(* persistent memory (Pslab).                                              *)
(***************************************************************************)
EXTENDS Assoc, Logger, Pslab

VARIABLE service

(* Two keys are inserted and deleted beside five; an expansion separates   *)
(* keys that share a chain.                                                *)
MCHash == <<0, 4, 1, 5, 2, 3, 4>>
MCWriters == <<"w1">>
MCSizeOf == <<1, 2>>
MCBudgets == {[crashes |-> 2, stores |-> 1, flushes |-> 1],
              [crashes |-> 2, stores |-> 2, flushes |-> 0],
              [crashes |-> 1, stores |-> 0, flushes |-> 2]}

-----------------------------------------------------------------------------
NoPool == PInit /\ left = CHOOSE b \in Budgets : TRUE

ServicesInit ==
  /\ AInit
  /\ \/ service = "assoc" /\ LInit /\ NoPool
     \/ service = "logger" /\ LInit /\ NoPool
     \/ service = "pslab" /\ PInit /\ LInit

ServicesNext ==
  \/ service = "assoc" /\ ANext /\ UNCHANGED <<service, lVars, pVars>>
  \/ service = "logger" /\ LNext /\ UNCHANGED <<service, aVars, pVars>>
  \/ service = "pslab" /\ PNext /\ UNCHANGED <<service, aVars, lVars>>

ServicesSpec ==
  ServicesInit /\ [][ServicesNext]_<<service, aVars, lVars, pVars>> /\ AFairness

=============================================================================
