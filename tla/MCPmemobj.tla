----------------------------- MODULE MCPmemobj ------------------------------
(***************************************************************************)
(* Two parts of libpmemobj++, each by itself: the containers that are      *)
(* changed in transactions (Containers), and the hash table without locks  *)
(* or transactions (Clevel).                                               *)
(***************************************************************************)
EXTENDS Containers, Clevel

VARIABLE structure

(* Levels of four and eight buckets with one slot each.  Keys 1 to 6 fill  *)
(* the buckets of keys 7 and 8 in both levels, keys 9 and 10 those of one  *)
(* of them in a third level of sixteen.                                    *)
MCHash == <<0, 4, 1, 5, 9, 13, 8, 17, 25, 33>>
MCTag == [k \in Keys |-> 1]
Lower ==
  (<<2, 0, 1>> :> 1) @@ (<<2, 5, 1>> :> 2) @@ (<<2, 1, 1>> :> 3) @@ (<<2, 4, 1>> :> 4) @@ (<<1, 1, 1>> :> 6)
Full == Lower @@ (<<1, 2, 1>> :> 5)
Third == (<<3, 1, 1>> :> 9) @@ (<<3, 8, 1>> :> 10)

(* Inserts of which at least one appends a level; calls while one is       *)
(* moved; an update of an entry that is moved; calls in a table that keeps *)
(* its levels; a resizer that finds no room, and one whose record another  *)
(* thread replaces.                                                        *)
MCMixes ==
  {[start |-> Full, levels |-> 2, calls |-> {<<"insert", 7, 1>>, <<"insert", 8, 1>>}],
   [start |-> Full, levels |-> 3,
    calls |-> {<<"insert", 8, 1>>, <<"insert", 8, 2>>, <<"search", 5, 1>>, <<"search", 8, 1>>}],
   [start |-> Lower, levels |-> 3, calls |-> {<<"update", 6, 1>>, <<"search", 6, 1>>}],
   [start |-> Full, levels |-> 2,
    calls |-> {<<"insert", 7, 1>>, <<"search", 7, 1>>, <<"update", 7, 1>>, <<"erase", 1, 1>>, <<"erase", 1, 2>>}],
   [start |-> Full @@ Third, levels |-> 3, calls |-> {<<"insert", 8, 1>>}],
   [start |-> Lower @@ Third, levels |-> 3, calls |-> {<<"insert", 8, 1>>}]}

Symmetry == Permutations(Threads)

-----------------------------------------------------------------------------
NoTable ==
  /\ slot = 0 /\ slotVer = 0 /\ levels = 0 /\ linked = 0 /\ meta = 0 /\ metaVer = 0 /\ bucket = 0
  /\ entry = 0 /\ retired = 0 /\ th = 0 /\ mix = 0 /\ left = 0 /\ held = 0 /\ gone = 0 /\ cur = 0

PmemobjInit ==
  /\ Init
  /\ \/ structure = "containers" /\ NoTable
     \/ structure = "table" /\ type = "vector" /\ HInit

PmemobjNext ==
  \/ structure = "containers" /\ Next /\ UNCHANGED <<structure, hVars>>
  \/ structure = "table" /\ HNext /\ UNCHANGED <<structure, vars>>

-----------------------------------------------------------------------------
InTable == structure = "table"

(* The table has the keys it should have, whatever overlaps: see Clevel.   *)
TableKept == InTable => KeysKept

(* No crash loses a key or brings one back: see Clevel.                    *)
TableSurvives == InTable => CrashKeepsEntries
=============================================================================
