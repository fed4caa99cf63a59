--------------------------- MODULE LockConstraints ---------------------------
(***************************************************************************)
(* The constraints addLocks (src/repair/step4.py) gives to the Z3 solver,  *)
(* and what Z3 may answer.                                                 *)
(*                                                                         *)
(* The unknowns are the time pc_s at which statement s runs and the time   *)
(* pt_s by which store s is durable.  Every constraint is a bound on a     *)
(* difference, so a conjunction of them is a set of edges <<u, v, w>> that *)
(* stand for  v >= u + w.                                                  *)
(***************************************************************************)
EXTENDS DuraRepair

pcOf(id) == <<"pc", id>>
ptOf(id) == <<"pt", id>>

IsLock(s) == s.op = "lock"
IsUnlock(s) == s.op = "unlock"

(* The statements appendTraceWithLocks makes for a statement of a bug. *)
LockFor(r, s) == AddedStmt(<<"Lock", r>>, "lock", s)
UnLockFor(r, s) == AddedStmt(<<"UnLock", r>>, "unlock", s)
FenceFor(r, s) == AddedStmt(<<"Fence_Lock", r>>, "fence", s)

UnLockId(lockId) == <<"UnLock", lockId[2]>>

LockOpen(tr, i) == LastBefore(tr, i, {"lock", "unlock"}) = "lock"

(* getTransactionConstraints: every statement of the trace between a begin *)
(* and the next commit is durable before the commit, whoever runs it.      *)
getTransactionConstraints(tr) ==
  UNION {LET commit == SelectInSubSeq(tr, b, Len(tr), LAMBDA s : s.op = "commit")
         IN {<<ptOf(tr[i].id), pcOf(tr[commit].id), 1>> : i \in b..commit - 1} :
         b \in {i \in DOMAIN tr : tr[i].op = "begin"}}

(* The statements of a lock region stay consecutive; the last statement of *)
(* the trace is not looked at.                                             *)
InLock(tr) ==
  {<<pcOf(tr[i-1].id), pcOf(tr[i].id), 1>> :
     i \in {k \in 2..Len(tr) - 1 :
              IsUnlock(tr[k]) \/ (~IsLock(tr[k]) /\ LockOpen(tr, k))}}

ProgramOrder(tr) ==
  {<<pcOf(tr[e[1]].id), pcOf(tr[e[2]].id), 1>> :
     e \in {p \in (DOMAIN tr) \X (DOMAIN tr) : p[1] < p[2] /\ tr[p[1]].th = tr[p[2]].th}}

(* Mutant of Durability: the fence of any thread makes a store durable. *)
Durability_AnyThread(tr) ==
  UNION {LET s == tr[i]
             f == SelectInSubSeq(tr, i + 1, Len(tr), LAMBDA e : e.op = "fence")
         IN {<<pcOf(s.id), ptOf(s.id), 0>>} \cup
            {<<ptOf(s.id), pcOf(tr[k].id), 0>> : k \in {f} \ {0}} :
         i \in {k \in DOMAIN tr : IsStore(tr[k])}}

(* A store is durable at the earliest when it runs, and at the latest at   *)
(* the first fence that follows it in its thread.                          *)
Durability(tr) ==
  UNION {LET s == tr[i]
             f == SelectInSubSeq(tr, i + 1, Len(tr),
                                 LAMBDA e : e.op = "fence" /\ e.th = s.th)
         IN {<<pcOf(s.id), ptOf(s.id), 0>>} \cup
            {<<ptOf(s.id), pcOf(tr[k].id), 0>> : k \in {f} \ {0}} :
         i \in {k \in DOMAIN tr : IsStore(tr[k])}}

LockIds(tr) == {tr[i].id : i \in {k \in DOMAIN tr : IsLock(tr[k])}}

(* Mutant of Paired: the unlock before the lock. *)
Paired_Swapped(tr) == {<<pcOf(UnLockId(l)), pcOf(l), 1>> : l \in LockIds(tr)}

Paired(tr) == {<<pcOf(l), pcOf(UnLockId(l)), 1>> : l \in LockIds(tr)}

Base(tr, tx) == tx \cup InLock(tr) \cup ProgramOrder(tr) \cup Durability(tr) \cup Paired(tr)

(* One lock region comes after the other. *)
Exclusion(a, b) ==
  << <<pcOf(UnLockId(a)), pcOf(b), 1>>, <<pcOf(UnLockId(b)), pcOf(a), 1>> >>
Exclusions(tr) ==
  {Exclusion(p[1], p[2]) :
     p \in {q \in LockIds(tr) \X LockIds(tr) : q[1][2] < q[2][2]}}

(* The bug: j runs after t has run and before t is durable. *)
Bug(b) == {<<pcOf(b.t.id), pcOf(b.j.id), 1>>, <<pcOf(b.j.id), ptOf(b.t.id), 1>>}
NotBug(b) == << <<pcOf(b.j.id), pcOf(b.t.id), 0>>, <<ptOf(b.t.id), pcOf(b.j.id), 0>> >>
-----------------------------------------------------------------------------
(***************************************************************************)
(* Z3 (external).  A set of edges has a solution with 1 <= pc_s <= Len     *)
(* for the statements of the trace iff its least solution, which longest   *)
(* paths give, is one.                                                     *)
(***************************************************************************)
Within(tr, x) == \A id \in Ids(tr) : x[pcOf(id)] <= Len(tr)

Sat(tr, edges) ==
  LET nodes == {pcOf(id) : id \in Ids(tr)} \cup {e[1] : e \in edges} \cup {e[2] : e \in edges}
      into == [v \in nodes |-> {e \in edges : e[2] = v}]
      relax(x, n) ==
        LET y == [v \in nodes |-> Max({x[v]} \cup {x[e[1]] + e[3] : e \in into[v]})]
        IN IF y = x THEN x ELSE y
      least == FoldLeft(relax, [v \in nodes |-> 1], [n \in 1..Cardinality(nodes) |-> n])
  IN Within(tr, least) /\ \A e \in edges : least[e[2]] >= least[e[1]] + e[3]

(* A conjunction of edges and of disjunctions of two edges.  An edge that  *)
(* another one contradicts is not tried.                                   *)
Contradicts(e, d) == e[1] = d[2] /\ e[2] = d[1] /\ e[3] + d[3] > 0

SatAny(tr, edges, disjunctions) ==
  LET open == [d \in disjunctions |->
                 {i \in {1, 2} : ~\E e \in edges : Contradicts(e, d[i])}]
  IN \E pick \in [disjunctions -> {1, 2}] :
       /\ \A d \in disjunctions : pick[d] \in open[d]
       /\ Sat(tr, edges \cup {d[pick[d]] : d \in disjunctions})

(* The trace can run at all. *)
Runnable(tr, tx) == SatAny(tr, Base(tr, tx), Exclusions(tr))

(* The bugs the solver's model may satisfy first: addLocks repairs the     *)
(* first one of the list that is true in it.                               *)
Violable(tr, tx, bugs) ==
  {k \in DOMAIN bugs :
     SatAny(tr, Base(tr, tx) \cup Bug(bugs[k]),
            Exclusions(tr) \cup {NotBug(bugs[i]) : i \in 1..k-1})}
=============================================================================
