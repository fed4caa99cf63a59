-------------------------------- MODULE Traces --------------------------------
(***************************************************************************)
(* The traces the repair tools work on (src/repair), and the bugs the      *)
(* scripts propose for them.                                               *)
(*                                                                         *)
(* A statement is a record: its id (a line number of the trace, or a name  *)
(* the repair has made up), its operation, its thread, its source line,    *)
(* the variable it accesses, the variable a stored value was computed from *)
(* (0 for none) and the prefix of its scope.  The tools write the scope of *)
(* a statement of the program as "function_line" and that of an added one  *)
(* as "function_line_x", and compare scopes without their last part:       *)
(* the function for the one, function and line for the other.              *)
(***************************************************************************)
EXTENDS Integers, Sequences, FiniteSets, SequencesExt

CONSTANTS
  FuncOf,   \* function from source lines to the function they are in
  VarOf,    \* function from source lines to the variable they write
  Shapes    \* what the program may do around a store: names of Tails

(* What a thread does between two stores: before and after a store. *)
Leads ==
  [bare |-> <<>>, flushed |-> <<>>, own |-> <<>>,
   tx |-> <<"begin">>, opens |-> <<"begin">>, closes |-> <<>>]
Tails ==
  [bare |-> <<>>, flushed |-> <<"flush">>, own |-> <<"flush", "fence">>,
   tx |-> <<"commit">>, opens |-> <<>>, closes |-> <<"commit">>]

ASSUME TraceAssumption ==
  /\ Shapes \subseteq DOMAIN Tails
  /\ DOMAIN VarOf = DOMAIN FuncOf

Prefix(line, added) == <<FuncOf[line], IF added THEN line ELSE 0>>

(* The statements around a store are on lines of their own, which have no  *)
(* number here.                                                            *)
Stmt(op, g, from) ==
  [id |-> <<"stmt", 0>>, op |-> op, th |-> g.th,
   line |-> IF op = "store" THEN g.line ELSE 0,
   at |-> VarOf[g.line], from |-> from, pre |-> Prefix(g.line, FALSE)]

Stmts(ops, g) == [i \in DOMAIN ops |-> Stmt(ops[i], g, 0)]

(* A store of the program and the statements around it. *)
Group(g) ==
  Stmts(Leads[g.shape], g) \o <<Stmt("store", g, g.from)>> \o Stmts(Tails[g.shape], g)

(* parseTrace numbers the statements. *)
Number(tr) == [i \in DOMAIN tr |-> [tr[i] EXCEPT !.id = <<"stmt", i>>]]

parseTrace(gs) == Number(FlattenSeq([k \in DOMAIN gs |-> Group(gs[k])]))

(* A statement the repair adds for statement s; its scope ends in _x. *)
AddedStmt(id, op, s) ==
  [id |-> id, op |-> op, th |-> s.th, line |-> s.line, at |-> s.at,
   from |-> 0, pre |-> Prefix(s.line, TRUE)]

Ids(tr) == {tr[i].id : i \in DOMAIN tr}
Find(tr, id) == SelectInSeq(tr, LAMBDA s : s.id = id)

IsStore(s) == s.op = "store"
StoresOf(tr, line) == {i \in DOMAIN tr : IsStore(tr[i]) /\ tr[i].line = line}

(* The trace of a program that runs each line once.                        *)
RunsOnce(tr) == \A i \in DOMAIN tr : IsStore(tr[i]) => Cardinality(StoresOf(tr, tr[i].line)) = 1

NoTransactions(tr) == \A i \in DOMAIN tr : tr[i].op # "begin"

(* The last statement before i with one of the operations. *)
LastBefore(tr, i, ops) ==
  LET p == SelectLastInSubSeq(tr, 1, i - 1, LAMBDA s : s.op \in ops)
  IN IF p = 0 THEN "none" ELSE tr[p].op

TransactionOpen(tr, i) == LastBefore(tr, i, {"begin", "commit"}) = "begin"
-----------------------------------------------------------------------------
(***************************************************************************)
(* convert.py reports every source line that stores outside a transaction  *)
(* as a DURA (not durable) bug; readBugs takes the first store of the line *)
(* for it, inside a transaction or not.                                    *)
(***************************************************************************)
Duras(tr) ==
  LET outside == {i \in DOMAIN tr : IsStore(tr[i]) /\ ~TransactionOpen(tr, i)}
      new == {i \in outside : ~\E k \in outside : k < i /\ tr[k].line = tr[i].line}
      order == SetToSortSeq(new, <)
  IN [k \in DOMAIN order |-> tr[Min(StoresOf(tr, tr[order[k]].line))].id]

(***************************************************************************)
(* convert4.py proposes the MPA (misordered between threads) bugs, as      *)
(* pairs of source lines: a store and a later store of another thread      *)
(* whose value comes from the first one's variable.  A pair of lines is    *)
(* proposed once, in either order.                                         *)
(***************************************************************************)
MayMisorder(s, d) ==
  /\ IsStore(s) /\ IsStore(d)
  /\ s.at = d.from
  /\ s.th # d.th
  /\ s.line # d.line

generateBugConstraints(tr) ==
  LET found == {p \in (DOMAIN tr) \X (DOMAIN tr) :
                  p[1] < p[2] /\ MayMisorder(tr[p[1]], tr[p[2]])}
      earlier(p, q) == p[1] < q[1] \/ (p[1] = q[1] /\ p[2] < q[2])
      lines(p) == <<tr[p[1]].line, tr[p[2]].line>>
      new == {p \in found :
                ~\E q \in found : earlier(q, p) /\ ToSet(lines(q)) = ToSet(lines(p))}
      proposed == SetToSortSeq(new, earlier)
  IN [k \in DOMAIN proposed |-> lines(proposed[k])]

(***************************************************************************)
(* readMPAs makes a bug of a pair of lines: the first store of the one     *)
(* that has a store of the other one in another thread, and the first      *)
(* such store.  Its test that the pair is new holds, as convert4.py has    *)
(* made it already.                                                        *)
(***************************************************************************)
Partner(tr, t, line) ==
  SelectInSeq(tr, LAMBDA s : IsStore(s) /\ s.line = line /\ s.th # t.th)

readMPAs(tr, lines) ==
  LET t(l) == SelectInSeq(tr, LAMBDA s : /\ IsStore(s) /\ s.line = l[1]
                                         /\ Partner(tr, s, l[2]) # 0)
  IN [k \in DOMAIN lines |->
        [t |-> tr[t(lines[k])], j |-> tr[Partner(tr, tr[t(lines[k])], lines[k][2])]]]

(* The reads only feed lists that the repair never tests; they are left out. *)
writes(bugs) == {bugs[i].t.id : i \in DOMAIN bugs}
=============================================================================
