------------------------------ MODULE DuraRepair ------------------------------
(***************************************************************************)
(* Step 1 of the repair (src/repair/step1.py) on a trace without MPB bugs: *)
(* every thread gets the flushes and fences its DURA bugs lack, and the    *)
(* threads are put together again.                                         *)
(***************************************************************************)
EXTENDS Traces

(* A flush of the variable in the same function that no bug has claimed,   *)
(* wherever it is in the thread.                                           *)
Claimable(f, s, claimed) ==
  /\ f.op = "flush" /\ f.at = s.at
  /\ f.pre[1] = s.pre[1]
  /\ f.id \notin claimed

WithFlush(thread, i, flush) == InsertAt(thread, i + 1, flush)

(* Mutant of FenceFollows: a fence before the store will do. *)
FenceFollows_Anywhere(thread, i, length) ==
  \E k \in 1..length : thread[k].op = "fence"

(* The search stops at the length the thread had without the flush. *)
FenceFollows(thread, i, length) == \E k \in i + 1..length : thread[k].op = "fence"

(* Mutant of Claim: the added flush is not claimed. *)
Claim_Found(claimed, thread, found, flush) ==
  claimed \cup {thread[k].id : k \in {found} \ {0}}

Claim(claimed, thread, found, flush) ==
  claimed \cup {IF found = 0 THEN flush.id ELSE thread[found].id}

(* repairDURA: claim a flush, or add one behind the store.  Add a fence at *)
(* the end of the thread if none follows the store.                        *)
repairDURA(a, id) ==
  LET i == Find(a.thread, id)
      s == a.thread[i]
      flush == AddedStmt(<<"flush", id[2]>>, "flush", s)
      fence == AddedStmt(<<"fence", id[2]>>, "fence", s)
      found == SelectInSeq(a.thread, LAMBDA f : Claimable(f, s, a.claimed))
      flushed == IF found = 0 THEN WithFlush(a.thread, i, flush) ELSE a.thread
  IN IF i = 0 THEN a
     ELSE [thread |-> IF FenceFollows(flushed, i, Len(a.thread)) THEN flushed
                      ELSE Append(flushed, fence),
           claimed |-> Claim(a.claimed, a.thread, found, flush)]

ThreadOf(tr, th) == SelectSeq(tr, LAMBDA s : s.th = th)

(* Mutant of WithTail: the next store too. *)
WithTail_Next(stmts, i) ==
  LET next == SelectInSubSeq(stmts, i + 1, Len(stmts), IsStore)
  IN SubSeq(stmts, i, IF next = 0 THEN Len(stmts) ELSE next)

(* A store and the other statements up to the next one. *)
WithTail(stmts, i) ==
  LET next == SelectInSubSeq(stmts, i + 1, Len(stmts), IsStore)
  IN SubSeq(stmts, i, (IF next = 0 THEN Len(stmts) + 1 ELSE next) - 1)

(* The repaired threads are put one behind the other, in any order; the    *)
(* trace is what comes before the first store and then, in the order of    *)
(* the trace read, the stores, each with what follows it.                  *)
recombine(tr, threads, order) ==
  LET all == FlattenSeq([k \in DOMAIN order |-> threads[order[k]]])
      stores == SelectSeq(tr, IsStore)
      lead == SubSeq(all, 1, SelectInSeq(all, IsStore) - 1)
  IN lead \o FlattenSeq([k \in DOMAIN stores |-> WithTail(all, Find(all, stores[k].id))])

(* The whole of addConstraints.  No id is in two threads, so each can      *)
(* start with nothing claimed.                                             *)
repairThread(thread, duras) ==
  FoldLeft(repairDURA, [thread |-> thread, claimed |-> {}], duras).thread

addConstraints(tr, order) ==
  recombine(tr, [th \in ToSet(order) |-> repairThread(ThreadOf(tr, th), Duras(tr))], order)
-----------------------------------------------------------------------------
(* Durable by the end of its thread: a flush of its variable follows the   *)
(* store, and a fence follows the flush.                                   *)
MadeDurable(thread, i) ==
  \E f, e \in DOMAIN thread :
    /\ i < f /\ f < e
    /\ thread[f].op = "flush" /\ thread[f].at = thread[i].at
    /\ thread[e].op = "fence"
=============================================================================
