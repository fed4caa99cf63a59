------------------------------ MODULE MCPCLHT -------------------------------
(***************************************************************************)
(* P-CLHT started on a table of two buckets into which 2, 1 and 5 have     *)
(* been put in turn: the chain of bin 1 has a second bucket, so one more   *)
(* expansion starts a resize, with two bins to move, and 1 and 5 share a   *)
(* bin of the larger table too.                                            *)
(***************************************************************************)
EXTENDS PCLHT

Bucket(k, next) == [slots |-> [j \in 1..Entries |-> IF j = 1 THEN <<k, 7>> ELSE <<0, 0>>], next |-> next]

MCInit ==
  /\ bkt = [i \in Ids |-> CASE i = 1 -> Bucket(2, 0) [] i = 2 -> Bucket(1, 3)
                            [] i = 3 -> Bucket(5, 0) [] OTHER -> Free]
  /\ line = [i \in Ids |-> {bkt[i]}]
  /\ lock = [i \in Ids |-> LOCK_FREE]
  /\ made = 3
  /\ tab = <<[NewTable(1, 2) EXCEPT !.expands = 1]>>
  /\ stats = <<{Second(tab[1]), Second(NewTable(1, 2))}>>
  /\ ht = 1
  /\ resizeLock = FALSE /\ statusLock = FALSE
  /\ th = [t \in Threads |-> Idle]
  /\ abs = [k \in Keys |-> IF k \in {1, 2, 5} THEN 7 ELSE 0]
  /\ seen = [t \in Threads |-> {}]
  /\ ops = 0 /\ resizes = 0 /\ crashes = 0

MCSpec == MCInit /\ [][Next]_vars /\ \A t \in Threads : WF_vars(Step(t))
=============================================================================
