----------------------------- MODULE BipBuffer -----------------------------
(***************************************************************************)
(* A bip buffer: a ring whose free space is always handed out in one       *)
(* piece.  Region a is read first; once there is more room before a than   *)
(* after it, writing goes on in region b at the start of the buffer.       *)
(* memcached keeps log entries, lines for watchers and LRU bumps in it.    *)
(***************************************************************************)
EXTENDS Integers, Sequences

bipbuf_new(size) ==
  [size |-> size, a_start |-> 0, a_end |-> 0, b_end |-> 0, b_inuse |-> FALSE,
   data |-> <<>>]            \* no cell has been written

bipbuf_unused(me) ==
  IF me.b_inuse THEN me.a_start - me.b_end ELSE me.size - me.a_end

bipbuf_is_empty(me) == me.a_start = me.a_end

(* Mutant of check_for_switch_to_b: the switch ignores what is in b.       *)
check_for_switch_to_b_Back(me) ==
  [me EXCEPT !.b_inuse = me.size - me.a_end < me.a_start - me.b_end]

check_for_switch_to_b(me) ==
  IF me.size - me.a_end < me.a_start - me.b_end THEN [me EXCEPT !.b_inuse = TRUE] ELSE me

bipbuf_request(me, size) == bipbuf_unused(me) >= size

(* Writes data at the place a request of it would return.                  *)
Put(me, data) ==
  LET at == IF me.b_inuse THEN me.b_end ELSE me.a_end
      cells == at..(at + Len(data) - 1)
  IN  [me EXCEPT !.data = [i \in DOMAIN me.data \cup cells |-> IF i \in cells THEN data[i - at + 1] ELSE me.data[i]]]

bipbuf_push(me, size) ==
  IF bipbuf_unused(me) < size THEN me
  ELSE check_for_switch_to_b(IF me.b_inuse THEN [me EXCEPT !.b_end = @ + size]
                                           ELSE [me EXCEPT !.a_end = @ + size])

bipbuf_offer(me, data) ==
  IF bipbuf_unused(me) < Len(data) THEN me ELSE bipbuf_push(Put(me, data), Len(data))

bipbuf_peek_all(me) == [i \in 1..(me.a_end - me.a_start) |-> me.data[me.a_start + i - 1]]

bipbuf_poll(me, size) ==
  IF bipbuf_is_empty(me) \/ me.size < me.a_start + size THEN me
  ELSE check_for_switch_to_b(
         CASE me.a_start + size # me.a_end -> [me EXCEPT !.a_start = @ + size]
           [] me.a_start + size = me.a_end /\ me.b_inuse ->
                [me EXCEPT !.a_start = 0, !.a_end = me.b_end, !.b_end = 0, !.b_inuse = FALSE]
           [] OTHER -> [me EXCEPT !.a_start = 0, !.a_end = 0])

(* Everything in the buffer, in the order it will be read.                 *)
InOrder(me) == bipbuf_peek_all(me) \o [i \in 1..me.b_end |-> me.data[i - 1]]
=============================================================================
