---------------------------- MODULE LoggerProofs ----------------------------
(***************************************************************************)
(* memcached's log loses, repeats and reorders nothing: a bip buffer of    *)
(* any size is a queue, its reader is not disturbed by its writer, and so  *)
(* every entry of every worker is read whole and in order (LogInv); the    *)
(* lines of each watcher account for every entry it asked for (WatchInv).  *)
(***************************************************************************)
EXTENDS Logger, WellFoundedInduction, TLAPS

-----------------------------------------------------------------------------
(* Sequences with the same elements. *)
LEMMA SameSeq ==
  ASSUME NEW S, NEW s \in Seq(S), NEW t \in Seq(S), Len(s) = Len(t), \A i \in 1..Len(s) : s[i] = t[i]
  PROVE  s = t
  OBVIOUS

(* Two sequences in a row. *)
LEMMA ConcatIs ==
  ASSUME NEW S, NEW s \in Seq(S), NEW t \in Seq(S)
  PROVE  /\ s \o t \in Seq(S) /\ Len(s \o t) = Len(s) + Len(t)
         /\ \A i \in 1..(Len(s) + Len(t)) : (s \o t)[i] = IF i <= Len(s) THEN s[i] ELSE t[i - Len(s)]
  OBVIOUS

(* Nothing added at the end. *)
LEMMA ConcatNone ==
  ASSUME NEW S, NEW s \in Seq(S)
  PROVE  s \o <<>> = s
  OBVIOUS

(* Three sequences in a row. *)
LEMMA ConcatThree ==
  ASSUME NEW S, NEW s \in Seq(S), NEW t \in Seq(S), NEW u \in Seq(S)
  PROVE  (s \o t) \o u = s \o (t \o u)
  BY SMTT(30), Z3T(30)

(* A part of a sequence. *)
LEMMA SubSeqIs ==
  ASSUME NEW S, NEW s, NEW m \in Int, NEW n \in Int, \A i \in m..n : s[i] \in S
  PROVE  /\ SubSeq(s, m, n) \in Seq(S) /\ Len(SubSeq(s, m, n)) = IF m <= n THEN n - m + 1 ELSE 0
         /\ \A i \in 1..(n - m + 1) : SubSeq(s, m, n)[i] = s[m + i - 1]
  OBVIOUS

-----------------------------------------------------------------------------
(* A buffer of cells of V: the data are where something was written.       *)
Written(V) == UNION {[S -> V] : S \in SUBSET Nat}

Buffers(V) ==
  [size : Nat, a_start : Nat, a_end : Nat, b_end : Nat, b_inuse : BOOLEAN, data : Written(V)]

(* Region b is in use only below a, and a is not empty then; an empty a is *)
(* at the start.                                                           *)
BufOK(me) ==
  /\ me.a_start <= me.a_end /\ me.a_end <= me.size
  /\ me.b_inuse => me.b_end <= me.a_start /\ me.a_start < me.a_end
  /\ ~me.b_inuse => me.b_end = 0
  /\ me.a_start = me.a_end => me.a_start = 0
  /\ me.a_start..(me.a_end - 1) \subseteq DOMAIN me.data
  /\ 0..(me.b_end - 1) \subseteq DOMAIN me.data

ALen(me) == me.a_end - me.a_start

(* The fields of a buffer. *)
LEMMA Fields ==
  ASSUME NEW V, NEW me \in Buffers(V)
  PROVE  /\ me.size \in Nat /\ me.a_start \in Nat /\ me.a_end \in Nat /\ me.b_end \in Nat
         /\ me.b_inuse \in BOOLEAN /\ me.data \in Written(V)
         /\ \A i \in DOMAIN me.data : me.data[i] \in V
         /\ DOMAIN me.data \subseteq Nat
         /\ me.data = [i \in DOMAIN me.data |-> me.data[i]]
  <1>1. me.data \in Written(V)
    BY DEF Buffers
  <1>2. PICK S \in SUBSET Nat : me.data \in [S -> V]
    BY <1>1, Zenon DEF Written
  <1> QED
    BY <1>1, <1>2 DEF Buffers

(* What is in a buffer, cell by cell. *)
LEMMA InOrderIs ==
  ASSUME NEW V, NEW me \in Buffers(V), BufOK(me)
  PROVE  /\ ALen(me) \in Nat
         /\ InOrder(me) \in Seq(V) /\ Len(InOrder(me)) = ALen(me) + me.b_end
         /\ \A i \in 1..(ALen(me) + me.b_end) :
              InOrder(me)[i] = IF i <= ALen(me) THEN me.data[me.a_start + i - 1]
                               ELSE me.data[i - ALen(me) - 1]
  <1> DEFINE a == bipbuf_peek_all(me)
             b == [i \in 1..me.b_end |-> me.data[i - 1]]
  <1>1. /\ me.a_start \in Nat /\ me.a_end \in Nat /\ me.b_end \in Nat /\ ALen(me) \in Nat
        /\ me.a_start <= me.a_end
    <2>1. me.a_start \in Nat /\ me.a_end \in Nat /\ me.b_end \in Nat
      BY Fields, Zenon
    <2>2. me.a_start <= me.a_end
      BY DEF BufOK
    <2> QED
      BY <2>1, <2>2 DEF ALen
  <1>2. \A i \in 1..ALen(me) : me.data[me.a_start + i - 1] \in V
    <2>1. ASSUME NEW i \in 1..ALen(me) PROVE me.data[me.a_start + i - 1] \in V
      <3>1. me.a_start + i - 1 \in me.a_start..(me.a_end - 1)
        BY <1>1 DEF ALen
      <3> QED
        BY <3>1, Fields, Zenon DEF BufOK
    <2> QED
      BY <2>1
  <1>3. \A i \in 1..me.b_end : me.data[i - 1] \in V
    <2>1. ASSUME NEW i \in 1..me.b_end PROVE me.data[i - 1] \in V
      <3>1. i - 1 \in 0..(me.b_end - 1)
        BY <1>1
      <3> QED
        BY <3>1, Fields, Zenon DEF BufOK
    <2> QED
      BY <2>1
  <1>4. a = [i \in 1..ALen(me) |-> me.data[me.a_start + i - 1]]
    BY DEF bipbuf_peek_all, ALen
  <1>5. a \in Seq(V) /\ Len(a) = ALen(me) /\ \A i \in 1..ALen(me) : a[i] = me.data[me.a_start + i - 1]
    BY <1>1, <1>2, <1>4
  <1>6. b \in Seq(V) /\ Len(b) = me.b_end /\ \A i \in 1..me.b_end : b[i] = me.data[i - 1]
    BY <1>1, <1>3
  <1>7. InOrder(me) = a \o b
    BY DEF InOrder
  <1> HIDE DEF a, b
  <1>8. /\ a \o b \in Seq(V) /\ Len(a \o b) = Len(a) + Len(b)
        /\ \A i \in 1..Len(a) + Len(b) : (a \o b)[i] = IF i <= Len(a) THEN a[i] ELSE b[i - Len(a)]
    BY <1>5, <1>6, ConcatIs, Zenon
  <1>9. ASSUME NEW i \in 1..(ALen(me) + me.b_end)
        PROVE  (a \o b)[i] = IF i <= ALen(me) THEN me.data[me.a_start + i - 1]
                              ELSE me.data[i - ALen(me) - 1]
    <2>1. CASE i <= ALen(me)
      BY <1>1, <1>5, <1>6, <1>8, <2>1
    <2>2. CASE ~(i <= ALen(me))
      <3>1. i - ALen(me) \in 1..me.b_end
        BY <1>1, <2>2
      <3> QED
        BY <1>1, <1>5, <1>6, <1>8, <2>2, <3>1, SMTT(30), Z3T(30)
    <2> QED
      BY <2>1, <2>2, Zenon
  <1> QED
    BY <1>1, <1>5, <1>6, <1>7, <1>8, <1>9

(* The switch to region b changes nothing else. *)
LEMMA SwitchFields ==
  ASSUME NEW V, NEW me \in Buffers(V)
  PROVE  LET r == check_for_switch_to_b(me)
         IN  /\ r \in Buffers(V) /\ r.size = me.size /\ r.a_start = me.a_start /\ r.a_end = me.a_end
             /\ r.b_end = me.b_end /\ r.data = me.data
             /\ r.b_inuse <=> me.b_inuse \/ me.size - me.a_end < me.a_start - me.b_end
  <1>1. CASE me.size - me.a_end < me.a_start - me.b_end
    <2>1. check_for_switch_to_b(me) = [me EXCEPT !.b_inuse = TRUE]
      BY <1>1 DEF check_for_switch_to_b
    <2> QED
      BY <1>1, <2>1, Zenon DEF Buffers
  <1>2. CASE ~(me.size - me.a_end < me.a_start - me.b_end)
    <2>1. check_for_switch_to_b(me) = me
      BY <1>2 DEF check_for_switch_to_b
    <2> QED
      BY <1>2, <2>1, Zenon
  <1> QED
    BY <1>1, <1>2

(* A region's end is set. *)
LEMMA SetAEnd ==
  ASSUME NEW V, NEW me \in Buffers(V), NEW n \in Nat, NEW r, r = [me EXCEPT !.a_end = n]
  PROVE  /\ r \in Buffers(V) /\ r.size = me.size /\ r.a_start = me.a_start /\ r.a_end = n
         /\ r.b_end = me.b_end /\ r.data = me.data /\ r.b_inuse = me.b_inuse
  BY DEF Buffers

(* An assignment to the end of region b. *)
LEMMA SetBEnd ==
  ASSUME NEW V, NEW me \in Buffers(V), NEW n \in Nat, NEW r, r = [me EXCEPT !.b_end = n]
  PROVE  /\ r \in Buffers(V) /\ r.size = me.size /\ r.a_start = me.a_start /\ r.a_end = me.a_end
         /\ r.b_end = n /\ r.data = me.data /\ r.b_inuse = me.b_inuse
  BY DEF Buffers

(* Where something is written, and the data then. *)
At(me) == IF me.b_inuse THEN me.b_end ELSE me.a_end

After(me, d) ==
  LET at == At(me)
      cells == at..(at + Len(d) - 1)
  IN  [i \in DOMAIN me.data \cup cells |-> IF i \in cells THEN d[i - at + 1] ELSE me.data[i]]

(* What writing the data of an offer changes. *)
LEMMA PutFields ==
  ASSUME NEW V, NEW me \in Buffers(V), NEW d \in Seq(V)
  PROVE  /\ After(me, d) \in Written(V)
         /\ Put(me, d) = [me EXCEPT !.data = After(me, d)] /\ Put(me, d) \in Buffers(V)
         /\ Put(me, d).data = After(me, d) /\ bipbuf_unused(Put(me, d)) = bipbuf_unused(me)
  <1> DEFINE at == IF me.b_inuse THEN me.b_end ELSE me.a_end
             cells == at..(at + Len(d) - 1)
             D == DOMAIN me.data
  <1>1. at \in Nat /\ Len(d) \in Nat /\ D \subseteq Nat /\ \A i \in D : me.data[i] \in V
    <2>1. me.b_end \in Nat /\ me.a_end \in Nat /\ D \subseteq Nat /\ \A i \in D : me.data[i] \in V
      BY Fields, Zenon
    <2> QED
      BY <2>1
  <1>2. After(me, d) = [i \in D \cup cells |-> IF i \in cells THEN d[i - at + 1] ELSE me.data[i]]
    BY DEF After, At
  <1> HIDE DEF at, D
  <1>3. cells \subseteq Nat /\ \A i \in cells : d[i - at + 1] \in V
    <2>1. \A i \in cells : i \in Nat /\ i - at + 1 \in 1..Len(d)
      BY <1>1
    <2> QED
      BY <2>1
  <1>4. After(me, d) \in [D \cup cells -> V]
    BY <1>1, <1>2, <1>3, Zenon
  <1>5. D \cup cells \in SUBSET Nat
    BY <1>1, <1>3, Zenon
  <1>6. After(me, d) \in Written(V)
    BY <1>4, <1>5, Zenon DEF Written
  <1>7. Put(me, d) = [me EXCEPT !.data = After(me, d)]
    BY Zenon DEF Put, After, At
  <1>8. /\ Put(me, d) \in Buffers(V) /\ Put(me, d).data = After(me, d)
        /\ Put(me, d).size = me.size /\ Put(me, d).a_start = me.a_start /\ Put(me, d).a_end = me.a_end
        /\ Put(me, d).b_end = me.b_end /\ Put(me, d).b_inuse = me.b_inuse
    BY <1>6, <1>7 DEF Buffers
  <1> QED
    BY <1>6, <1>7, <1>8, Zenon DEF bipbuf_unused

(* The fields after something was offered that fits. *)
LEMMA OfferFields ==
  ASSUME NEW V, NEW me \in Buffers(V), NEW d \in Seq(V), Len(d) <= bipbuf_unused(me)
  PROVE  LET r == bipbuf_offer(me, d)
         IN  /\ r \in Buffers(V) /\ r.size = me.size /\ r.a_start = me.a_start
             /\ r.a_end = (IF me.b_inuse THEN me.a_end ELSE me.a_end + Len(d))
             /\ r.b_end = (IF me.b_inuse THEN me.b_end + Len(d) ELSE me.b_end)
             /\ r.data = After(me, d)
             /\ r.b_inuse <=> me.b_inuse \/ r.size - r.a_end < r.a_start - r.b_end
  <1> DEFINE put == Put(me, d)
             n == Len(d)
             ext == IF put.b_inuse THEN [put EXCEPT !.b_end = @ + n] ELSE [put EXCEPT !.a_end = @ + n]
  <1>1. n \in Nat
    OBVIOUS
  <1>2. me.a_end \in Nat /\ me.b_end \in Nat /\ bipbuf_unused(me) \in Int
    <2>1. me.size \in Nat /\ me.a_start \in Nat /\ me.a_end \in Nat /\ me.b_end \in Nat
      BY Fields, Zenon
    <2> QED
      BY <2>1 DEF bipbuf_unused
  <1>3. /\ put \in Buffers(V) /\ put.data = After(me, d)
        /\ put = [me EXCEPT !.data = After(me, d)] /\ bipbuf_unused(put) = bipbuf_unused(me)
    BY PutFields, ZenonT(30)
  <1>4. /\ put.size = me.size /\ put.a_start = me.a_start /\ put.a_end = me.a_end
        /\ put.b_end = me.b_end /\ put.b_inuse = me.b_inuse
    BY <1>3 DEF Buffers
  <1>5. bipbuf_offer(me, d) = check_for_switch_to_b(ext)
    <2>1. ~(bipbuf_unused(me) < n) /\ ~(bipbuf_unused(put) < n)
      BY <1>1, <1>2, <1>3
    <2> QED
      BY <2>1, Zenon DEF bipbuf_offer, bipbuf_push
  <1> HIDE DEF put, n
  <1>6. /\ ext \in Buffers(V) /\ ext.size = me.size /\ ext.a_start = me.a_start
        /\ ext.a_end = (IF me.b_inuse THEN me.a_end ELSE me.a_end + n)
        /\ ext.b_end = (IF me.b_inuse THEN me.b_end + n ELSE me.b_end)
        /\ ext.data = After(me, d) /\ ext.b_inuse = me.b_inuse
    <2>1. CASE me.b_inuse
      <3>1. put.b_end + n \in Nat /\ ext = [put EXCEPT !.b_end = put.b_end + n]
        BY <1>1, <1>2, <1>4, <2>1
      <3> HIDE DEF ext
      <3>2. /\ ext \in Buffers(V) /\ ext.size = put.size /\ ext.a_start = put.a_start
            /\ ext.b_end = put.b_end + n /\ ext.a_end = put.a_end
            /\ ext.data = put.data /\ ext.b_inuse = put.b_inuse
        <4>1. put \in Buffers(V)
          BY <1>3
        <4>2. PICK m \in Nat : m = put.b_end + n
          BY <3>1
        <4>3. ext = [put EXCEPT !.b_end = m]
          BY <3>1, <4>2, Zenon
        <4> QED
          BY <4>1, <4>2, <4>3, SetBEnd
      <3> QED
        BY <1>3, <1>4, <2>1, <3>2, Zenon
    <2>2. CASE ~me.b_inuse
      <3>1. put.a_end + n \in Nat /\ ext = [put EXCEPT !.a_end = put.a_end + n]
        BY <1>1, <1>2, <1>4, <2>2
      <3> HIDE DEF ext
      <3>2. /\ ext \in Buffers(V) /\ ext.size = put.size /\ ext.a_start = put.a_start
            /\ ext.a_end = put.a_end + n /\ ext.b_end = put.b_end
            /\ ext.data = put.data /\ ext.b_inuse = put.b_inuse
        <4>1. put \in Buffers(V)
          BY <1>3
        <4>2. PICK m \in Nat : m = put.a_end + n
          BY <3>1
        <4>3. ext = [put EXCEPT !.a_end = m]
          BY <3>1, <4>2, Zenon
        <4> QED
          BY <4>1, <4>2, <4>3, SetAEnd
      <3> QED
        BY <1>3, <1>4, <2>2, <3>2
    <2> QED
      BY <2>1, <2>2
  <1> HIDE DEF ext
  <1>7. LET r == check_for_switch_to_b(ext)
        IN  /\ r \in Buffers(V) /\ r.size = ext.size /\ r.a_start = ext.a_start /\ r.a_end = ext.a_end
            /\ r.b_end = ext.b_end /\ r.data = ext.data
            /\ r.b_inuse <=> ext.b_inuse \/ ext.size - ext.a_end < ext.a_start - ext.b_end
    BY <1>6, SwitchFields, Zenon
  <1> QED
    BY <1>5, <1>6, <1>7, Zenon DEF n

(* Where the data changed. *)
LEMMA AfterIs ==
  ASSUME NEW V, NEW me \in Buffers(V), NEW d \in Seq(V)
  PROVE  LET at == At(me)
             cells == at..(at + Len(d) - 1)
         IN  /\ DOMAIN After(me, d) = DOMAIN me.data \cup cells
             /\ \A i \in cells : After(me, d)[i] = d[i - at + 1]
             /\ \A i \in DOMAIN me.data : i \notin cells => After(me, d)[i] = me.data[i]
  BY Zenon DEF After

(* What is offered and fits goes to the end of the queue, and the reader's *)
(* region either stays or is all there is.                                 *)
LEMMA OfferIs ==
  ASSUME NEW V, NEW me \in Buffers(V), BufOK(me), NEW d \in Seq(V), Len(d) <= bipbuf_unused(me)
  PROVE  LET r == bipbuf_offer(me, d)
         IN  /\ r \in Buffers(V) /\ BufOK(r) /\ r.size = me.size /\ r.a_start = me.a_start
             /\ ALen(me) \in Nat /\ ALen(r) \in Nat /\ ALen(me) <= ALen(r)
             /\ ALen(r) = ALen(me) \/ ALen(r) = Len(InOrder(r))
             /\ InOrder(r) = InOrder(me) \o d
  <1> DEFINE r == bipbuf_offer(me, d)
             n == Len(d)
             at == At(me)
  <1>1. /\ me.size \in Nat /\ me.a_start \in Nat /\ me.a_end \in Nat /\ me.b_end \in Nat
        /\ me.b_inuse \in BOOLEAN /\ DOMAIN me.data \subseteq Nat
    BY Fields, Zenon
  <1>2. n \in Nat /\ at \in Nat
    BY <1>1 DEF At
  <1>3. /\ r \in Buffers(V) /\ r.size = me.size /\ r.a_start = me.a_start
        /\ r.a_end = (IF me.b_inuse THEN me.a_end ELSE me.a_end + n)
        /\ r.b_end = (IF me.b_inuse THEN me.b_end + n ELSE me.b_end)
        /\ r.data = After(me, d)
        /\ r.b_inuse <=> me.b_inuse \/ r.size - r.a_end < r.a_start - r.b_end
    BY OfferFields, Zenon
  <1>4. /\ DOMAIN r.data = DOMAIN me.data \cup at..(at + n - 1)
        /\ \A i \in at..(at + n - 1) : r.data[i] = d[i - at + 1]
        /\ \A i \in DOMAIN me.data : i \notin at..(at + n - 1) => r.data[i] = me.data[i]
    <2> DEFINE f == After(me, d)
    <2>1. /\ DOMAIN f = DOMAIN me.data \cup at..(at + n - 1)
          /\ \A i \in at..(at + n - 1) : f[i] = d[i - at + 1]
          /\ \A i \in DOMAIN me.data : i \notin at..(at + n - 1) => f[i] = me.data[i]
      BY AfterIs, Zenon
    <2>2. r.data = f
      BY <1>3, Zenon
    <2> QED
      BY <2>1, <2>2, Zenon
  <1>5. /\ me.a_start <= me.a_end /\ me.a_end <= me.size
        /\ me.b_inuse => me.b_end <= me.a_start /\ me.a_start < me.a_end /\ n <= me.a_start - me.b_end
        /\ ~me.b_inuse => me.b_end = 0 /\ n <= me.size - me.a_end
        /\ me.a_start = me.a_end => me.a_start = 0
        /\ me.a_start..(me.a_end - 1) \subseteq DOMAIN me.data
        /\ 0..(me.b_end - 1) \subseteq DOMAIN me.data
    BY Zenon DEF BufOK, bipbuf_unused
  <1>6. at = IF me.b_inuse THEN me.b_end ELSE me.a_end
    BY DEF At
  <1> HIDE DEF r, n, at
  <1>7. BufOK(r)
    <2>1. /\ r.a_start <= r.a_end /\ r.a_end <= r.size
          /\ r.b_inuse => r.b_end <= r.a_start /\ r.a_start < r.a_end
          /\ ~r.b_inuse => r.b_end = 0
          /\ r.a_start = r.a_end => r.a_start = 0
      BY <1>1, <1>2, <1>3, <1>5, SMTT(30), Z3T(30)
    <2>2. r.a_start..(r.a_end - 1) \subseteq me.a_start..(me.a_end - 1) \cup at..(at + n - 1)
      BY <1>1, <1>2, <1>3, <1>5, <1>6, SMTT(30), Z3T(30)
    <2>3. 0..(r.b_end - 1) \subseteq 0..(me.b_end - 1) \cup at..(at + n - 1)
      BY <1>1, <1>2, <1>3, <1>5, <1>6, SMTT(30), Z3T(30)
    <2>4. r.a_start..(r.a_end - 1) \subseteq DOMAIN r.data /\ 0..(r.b_end - 1) \subseteq DOMAIN r.data
      BY <1>4, <1>5, <2>2, <2>3, Zenon
    <2> QED
      BY <2>1, <2>4, Zenon DEF BufOK
  <1>8. /\ ALen(me) \in Nat /\ InOrder(me) \in Seq(V) /\ Len(InOrder(me)) = ALen(me) + me.b_end
        /\ \A i \in 1..(ALen(me) + me.b_end) :
             InOrder(me)[i] = IF i <= ALen(me) THEN me.data[me.a_start + i - 1]
                              ELSE me.data[i - ALen(me) - 1]
    BY InOrderIs, Zenon
  <1>9. /\ ALen(r) \in Nat /\ InOrder(r) \in Seq(V) /\ Len(InOrder(r)) = ALen(r) + r.b_end
        /\ \A i \in 1..(ALen(r) + r.b_end) :
             InOrder(r)[i] = IF i <= ALen(r) THEN r.data[r.a_start + i - 1]
                             ELSE r.data[i - ALen(r) - 1]
    BY <1>3, <1>7, InOrderIs, Zenon
  <1>10. /\ ALen(me) = me.a_end - me.a_start
         /\ ALen(r) = IF me.b_inuse THEN ALen(me) ELSE ALen(me) + n
         /\ ALen(r) + r.b_end = ALen(me) + me.b_end + n
    BY <1>1, <1>2, <1>3, SMTT(30), Z3T(30) DEF ALen
  <1>11. ALen(me) <= ALen(r) /\ (ALen(r) = ALen(me) \/ ALen(r) = Len(InOrder(r)))
    <2>1. CASE me.b_inuse
      BY <1>8, <1>10, <2>1
    <2>2. CASE ~me.b_inuse
      BY <1>2, <1>3, <1>5, <1>8, <1>9, <1>10, <2>2
    <2> QED
      BY <2>1, <2>2
  <1>12. /\ InOrder(me) \o d \in Seq(V) /\ Len(InOrder(me) \o d) = ALen(me) + me.b_end + n
         /\ \A i \in 1..(ALen(me) + me.b_end + n) :
              (InOrder(me) \o d)[i] = IF i <= ALen(me) + me.b_end THEN InOrder(me)[i]
                                      ELSE d[i - (ALen(me) + me.b_end)]
    <2>1. /\ InOrder(me) \o d \in Seq(V) /\ Len(InOrder(me) \o d) = Len(InOrder(me)) + Len(d)
          /\ \A i \in 1..Len(InOrder(me)) + Len(d) :
               (InOrder(me) \o d)[i] = IF i <= Len(InOrder(me)) THEN InOrder(me)[i]
                                       ELSE d[i - Len(InOrder(me))]
      BY <1>8, ConcatIs, Zenon
    <2> QED
      BY <1>8, <2>1, Zenon DEF n
  <1> DEFINE a == ALen(me)
             b == me.b_end
  <1>13. /\ me.a_start \in Nat /\ me.a_end \in Nat /\ b \in Nat /\ n \in Nat /\ a \in Nat /\ at \in Nat
         /\ me.a_end = me.a_start + a /\ r.a_start = me.a_start /\ ALen(r) \in Nat
         /\ \/ /\ ALen(r) = a /\ at = b /\ b + n <= me.a_start
            \/ /\ ALen(r) = a + n /\ at = me.a_start + a /\ b = 0
    <2>1. /\ me.a_start \in Nat /\ me.a_end \in Nat /\ b \in Nat /\ n \in Nat /\ a \in Nat /\ at \in Nat
          /\ me.a_end = me.a_start + a /\ r.a_start = me.a_start /\ ALen(r) \in Nat
      BY <1>1, <1>2, <1>3, <1>8, <1>9, <1>10, SMTT(30), Z3T(30)
    <2>2. CASE me.b_inuse
      BY <1>2, <1>5, <1>6, <1>10, <2>1, <2>2, SMTT(30), Z3T(30)
    <2>3. CASE ~me.b_inuse
      BY <1>5, <1>6, <1>10, <2>1, <2>3
    <2> QED
      BY <1>1, <2>1, <2>2, <2>3
  <1>14. a = ALen(me) /\ b = me.b_end
    OBVIOUS
  <1> HIDE DEF a, b
  <1>15. ASSUME NEW i \in 1..(ALen(me) + me.b_end + n)
         PROVE  InOrder(r)[i] = (InOrder(me) \o d)[i]
    <2>1. PICK p : p = IF i <= ALen(r) THEN me.a_start + i - 1 ELSE i - ALen(r) - 1
      OBVIOUS
    <2>2. PICK q : q = IF i <= a THEN me.a_start + i - 1 ELSE i - a - 1
      OBVIOUS
    <2>3. /\ i <= a + b => /\ p = q /\ q \notin at..(at + n - 1)
                           /\ q \in me.a_start..(me.a_start + a - 1) \cup 0..(b - 1)
          /\ ~(i <= a + b) => p \in at..(at + n - 1) /\ p - at + 1 = i - (a + b)
      <3>1. i \in 1..(a + b + n)
        BY <1>14
      <3>2. PICK s \in Nat : s = me.a_start
        BY <1>13
      <3>3. PICK ar \in Nat : ar = ALen(r)
        BY <1>13
      <3>4. /\ b \in Nat /\ n \in Nat /\ a \in Nat /\ at \in Nat
            /\ p = (IF i <= ar THEN s + i - 1 ELSE i - ar - 1)
            /\ q = (IF i <= a THEN s + i - 1 ELSE i - a - 1)
            /\ (ar = a /\ at = b /\ b + n <= s) \/ (ar = a + n /\ at = s + a /\ b = 0)
        BY <1>13, <2>1, <2>2, <3>2, <3>3, Zenon
      <3>5. /\ i <= a + b => /\ p = q /\ q \notin at..(at + n - 1)
                             /\ q \in s..(s + a - 1) \cup 0..(b - 1)
            /\ ~(i <= a + b) => p \in at..(at + n - 1) /\ p - at + 1 = i - (a + b)
        <4>1. CASE i <= ar
          BY <3>1, <3>4, <4>1
        <4>2. CASE ~(i <= ar)
          BY <3>1, <3>4, <4>2
        <4> QED
          BY <4>1, <4>2
      <3> QED
        BY <3>2, <3>5, Zenon
    <2>4. InOrder(r)[i] = r.data[p]
      BY <1>9, <1>10, <1>13, <2>1, Zenon
    <2>5. CASE i <= a + b
      <3>1. InOrder(me)[i] = me.data[q]
        <4>1. i \in 1..(a + b)
          BY <1>13, <1>14, <2>5
        <4> QED
          BY <1>8, <1>14, <2>2, <4>1, Zenon
      <3>2. r.data[q] = me.data[q]
        <4>1. q \in DOMAIN me.data
          <5>1. q \in me.a_start..(me.a_end - 1) \cup 0..(me.b_end - 1)
            <6>1. me.a_start + a - 1 = me.a_end - 1
              BY <1>13, SMTT(30), Z3T(30)
            <6> QED
              BY <1>14, <2>3, <2>5, <6>1, Zenon
          <5> QED
            BY <1>5, <5>1, Zenon
        <4> QED
          BY <1>4, <2>3, <2>5, <4>1, Zenon
      <3> QED
        BY <1>12, <1>14, <2>3, <2>4, <2>5, <3>1, <3>2
    <2>6. CASE ~(i <= a + b)
      BY <1>4, <1>12, <1>14, <2>3, <2>4, <2>6
    <2> QED
      BY <2>5, <2>6, Zenon
  <1>16. InOrder(r) = InOrder(me) \o d
    <2>1. Len(InOrder(r)) = Len(InOrder(me) \o d)
      BY <1>9, <1>10, <1>12, Zenon
    <2>2. \A i \in 1..Len(InOrder(r)) : InOrder(r)[i] = (InOrder(me) \o d)[i]
      BY <1>9, <1>10, <1>15, Zenon
    <2> QED
      BY <1>9, <1>12, <2>1, <2>2, SameSeq, Zenon
  <1> QED
    BY <1>3, <1>7, <1>8, <1>9, <1>11, <1>16, Zenon DEF r

(* The fields after a part of region a was taken. *)
LEMMA PollFields ==
  ASSUME NEW V, NEW me \in Buffers(V), BufOK(me), NEW n \in 0..ALen(me)
  PROVE  LET r == bipbuf_poll(me, n)
         IN  /\ r \in Buffers(V) /\ r.size = me.size /\ r.data = me.data
             /\ \/ /\ me.a_start + n < me.a_end
                   /\ r.a_start = me.a_start + n /\ r.a_end = me.a_end /\ r.b_end = me.b_end
                   /\ r.b_inuse <=> me.b_inuse \/ me.size - me.a_end < me.a_start + n - me.b_end
                \/ /\ me.a_start + n = me.a_end
                   /\ r.a_start = 0 /\ r.a_end = me.b_end /\ r.b_end = 0 /\ ~r.b_inuse
  <1>1. /\ me.size \in Nat /\ me.a_start \in Nat /\ me.a_end \in Nat /\ me.b_end \in Nat
        /\ me.b_inuse \in BOOLEAN
    BY Fields, Zenon
  <1>2. /\ me.a_start <= me.a_end /\ me.a_end <= me.size
        /\ me.b_inuse => me.b_end <= me.a_start /\ me.a_start < me.a_end
        /\ ~me.b_inuse => me.b_end = 0
        /\ me.a_start = me.a_end => me.a_start = 0
    BY Zenon DEF BufOK
  <1>3. n \in Nat /\ me.a_start + n <= me.a_end /\ ~(me.size < me.a_start + n)
    BY <1>1, <1>2 DEF ALen
  <1>4. CASE bipbuf_is_empty(me)
    <2>1. bipbuf_poll(me, n) = me
      BY <1>4 DEF bipbuf_poll
    <2>2. me.a_start = 0 /\ me.a_end = 0 /\ n = 0 /\ me.b_end = 0 /\ ~me.b_inuse
      BY <1>1, <1>2, <1>3, <1>4 DEF bipbuf_is_empty
    <2>3. me.a_start + n = me.a_end
      BY <2>2
    <2> QED
      BY <2>1, <2>2, <2>3, Zenon
  <1>5. CASE ~bipbuf_is_empty(me) /\ me.a_start + n # me.a_end
    <2> DEFINE c == [me EXCEPT !.a_start = me.a_start + n]
    <2>1. bipbuf_poll(me, n) = check_for_switch_to_b(c)
      BY <1>3, <1>5 DEF bipbuf_poll
    <2>2. /\ c \in Buffers(V) /\ c.size = me.size /\ c.data = me.data /\ c.a_start = me.a_start + n
          /\ c.a_end = me.a_end /\ c.b_end = me.b_end /\ c.b_inuse = me.b_inuse
      BY <1>1, <1>3 DEF Buffers
    <2> HIDE DEF c
    <2>3. LET r == check_for_switch_to_b(c)
          IN  /\ r \in Buffers(V) /\ r.size = c.size /\ r.a_start = c.a_start /\ r.a_end = c.a_end
              /\ r.b_end = c.b_end /\ r.data = c.data
              /\ r.b_inuse <=> c.b_inuse \/ c.size - c.a_end < c.a_start - c.b_end
      BY <2>2, SwitchFields, Zenon
    <2>4. me.a_start + n < me.a_end
      BY <1>1, <1>3, <1>5
    <2> QED
      <3>1. bipbuf_poll(me, n).b_inuse <=> check_for_switch_to_b(c).b_inuse
        BY <2>1
      <3>2. c.b_inuse <=> me.b_inuse
        BY <2>2
      <3>3. c.size - c.a_end < c.a_start - c.b_end <=> me.size - me.a_end < me.a_start + n - me.b_end
        BY <1>1, <1>3, <2>2
      <3>4. bipbuf_poll(me, n).b_inuse <=> me.b_inuse \/ me.size - me.a_end < me.a_start + n - me.b_end
        BY <2>3, <3>1, <3>2, <3>3, Zenon
      <3> QED
        BY <2>1, <2>2, <2>3, <2>4, <3>4, Zenon
  <1>6. CASE ~bipbuf_is_empty(me) /\ me.a_start + n = me.a_end
    <2> DEFINE c == IF me.b_inuse
                    THEN [me EXCEPT !.a_start = 0, !.a_end = me.b_end, !.b_end = 0, !.b_inuse = FALSE]
                    ELSE [me EXCEPT !.a_start = 0, !.a_end = 0]
    <2>1. bipbuf_poll(me, n) = check_for_switch_to_b(c)
      BY <1>1, <1>3, <1>6 DEF bipbuf_poll
    <2>2. /\ c \in Buffers(V) /\ c.size = me.size /\ c.data = me.data /\ c.a_start = 0
          /\ c.a_end = me.b_end /\ c.b_end = 0 /\ ~c.b_inuse
      <3>1. CASE me.b_inuse
        BY <1>1, <3>1, Zenon DEF Buffers
      <3>2. CASE ~me.b_inuse
        BY <1>1, <1>2, <3>2, Zenon DEF Buffers
      <3> QED
        BY <3>1, <3>2, Zenon
    <2> HIDE DEF c
    <2>3. LET r == check_for_switch_to_b(c)
          IN  /\ r \in Buffers(V) /\ r.size = c.size /\ r.a_start = c.a_start /\ r.a_end = c.a_end
              /\ r.b_end = c.b_end /\ r.data = c.data
              /\ r.b_inuse <=> c.b_inuse \/ c.size - c.a_end < c.a_start - c.b_end
      BY <2>2, SwitchFields, Zenon
    <2>4. ~(c.size - c.a_end < c.a_start - c.b_end)
      BY <1>1, <1>2, <2>2
    <2>5. ~check_for_switch_to_b(c).b_inuse
      BY <2>2, <2>3, <2>4, Zenon
    <2>6. ~bipbuf_poll(me, n).b_inuse
      BY <2>1, <2>5
    <2> QED
      BY <1>6, <2>1, <2>2, <2>3, <2>6, Zenon
  <1> QED
    BY <1>4, <1>5, <1>6, Zenon

(* Taking n cells of region a takes the first n cells of the queue, and    *)
(* the new region a is the rest of the old one, or all there is.           *)
LEMMA PollIs ==
  ASSUME NEW V, NEW me \in Buffers(V), BufOK(me), NEW n \in 0..ALen(me)
  PROVE  LET r == bipbuf_poll(me, n)
         IN  /\ r \in Buffers(V) /\ BufOK(r) /\ r.size = me.size /\ ALen(r) \in Nat
             /\ ALen(r) = ALen(me) - n \/ (n = ALen(me) /\ ALen(r) = Len(InOrder(r)))
             /\ InOrder(r) = SubSeq(InOrder(me), n + 1, Len(InOrder(me)))
  <1> DEFINE r == bipbuf_poll(me, n)
             a == ALen(me)
             b == me.b_end
             s == InOrder(me)
             t == SubSeq(s, n + 1, Len(s))
  <1>1. /\ me.size \in Nat /\ me.a_start \in Nat /\ me.a_end \in Nat /\ b \in Nat
        /\ me.b_inuse \in BOOLEAN
    BY Fields, Zenon
  <1>2. /\ me.a_start <= me.a_end /\ me.a_end <= me.size
        /\ me.b_inuse => b <= me.a_start /\ me.a_start < me.a_end
        /\ ~me.b_inuse => b = 0
        /\ me.a_start..(me.a_end - 1) \subseteq DOMAIN me.data /\ 0..(b - 1) \subseteq DOMAIN me.data
    BY Zenon DEF BufOK
  <1>3. /\ r \in Buffers(V) /\ r.size = me.size /\ r.data = me.data
        /\ \/ /\ me.a_start + n < me.a_end
              /\ r.a_start = me.a_start + n /\ r.a_end = me.a_end /\ r.b_end = b
              /\ r.b_inuse <=> me.b_inuse \/ me.size - me.a_end < me.a_start + n - b
           \/ /\ me.a_start + n = me.a_end
              /\ r.a_start = 0 /\ r.a_end = b /\ r.b_end = 0 /\ ~r.b_inuse
    BY PollFields, Zenon
  <1>4. /\ a \in Nat /\ s \in Seq(V) /\ Len(s) = a + b
        /\ \A i \in 1..(a + b) : s[i] = IF i <= a THEN me.data[me.a_start + i - 1] ELSE me.data[i - a - 1]
    BY InOrderIs, Zenon
  <1>5. n \in Nat /\ n <= a /\ me.a_end = me.a_start + a
    BY <1>1, <1>4 DEF ALen
  <1> HIDE DEF r, a, b, s
  <1>6. BufOK(r)
    <2>1. CASE me.a_start + n < me.a_end
      <3>1. /\ r.a_start = me.a_start + n /\ r.a_end = me.a_end /\ r.b_end = b
            /\ r.b_inuse <=> me.b_inuse \/ me.size - me.a_end < me.a_start + n - b
        BY <1>1, <1>3, <1>5, <2>1
      <3>2. r.a_start..(r.a_end - 1) \subseteq me.a_start..(me.a_end - 1)
        BY <1>1, <1>5, <3>1
      <3>3. r.a_start..(r.a_end - 1) \subseteq DOMAIN r.data /\ 0..(r.b_end - 1) \subseteq DOMAIN r.data
        BY <1>2, <1>3, <3>1, <3>2, Zenon
      <3>4. /\ r.a_start <= r.a_end /\ r.a_end <= r.size
            /\ r.b_inuse => r.b_end <= r.a_start /\ r.a_start < r.a_end
            /\ ~r.b_inuse => r.b_end = 0
            /\ r.a_start = r.a_end => r.a_start = 0
        BY <1>1, <1>2, <1>3, <1>5, <2>1, <3>1
      <3> QED
        BY <3>3, <3>4, Zenon DEF BufOK
    <2>2. CASE ~(me.a_start + n < me.a_end)
      <3>1. r.a_start = 0 /\ r.a_end = b /\ r.b_end = 0 /\ ~r.b_inuse
        BY <1>3, <2>2, Zenon
      <3>2. /\ r.a_start <= r.a_end /\ r.a_end <= r.size
            /\ r.b_inuse => r.b_end <= r.a_start /\ r.a_start < r.a_end
            /\ ~r.b_inuse => r.b_end = 0
            /\ r.a_start = r.a_end => r.a_start = 0
        <4>1. r.size = me.size
          BY <1>3
        <4> QED
          BY <1>1, <1>2, <3>1, <4>1
      <3>3. r.a_start..(r.a_end - 1) \subseteq DOMAIN r.data
        BY <1>2, <1>3, <3>1, Zenon
      <3>4. 0..(r.b_end - 1) \subseteq DOMAIN r.data
        <4>1. 0..(r.b_end - 1) = {}
          BY <3>1
        <4> QED
          BY <4>1, Zenon
      <3> QED
        BY <3>2, <3>3, <3>4, Zenon DEF BufOK
    <2> QED
      BY <2>1, <2>2
  <1>7. /\ ALen(r) \in Nat /\ InOrder(r) \in Seq(V) /\ Len(InOrder(r)) = ALen(r) + r.b_end
        /\ \A i \in 1..(ALen(r) + r.b_end) :
             InOrder(r)[i] = IF i <= ALen(r) THEN r.data[r.a_start + i - 1]
                             ELSE r.data[i - ALen(r) - 1]
    BY <1>3, <1>6, InOrderIs, Zenon
  <1>8. \/ n < a /\ ALen(r) = a - n /\ r.b_end = b /\ r.a_start = me.a_start + n
        \/ n = a /\ ALen(r) = b /\ r.b_end = 0 /\ r.a_start = 0
    <2>1. ALen(r) = r.a_end - r.a_start
      BY DEF ALen
    <2>2. CASE me.a_start + n < me.a_end
      <3>1. r.a_start = me.a_start + n /\ r.a_end = me.a_end /\ r.b_end = b
        BY <1>1, <1>3, <1>5, <2>2
      <3> QED
        BY <1>1, <1>4, <1>5, <2>1, <2>2, <3>1
    <2>3. CASE ~(me.a_start + n < me.a_end)
      <3>1. r.a_start = 0 /\ r.a_end = b /\ r.b_end = 0
        BY <1>3, <2>3, Zenon
      <3>2. n = a
        BY <1>1, <1>4, <1>5, <2>3
      <3> QED
        BY <1>1, <2>1, <3>1, <3>2
    <2> QED
      BY <2>2, <2>3
  <1>9. ALen(r) = a - n \/ (n = a /\ ALen(r) = Len(InOrder(r)))
    BY <1>1, <1>7, <1>8
  <1>10. /\ t \in Seq(V) /\ Len(t) = a + b - n
         /\ \A i \in 1..(a + b - n) : t[i] = s[n + i]
    <2>1. n + 1 \in Int /\ Len(s) \in Int /\ n + 1 >= 1 /\ Len(s) <= Len(s)
      BY <1>1, <1>4, <1>5
    <2>2. \A i \in (n + 1)..Len(s) : s[i] \in V
      BY <1>1, <1>4, <1>5
    <2> QED
      BY <1>1, <1>4, <1>5, <2>1, <2>2, SubSeqIs
  <1> HIDE DEF t
  <1>11. ASSUME NEW i \in 1..(a + b - n) PROVE InOrder(r)[i] = t[i]
    <2>1. i \in 1..(ALen(r) + r.b_end) /\ n + i \in 1..(a + b)
      BY <1>1, <1>4, <1>5, <1>8
    <2>2. PICK q : q = IF n + i <= a THEN me.a_start + (n + i) - 1 ELSE (n + i) - a - 1
      OBVIOUS
    <2>3. PICK p : p = IF i <= ALen(r) THEN r.a_start + i - 1 ELSE i - ALen(r) - 1
      OBVIOUS
    <2>4. t[i] = me.data[q]
      BY <1>4, <1>10, <2>1, <2>2, Zenon
    <2>5. InOrder(r)[i] = me.data[p]
      BY <1>3, <1>7, <2>1, <2>3, Zenon
    <2>6. p = q
      <3>1. a \in Nat
        BY <1>4
      <3>2. CASE n < a /\ ALen(r) = a - n /\ r.b_end = b /\ r.a_start = me.a_start + n
        BY <1>1, <1>5, <2>2, <2>3, <3>1, <3>2
      <3>3. CASE n = a /\ ALen(r) = b /\ r.b_end = 0 /\ r.a_start = 0
        BY <1>1, <1>5, <2>2, <2>3, <3>1, <3>3
      <3> QED
        BY <1>8, <3>2, <3>3
    <2> QED
      BY <2>4, <2>5, <2>6, Zenon
  <1>12. InOrder(r) = t
    <2>1. Len(InOrder(r)) = a + b - n
      BY <1>1, <1>4, <1>5, <1>7, <1>8
    <2> QED
      BY <1>7, <1>10, <1>11, <2>1, SameSeq, Zenon
  <1> QED
    BY <1>3, <1>6, <1>7, <1>9, <1>12, Zenon DEF r, a, s, t

-----------------------------------------------------------------------------
(* A sequence without its first n elements.                                *)
Drop(s, n) == SubSeq(s, n + 1, Len(s))

(* What is left of a sequence. *)
LEMMA DropIs ==
  ASSUME NEW V, NEW s \in Seq(V), NEW n \in 0..Len(s)
  PROVE  /\ Drop(s, n) \in Seq(V) /\ Len(Drop(s, n)) = Len(s) - n
         /\ \A i \in 1..(Len(s) - n) : Drop(s, n)[i] = s[n + i]
  <1>1. Len(s) \in Nat /\ n \in Nat /\ n <= Len(s) /\ n + 1 \in Int
    OBVIOUS
  <1>2. \A i \in (n + 1)..Len(s) : s[i] \in V
    BY <1>1
  <1>3. /\ Drop(s, n) \in Seq(V) /\ Len(Drop(s, n)) = IF n + 1 <= Len(s) THEN Len(s) - (n + 1) + 1 ELSE 0
        /\ \A i \in 1..(Len(s) - (n + 1) + 1) : Drop(s, n)[i] = s[(n + 1) + i - 1]
    BY <1>1, <1>2, SubSeqIs DEF Drop
  <1> HIDE DEF Drop
  <1>4. ASSUME NEW i \in 1..(Len(s) - n) PROVE Drop(s, n)[i] = s[n + i]
    <2>1. i \in 1..(Len(s) - (n + 1) + 1) /\ (n + 1) + i - 1 = n + i
      BY <1>1
    <2> QED
      BY <1>3, <2>1
  <1> QED
    BY <1>1, <1>3, <1>4, SMTT(30), Z3T(30)

(* Dropping nothing. *)
LEMMA DropNone ==
  ASSUME NEW V, NEW s \in Seq(V)
  PROVE  Drop(s, 0) = s
  <1>1. 0 \in 0..Len(s) /\ Len(s) - 0 = Len(s)
    OBVIOUS
  <1>2. /\ Drop(s, 0) \in Seq(V) /\ Len(Drop(s, 0)) = Len(s)
        /\ \A i \in 1..Len(s) : Drop(s, 0)[i] = s[0 + i]
    BY <1>1, DropIs
  <1>3. \A i \in 1..Len(s) : 0 + i = i
    OBVIOUS
  <1> QED
    BY <1>2, <1>3, SameSeq

(* Dropping commutes with appending at the end. *)
LEMMA DropConcat ==
  ASSUME NEW V, NEW s \in Seq(V), NEW d \in Seq(V), NEW n \in 0..Len(s)
  PROVE  Drop(s \o d, n) = Drop(s, n) \o d
  <1>1. /\ s \o d \in Seq(V) /\ Len(s \o d) = Len(s) + Len(d)
        /\ \A i \in 1..(Len(s) + Len(d)) : (s \o d)[i] = IF i <= Len(s) THEN s[i] ELSE d[i - Len(s)]
    BY ConcatIs
  <1>2. Len(s) \in Nat /\ Len(d) \in Nat /\ n \in Nat /\ n <= Len(s) /\ n \in 0..Len(s \o d)
    BY <1>1
  <1>3. /\ Drop(s, n) \in Seq(V) /\ Len(Drop(s, n)) = Len(s) - n
        /\ \A i \in 1..(Len(s) - n) : Drop(s, n)[i] = s[n + i]
    BY DropIs
  <1>4. /\ Drop(s \o d, n) \in Seq(V) /\ Len(Drop(s \o d, n)) = Len(s \o d) - n
        /\ \A i \in 1..(Len(s \o d) - n) : Drop(s \o d, n)[i] = (s \o d)[n + i]
    BY <1>1, <1>2, DropIs, Zenon
  <1>5. /\ Drop(s, n) \o d \in Seq(V) /\ Len(Drop(s, n) \o d) = Len(Drop(s, n)) + Len(d)
        /\ \A i \in 1..(Len(Drop(s, n)) + Len(d)) :
             (Drop(s, n) \o d)[i] = IF i <= Len(Drop(s, n)) THEN Drop(s, n)[i] ELSE d[i - Len(Drop(s, n))]
    BY <1>3, ConcatIs, Zenon
  <1>6. Len(Drop(s \o d, n)) = Len(s) + Len(d) - n /\ Len(Drop(s, n) \o d) = Len(s) + Len(d) - n
    BY <1>1, <1>2, <1>3, <1>4, <1>5
  <1>7. ASSUME NEW i \in 1..(Len(s) + Len(d) - n)
        PROVE  Drop(s \o d, n)[i] = (Drop(s, n) \o d)[i]
    <2>1. n + i \in 1..(Len(s) + Len(d)) /\ i \in 1..(Len(s \o d) - n) /\ i \in 1..(Len(Drop(s, n)) + Len(d))
      BY <1>1, <1>2, <1>3
    <2>2. Drop(s \o d, n)[i] = IF n + i <= Len(s) THEN s[n + i] ELSE d[(n + i) - Len(s)]
      BY <1>1, <1>4, <2>1, Zenon
    <2>3. CASE n + i <= Len(s)
      <3>1. i \in 1..(Len(s) - n) /\ i <= Len(Drop(s, n))
        BY <1>2, <1>3, <2>3
      <3> QED
        BY <1>3, <1>5, <2>1, <2>2, <2>3, <3>1, Zenon
    <2>4. CASE ~(n + i <= Len(s))
      <3>1. ~(i <= Len(Drop(s, n))) /\ i - Len(Drop(s, n)) = (n + i) - Len(s)
        BY <1>2, <1>3, <2>4
      <3> QED
        BY <1>5, <2>1, <2>2, <2>4, <3>1, Zenon
    <2> QED
      BY <2>3, <2>4, Zenon
  <1> QED
    BY <1>4, <1>5, <1>6, <1>7, SameSeq, Zenon

(* Dropping twice. *)
LEMMA DropDrop ==
  ASSUME NEW V, NEW s \in Seq(V), NEW n \in 0..Len(s), NEW m \in 0..(Len(s) - n)
  PROVE  Drop(Drop(s, n), m) = Drop(s, n + m)
  <1>1. Len(s) \in Nat /\ n \in Nat /\ m \in Nat /\ n + m \in 0..Len(s)
    OBVIOUS
  <1>2. /\ Drop(s, n) \in Seq(V) /\ Len(Drop(s, n)) = Len(s) - n
        /\ \A i \in 1..(Len(s) - n) : Drop(s, n)[i] = s[n + i]
    BY DropIs
  <1>3. /\ Drop(s, n + m) \in Seq(V) /\ Len(Drop(s, n + m)) = Len(s) - (n + m)
        /\ \A i \in 1..(Len(s) - (n + m)) : Drop(s, n + m)[i] = s[(n + m) + i]
    BY <1>1, DropIs, Zenon
  <1>4. /\ Drop(Drop(s, n), m) \in Seq(V) /\ Len(Drop(Drop(s, n), m)) = Len(Drop(s, n)) - m
        /\ \A i \in 1..(Len(Drop(s, n)) - m) : Drop(Drop(s, n), m)[i] = Drop(s, n)[m + i]
    <2>1. m \in 0..Len(Drop(s, n))
      BY <1>2
    <2> QED
      BY <1>2, <2>1, DropIs, SMTT(30), Z3T(30)
  <1>5. Len(Drop(Drop(s, n), m)) = Len(s) - (n + m)
    BY <1>1, <1>2, <1>4
  <1>6. ASSUME NEW i \in 1..(Len(s) - (n + m)) PROVE Drop(Drop(s, n), m)[i] = Drop(s, n + m)[i]
    <2>1. i \in 1..(Len(Drop(s, n)) - m) /\ m + i \in 1..(Len(s) - n) /\ n + (m + i) = (n + m) + i
      BY <1>1, <1>2
    <2> QED
      BY <1>2, <1>3, <1>4, <2>1, Zenon
  <1> QED
    BY <1>3, <1>4, <1>5, <1>6, SameSeq

-----------------------------------------------------------------------------
(* Cells with a size; the cells of entries.                                *)
Sized(V) == \A c \in V : c.size \in Nat \ {0}

ECell == [gid : Nat, event : Events, cell : Nat, size : Nat \ {0}]

(* An entry, or a line, ends after the first n cells.                      *)
Boundary(s, n) == n = Len(s) \/ s[n + 1].cell = 1

(* What a head promises. *)
HeadAt(s, i) ==
  /\ \A k \in 1..s[i].size : i + k - 1 <= Len(s) /\ s[i + k - 1] = [s[i] EXCEPT !.cell = k]
  /\ i + s[i].size <= Len(s) => s[i + s[i].size].cell = 1

(* Whole, head by head. *)
LEMMA WholeIs ==
  ASSUME NEW s
  PROVE  Whole(s) <=> /\ s # <<>> => s[1].cell = 1
                      /\ \A i \in 1..Len(s) : s[i].cell = 1 => HeadAt(s, i)
  BY Zenon DEF Whole, HeadAt

(* Whole entries after whole entries. *)
LEMMA WholeConcat ==
  ASSUME NEW V, Sized(V), NEW s \in Seq(V), NEW d \in Seq(V), Whole(s), Whole(d)
  PROVE  Whole(s \o d)
  <1> DEFINE t == s \o d
             a == Len(s)
             b == Len(d)
  <1>1. /\ t \in Seq(V) /\ Len(t) = a + b
        /\ \A i \in 1..(a + b) : t[i] = IF i <= a THEN s[i] ELSE d[i - a]
    BY ConcatIs
  <1>2. a \in Nat /\ b \in Nat
    OBVIOUS
  <1>3. /\ s # <<>> => s[1].cell = 1
        /\ \A i \in 1..a : s[i].cell = 1 => HeadAt(s, i)
        /\ d # <<>> => d[1].cell = 1
        /\ \A i \in 1..b : d[i].cell = 1 => HeadAt(d, i)
    BY WholeIs, Zenon
  <1>4. (a = 0 <=> s = <<>>) /\ (b = 0 <=> d = <<>>)
    OBVIOUS
  <1>5. (a + b = 0 <=> t = <<>>)
    BY <1>1
  <1>6. \A i \in 1..a : s[i].size \in Nat /\ s[i].size >= 1
    BY DEF Sized
  <1>7. \A i \in 1..b : d[i].size \in Nat /\ d[i].size >= 1
    BY DEF Sized
  <1> HIDE DEF t, a, b
  <1>8. \A i \in 1..a : t[i] = s[i]
    BY <1>1, <1>2
  <1>9. \A i \in 1..b : t[a + i] = d[i]
    <2>1. ASSUME NEW i \in 1..b PROVE t[a + i] = d[i]
      <3>1. a + i \in 1..(a + b) /\ ~(a + i <= a) /\ (a + i) - a = i
        BY <1>2
      <3> QED
        BY <1>1, <3>1
    <2> QED
      BY <2>1
  <1>10. t # <<>> => t[1].cell = 1
    <2>1. CASE a = 0 /\ b > 0
      <3>1. 1 \in 1..b /\ a + 1 = 1
        BY <1>2, <2>1
      <3>2. t[a + 1] = d[1]
        BY <1>9, <3>1, Zenon
      <3> QED
        BY <1>2, <1>3, <1>4, <2>1, <3>1, <3>2
    <2>2. CASE a > 0
      <3>1. 1 \in 1..a
        BY <1>2, <2>2
      <3> QED
        BY <1>2, <1>3, <1>4, <1>8, <2>2, <3>1
    <2>3. CASE a = 0 /\ b = 0
      BY <1>5, <2>3
    <2> QED
      BY <1>2, <2>1, <2>2, <2>3
  <1>11. ASSUME NEW i \in 1..(a + b), t[i].cell = 1 PROVE HeadAt(t, i)
    <2>1. CASE i <= a
      <3>1. i \in 1..a /\ t[i] = s[i]
        BY <1>2, <1>8, <2>1
      <3>2. HeadAt(s, i)
        BY <1>3, <1>11, <3>1, Zenon
      <3>3. PICK z \in Nat : z = s[i].size /\ z >= 1
        BY <1>6, <3>1
      <3>4. /\ \A k \in 1..z : i + k - 1 <= a /\ s[i + k - 1] = [s[i] EXCEPT !.cell = k]
            /\ i + z <= a => s[i + z].cell = 1
        BY <3>2, <3>3, Zenon DEF HeadAt, a
      <3>5. ASSUME NEW k \in 1..z PROVE i + k - 1 <= a + b /\ t[i + k - 1] = [t[i] EXCEPT !.cell = k]
        <4>1. i + k - 1 <= a
          BY <3>4, Zenon
        <4>2. i + k - 1 \in 1..a /\ i + k - 1 <= a + b
          BY <1>2, <4>1
        <4> QED
          BY <1>8, <3>1, <3>4, <4>2, Zenon
      <3>6. i + z - 1 <= a
        <4>1. z \in 1..z
          BY <3>3
        <4> QED
          BY <3>4, <4>1, Zenon
      <3>7. ASSUME i + z <= a + b PROVE t[i + z].cell = 1
        <4>1. CASE i + z <= a
          <5>1. i + z \in 1..a
            BY <1>2, <4>1
          <5> QED
            BY <1>8, <3>4, <4>1, <5>1, Zenon
        <4>2. CASE ~(i + z <= a)
          <5>1. i + z = a + 1 /\ 1 \in 1..b
            BY <1>2, <3>6, <3>7, <4>2
          <5>2. d # <<>>
            BY <1>2, <1>4, <5>1
          <5> QED
            BY <1>3, <1>9, <5>1, <5>2, Zenon
        <4> QED
          BY <4>1, <4>2
      <3> QED
        BY <1>1, <3>1, <3>3, <3>5, <3>7, Zenon DEF HeadAt
    <2>2. CASE ~(i <= a)
      <3>1. PICK j \in 1..b : i = a + j
        <4>1. i - a \in 1..b /\ i = a + (i - a)
          BY <1>2, <2>2
        <4> QED
          BY <4>1, Zenon
      <3>2. t[i] = d[j]
        BY <1>9, <3>1, Zenon
      <3>3. HeadAt(d, j)
        BY <1>3, <1>11, <3>2, Zenon
      <3>4. PICK z \in Nat : z = d[j].size /\ z >= 1
        BY <1>7
      <3>5. /\ \A k \in 1..z : j + k - 1 <= b /\ d[j + k - 1] = [d[j] EXCEPT !.cell = k]
            /\ j + z <= b => d[j + z].cell = 1
        BY <3>3, <3>4, Zenon DEF HeadAt, b
      <3>6. ASSUME NEW k \in 1..z PROVE i + k - 1 <= a + b /\ t[i + k - 1] = [t[i] EXCEPT !.cell = k]
        <4>1. j + k - 1 <= b /\ d[j + k - 1] = [d[j] EXCEPT !.cell = k]
          BY <3>5, Zenon
        <4>2. j + k - 1 \in 1..b /\ i + k - 1 <= a + b /\ i + k - 1 = a + (j + k - 1)
          <5>1. j + k - 1 <= b
            BY <4>1
          <5> QED
            BY <1>2, <3>1, <5>1
        <4> QED
          BY <1>9, <3>2, <4>1, <4>2, Zenon
      <3>7. ASSUME i + z <= a + b PROVE t[i + z].cell = 1
        <4>1. j + z \in 1..b /\ j + z <= b /\ i + z = a + (j + z)
          BY <1>2, <3>1, <3>7
        <4> QED
          BY <1>9, <3>5, <4>1, Zenon
      <3> QED
        BY <1>1, <3>2, <3>4, <3>6, <3>7, Zenon DEF HeadAt
    <2> QED
      BY <2>1, <2>2
  <1> QED
    BY <1>1, <1>10, <1>11, WholeIs, Zenon DEF t

(* The cells of one entry. *)
LEMMA WholeEntry ==
  ASSUME NEW g \in Nat, NEW e \in Events, NEW n \in Nat \ {0}
  PROVE  /\ EntryCells(g, e, n) \in Seq(ECell) /\ Len(EntryCells(g, e, n)) = n
         /\ Whole(EntryCells(g, e, n))
  <1> DEFINE d == EntryCells(g, e, n)
             c(i) == [gid |-> g, event |-> e, cell |-> i, size |-> n]
  <1>1. d = [i \in 1..n |-> c(i)]
    BY DEF EntryCells
  <1>2. \A i \in 1..n : c(i) \in ECell
    BY DEF ECell
  <1>3. \A i, k : /\ c(i).cell = i /\ c(i).size = n
                  /\ [c(i) EXCEPT !.cell = k] = c(k)
    OBVIOUS
  <1> HIDE DEF c, d
  <1>4. d \in Seq(ECell) /\ Len(d) = n /\ \A i \in 1..n : d[i] = c(i)
    BY <1>1, <1>2
  <1>5. ASSUME NEW i \in 1..n, d[i].cell = 1 PROVE HeadAt(d, i)
    <2>1. i = 1 /\ d[i] = c(1) /\ d[i].size = n
      <3>1. d[i] = c(i)
        BY <1>4, Zenon
      <3>2. d[i].cell = i /\ d[i].size = n
        BY <1>3, <3>1
      <3> QED
        BY <1>5, <3>1, <3>2, Zenon
    <2>2. ASSUME NEW k \in 1..n PROVE i + k - 1 <= Len(d) /\ d[i + k - 1] = [d[i] EXCEPT !.cell = k]
      <3>1. i + k - 1 = k /\ k <= n
        BY <2>1
      <3> QED
        <4>1. [d[i] EXCEPT !.cell = k] = c(k)
          <5>1. [c(1) EXCEPT !.cell = k] = c(k)
            BY <1>3
          <5> QED
            BY <2>1, <5>1
        <4>2. d[k] = c(k)
          BY <1>4, Zenon
        <4> QED
          BY <1>4, <3>1, <4>1, <4>2, Zenon
    <2>3. ~(i + n <= Len(d))
      BY <1>4, <2>1
    <2> QED
      BY <2>1, <2>2, <2>3, Zenon DEF HeadAt
  <1>6. d[1].cell = 1
    <2>1. 1 \in 1..n
      OBVIOUS
    <2> QED
      BY <1>3, <1>4, <2>1, Zenon
  <1> QED
    BY <1>4, <1>5, <1>6, WholeIs, Zenon DEF d

(* What follows an end is whole. *)
LEMMA WholeDrop ==
  ASSUME NEW V, Sized(V), NEW s \in Seq(V), Whole(s), NEW n \in 0..Len(s), Boundary(s, n)
  PROVE  Whole(Drop(s, n))
  <1> DEFINE t == Drop(s, n)
             a == Len(s)
  <1>1. t \in Seq(V) /\ Len(t) = a - n /\ \A i \in 1..(a - n) : t[i] = s[n + i]
    BY DropIs, Zenon
  <1>2. a \in Nat /\ n \in Nat /\ n <= a
    OBVIOUS
  <1>3. \A i \in 1..a : s[i].cell = 1 => HeadAt(s, i)
    BY WholeIs, Zenon
  <1>4. \A i \in 1..a : s[i].size \in Nat /\ s[i].size >= 1
    BY DEF Sized
  <1>5. n = a \/ s[n + 1].cell = 1
    BY Zenon DEF Boundary
  <1>6. a - n = 0 => t = <<>>
    BY <1>1
  <1> HIDE DEF t, a
  <1>7. t # <<>> => t[1].cell = 1
    <2>1. CASE n = a
      BY <1>2, <1>6, <2>1
    <2>2. CASE n # a
      <3>1. 1 \in 1..(a - n)
        BY <1>2, <2>2
      <3> QED
        BY <1>1, <1>5, <2>2, <3>1, Zenon
    <2> QED
      BY <2>1, <2>2
  <1>8. ASSUME NEW i \in 1..(a - n), t[i].cell = 1 PROVE HeadAt(t, i)
    <2>1. n + i \in 1..a /\ t[i] = s[n + i]
      BY <1>1, <1>2
    <2>2. HeadAt(s, n + i)
      BY <1>3, <1>8, <2>1, Zenon
    <2>3. PICK z \in Nat : z = s[n + i].size /\ z >= 1
      BY <1>4, <2>1
    <2>4. /\ \A k \in 1..z : (n + i) + k - 1 <= a /\ s[(n + i) + k - 1] = [s[n + i] EXCEPT !.cell = k]
          /\ (n + i) + z <= a => s[(n + i) + z].cell = 1
      BY <2>2, <2>3, Zenon DEF HeadAt, a
    <2>5. ASSUME NEW k \in 1..z PROVE i + k - 1 <= a - n /\ t[i + k - 1] = [t[i] EXCEPT !.cell = k]
      <3>1. (n + i) + k - 1 <= a
        BY <2>4, Zenon
      <3>2. i + k - 1 \in 1..(a - n) /\ i + k - 1 <= a - n /\ n + (i + k - 1) = (n + i) + k - 1
        BY <1>2, <3>1
      <3> QED
        BY <1>1, <2>1, <2>4, <3>2, Zenon
    <2>6. ASSUME i + z <= a - n PROVE t[i + z].cell = 1
      <3>1. i + z \in 1..(a - n) /\ n + (i + z) = (n + i) + z /\ (n + i) + z <= a
        BY <1>2, <2>6
      <3> QED
        BY <1>1, <2>4, <3>1, Zenon
    <2> QED
      BY <1>1, <2>1, <2>3, <2>5, <2>6, Zenon DEF HeadAt
  <1> QED
    BY <1>1, <1>7, <1>8, WholeIs, Zenon DEF t

(* An end stays one when whole entries follow. *)
LEMMA BoundaryConcat ==
  ASSUME NEW V, NEW s \in Seq(V), NEW d \in Seq(V), Whole(d), NEW n \in 0..Len(s), Boundary(s, n)
  PROVE  Boundary(s \o d, n)
  <1>1. /\ Len(s \o d) = Len(s) + Len(d) /\ Len(s) \in Nat /\ Len(d) \in Nat
        /\ \A i \in 1..(Len(s) + Len(d)) : (s \o d)[i] = IF i <= Len(s) THEN s[i] ELSE d[i - Len(s)]
    BY ConcatIs
  <1>2. CASE n < Len(s)
    <2>1. n + 1 \in 1..(Len(s) + Len(d)) /\ n + 1 <= Len(s) /\ n # Len(s)
      BY <1>1, <1>2
    <2> QED
      BY <1>1, <2>1, Zenon DEF Boundary
  <1>3. CASE n = Len(s) /\ d # <<>>
    <2>1. n + 1 \in 1..(Len(s) + Len(d)) /\ ~(n + 1 <= Len(s)) /\ n + 1 - Len(s) = 1
      BY <1>1, <1>3
    <2> QED
      <3>1. (s \o d)[n + 1] = d[1]
        BY <1>1, <2>1
      <3>2. d[1].cell = 1
        BY <1>3, WholeIs, Zenon
      <3> QED
        BY <3>1, <3>2, Zenon DEF Boundary
  <1>4. CASE n = Len(s) /\ d = <<>>
    <2>1. n = Len(s \o d)
      BY <1>1, <1>4
    <2> QED
      BY <2>1 DEF Boundary
  <1> QED
    BY <1>1, <1>2, <1>3, <1>4

(* An end stays one when what is before it goes. *)
LEMMA BoundaryDrop ==
  ASSUME NEW V, NEW s \in Seq(V), NEW n \in 0..Len(s), NEW m \in n..Len(s), Boundary(s, m)
  PROVE  Boundary(Drop(s, n), m - n)
  <1>1. /\ Len(Drop(s, n)) = Len(s) - n /\ Len(s) \in Nat
        /\ \A i \in 1..(Len(s) - n) : Drop(s, n)[i] = s[n + i]
    BY DropIs
  <1>2. CASE m = Len(s)
    BY <1>1, <1>2 DEF Boundary
  <1>3. CASE m # Len(s)
    <2>1. m - n + 1 \in 1..(Len(s) - n) /\ n + (m - n + 1) = m + 1
      BY <1>1, <1>3
    <2>2. s[m + 1].cell = 1
      BY <1>3 DEF Boundary
    <2> QED
      BY <1>1, <2>1, <2>2, Zenon DEF Boundary
  <1> QED
    BY <1>2, <1>3

(* Between two ends is at least one entry, and it ends by the second. *)
LEMMA NextBoundary ==
  ASSUME NEW s \in Seq(ECell), Whole(s), NEW p \in Nat, NEW q \in Nat, p < q, q <= Len(s),
         Boundary(s, p), Boundary(s, q)
  PROVE  /\ s[p + 1] \in ECell /\ s[p + 1].cell = 1 /\ s[p + 1].size \in Nat \ {0}
         /\ p + s[p + 1].size <= q /\ Boundary(s, p + s[p + 1].size)
  <1>1. Len(s) \in Nat /\ p + 1 \in 1..Len(s) /\ p # Len(s)
    OBVIOUS
  <1>2. s[p + 1] \in ECell /\ s[p + 1].size \in Nat \ {0} /\ \A k : [s[p + 1] EXCEPT !.cell = k].cell = k
    <2>1. s[p + 1] \in ECell
      BY <1>1
    <2>2. ASSUME NEW c \in ECell, NEW k PROVE [c EXCEPT !.cell = k].cell = k
      BY DEF ECell
    <2>3. s[p + 1].size \in Nat \ {0}
      BY <2>1 DEF ECell
    <2> QED
      BY <2>1, <2>2, <2>3, Zenon
  <1>3. s[p + 1].cell = 1
    BY <1>1 DEF Boundary
  <1>4. HeadAt(s, p + 1)
    BY <1>1, <1>3, WholeIs, Zenon
  <1>5. PICK z \in Nat : z = s[p + 1].size /\ z >= 1
    BY <1>2
  <1>6. /\ \A k \in 1..z : (p + 1) + k - 1 <= Len(s) /\ s[(p + 1) + k - 1] = [s[p + 1] EXCEPT !.cell = k]
        /\ (p + 1) + z <= Len(s) => s[(p + 1) + z].cell = 1
    BY <1>4, <1>5, Zenon DEF HeadAt
  <1>7. (p + 1) + z - 1 <= Len(s)
    <2>1. z \in 1..z
      BY <1>5
    <2> QED
      BY <1>6, <2>1, Zenon
  <1>8. p + z <= q
    <2>1. SUFFICES ASSUME p + z > q PROVE FALSE
      OBVIOUS
    <2>2. q - p + 1 \in 1..z /\ (p + 1) + (q - p + 1) - 1 = q + 1 /\ q # Len(s) /\ q - p + 1 # 1
      BY <1>1, <1>7, <2>1
    <2>3. s[q + 1].cell = q - p + 1
      BY <1>2, <1>6, <2>2, Zenon
    <2> QED
      BY <2>2, <2>3, Zenon DEF Boundary
  <1>9. Boundary(s, p + z)
    <2>1. CASE p + z = Len(s)
      BY <2>1 DEF Boundary
    <2>2. CASE p + z # Len(s)
      <3>1. (p + 1) + z <= Len(s) /\ (p + 1) + z = (p + z) + 1
        BY <1>1, <1>7, <2>2
      <3> QED
        BY <1>6, <3>1, Zenon DEF Boundary
    <2> QED
      BY <2>1, <2>2
  <1> QED
    BY <1>2, <1>3, <1>5, <1>8, <1>9, Zenon

-----------------------------------------------------------------------------
(* Where the logger thread is.                                             *)
Pcs ==
  [at : {"sleep", "read", "entry", "write", "flush"}, l : Nat, size : Nat, pos : Nat,
   x : Nat, nfd : Nat, flushed : Nat, all : BOOLEAN]

(* It is in a worker's buffer; in that of worker w.                        *)
InRead(p) == p.at \in {"entry", "write", "flush"} /\ ~p.all
Reads(p, w) == InRead(p) /\ Writers[p.l] = w

EntryAt(b, pos) == b.data[b.a_start + pos]

(* How many cells of the buffer it has taken.                              *)
Past(b, p) == IF p.at = "entry" THEN p.pos ELSE p.pos + EntryAt(b, p.pos).size

(* A worker's buffer holds whole entries, and so does its region a.        *)
BufInv(b) ==
  b \in Buffers(ECell) /\ BufOK(b) /\ Whole(InOrder(b)) /\ Boundary(InOrder(b), ALen(b))

(* What the thread looked at is still there and ends where an entry does,  *)
(* and so does what it has dealt with.                                     *)
PlaceInv(b, p) ==
  /\ p.size <= ALen(b) /\ Boundary(InOrder(b), p.size)
  /\ p.pos <= p.size /\ Boundary(InOrder(b), p.pos)
  /\ p.at # "entry" => p.pos < p.size

WorkerInv(w, b, u, p) ==
  /\ BufInv(b)
  /\ Reads(p, w) => PlaceInv(b, p)
  /\ u = IF Reads(p, w) THEN Drop(InOrder(b), Past(b, p)) ELSE InOrder(b)

(* The inductive invariant.                                                *)
LogInv ==
  /\ buf \in [Range(Writers) -> Buffers(ECell)] /\ unread \in [Range(Writers) -> Seq(ECell)]
  /\ gid \in Nat /\ pc \in Pcs
  /\ pc.l >= 1 /\ (pc.all => pc.at = "flush") /\ (InRead(pc) => pc.l <= Len(Writers))
  /\ \A w \in Range(Writers) : WorkerInv(w, buf[w], unread[w], pc)

(* Cells of entries have sizes. *)
LEMMA ECellSized == Sized(ECell)
  BY DEF Sized, ECell

(* The fields of the thread's place. *)
LEMMA PcFields ==
  ASSUME NEW p \in Pcs
  PROVE  /\ p.at \in {"sleep", "read", "entry", "write", "flush"} /\ p.all \in BOOLEAN
         /\ p.l \in Nat /\ p.size \in Nat /\ p.pos \in Nat /\ p.x \in Nat /\ p.nfd \in Nat /\ p.flushed \in Nat
  BY DEF Pcs

(* The cell at a place of region a. *)
LEMMA EntryAtIs ==
  ASSUME NEW b \in Buffers(ECell), BufOK(b), NEW n \in Nat, n < ALen(b)
  PROVE  EntryAt(b, n) = InOrder(b)[n + 1]
  <1>1. /\ b.a_start \in Nat /\ b.b_end \in Nat /\ ALen(b) \in Nat
        /\ \A i \in 1..(ALen(b) + b.b_end) :
             InOrder(b)[i] = IF i <= ALen(b) THEN b.data[b.a_start + i - 1] ELSE b.data[i - ALen(b) - 1]
    BY Fields, InOrderIs, Zenon
  <1>2. n + 1 \in 1..(ALen(b) + b.b_end) /\ n + 1 <= ALen(b) /\ b.a_start + (n + 1) - 1 = b.a_start + n
    BY <1>1
  <1> QED
    BY <1>1, <1>2, Zenon DEF EntryAt

(* At an entry that the thread looked at: it is whole, it is there, and    *)
(* what follows it is such a place again.                                  *)
LEMMA EntryIs ==
  ASSUME NEW b, BufInv(b), NEW p \in Pcs, PlaceInv(b, p), p.pos < p.size
  PROVE  LET e == EntryAt(b, p.pos)
         IN  /\ e = InOrder(b)[p.pos + 1] /\ e.cell = 1 /\ e.size \in Nat \ {0}
             /\ p.pos + e.size <= p.size /\ Boundary(InOrder(b), p.pos + e.size)
  <1>1. b \in Buffers(ECell) /\ BufOK(b) /\ Whole(InOrder(b))
    BY Zenon DEF BufInv
  <1>2. /\ p.size <= ALen(b) /\ Boundary(InOrder(b), p.size) /\ Boundary(InOrder(b), p.pos)
        /\ p.pos \in Nat /\ p.size \in Nat
    BY PcFields, Zenon DEF PlaceInv
  <1>3. ALen(b) \in Nat /\ InOrder(b) \in Seq(ECell) /\ Len(InOrder(b)) = ALen(b) + b.b_end /\ b.b_end \in Nat
    BY <1>1, Fields, InOrderIs, Zenon
  <1>4. p.size <= Len(InOrder(b)) /\ p.pos < ALen(b)
    BY <1>2, <1>3
  <1>5. EntryAt(b, p.pos) = InOrder(b)[p.pos + 1]
    BY <1>1, <1>2, <1>4, EntryAtIs, Zenon
  <1>6. LET e == InOrder(b)[p.pos + 1]
        IN  /\ e.cell = 1 /\ e.size \in Nat \ {0}
            /\ p.pos + e.size <= p.size /\ Boundary(InOrder(b), p.pos + e.size)
    BY <1>1, <1>2, <1>3, <1>4, NextBoundary, Zenon
  <1> QED
    BY <1>5, <1>6, Zenon

(* How far the thread is, is a place in the buffer. *)
LEMMA PastIs ==
  ASSUME NEW b, BufInv(b), NEW p \in Pcs, PlaceInv(b, p)
  PROVE  /\ InOrder(b) \in Seq(ECell) /\ Past(b, p) \in 0..Len(InOrder(b)) /\ p.pos <= Past(b, p)
         /\ Past(b, p) <= p.size /\ p.size <= Len(InOrder(b))
  <1>1. b \in Buffers(ECell) /\ BufOK(b)
    BY Zenon DEF BufInv
  <1>2. ALen(b) \in Nat /\ InOrder(b) \in Seq(ECell) /\ Len(InOrder(b)) = ALen(b) + b.b_end /\ b.b_end \in Nat
    BY <1>1, Fields, InOrderIs, Zenon
  <1>3. p.size \in Nat /\ p.pos \in Nat /\ p.size <= ALen(b) /\ p.pos <= p.size
    BY PcFields, Zenon DEF PlaceInv
  <1>4. CASE p.at = "entry"
    <2>1. Past(b, p) = p.pos
      BY <1>4 DEF Past
    <2> QED
      BY <1>2, <1>3, <2>1
  <1>5. CASE p.at # "entry"
    <2>1. p.pos < p.size
      BY <1>5 DEF PlaceInv
    <2>2. PICK z \in Nat : z = EntryAt(b, p.pos).size /\ p.pos + z <= p.size
      BY <2>1, EntryIs
    <2>3. Past(b, p) = p.pos + z
      BY <1>5, <2>2, Zenon DEF Past
    <2>4. p.pos + z <= p.size
      BY <2>2
    <2>5. p.pos + z \in Nat /\ p.pos <= p.pos + z
      BY <1>3
    <2>6. Len(InOrder(b)) \in Nat /\ p.size <= Len(InOrder(b))
      BY <1>2, <1>3
    <2>7. p.pos + z \in 0..Len(InOrder(b))
      BY <1>3, <2>4, <2>5, <2>6
    <2> QED
      BY <1>2, <2>3, <2>4, <2>5, <2>6, <2>7, Zenon
  <1> QED
    BY <1>4, <1>5

(* A worker logs an entry: its buffer and what is unread grow alike, also  *)
(* while the thread reads the buffer (logger_log).                         *)
LEMMA WorkerLogs ==
  ASSUME NEW w, NEW b, NEW u, NEW p \in Pcs, WorkerInv(w, b, u, p),
         NEW d \in Seq(ECell), Whole(d), Len(d) <= bipbuf_unused(b)
  PROVE  WorkerInv(w, bipbuf_offer(b, d), u \o d, p)
  <1> DEFINE r == bipbuf_offer(b, d)
             s == InOrder(b)
  <1>1. b \in Buffers(ECell) /\ BufOK(b) /\ Whole(s) /\ Boundary(s, ALen(b)) /\ BufInv(b)
    BY Zenon DEF WorkerInv, BufInv
  <1>2. /\ r \in Buffers(ECell) /\ BufOK(r) /\ r.a_start = b.a_start
        /\ ALen(b) \in Nat /\ ALen(r) \in Nat /\ ALen(b) <= ALen(r)
        /\ ALen(r) = ALen(b) \/ ALen(r) = Len(InOrder(r))
        /\ InOrder(r) = s \o d
    BY <1>1, OfferIs, Zenon
  <1>3. s \in Seq(ECell) /\ Len(s) = ALen(b) + b.b_end /\ b.b_end \in Nat
    BY <1>1, Fields, InOrderIs, Zenon
  <1>4. ALen(b) \in 0..Len(s)
    BY <1>2, <1>3
  <1> HIDE DEF r, s
  <1>5. BufInv(r)
    <2>1. Whole(s \o d)
      BY <1>1, <1>3, ECellSized, WholeConcat, Zenon
    <2>2. Boundary(s \o d, ALen(b))
      BY <1>1, <1>3, <1>4, BoundaryConcat, Zenon
    <2>3. Boundary(InOrder(r), ALen(r))
      BY <1>2, <2>2, Zenon DEF Boundary
    <2> QED
      BY <1>2, <2>1, <2>3, Zenon DEF BufInv
  <1>6. CASE Reads(p, w)
    <2>1. PlaceInv(b, p) /\ u = Drop(s, Past(b, p))
      BY <1>6, Zenon DEF WorkerInv, s
    <2>2. /\ Past(b, p) \in 0..Len(s) /\ p.pos \in 0..Len(s) /\ p.size \in 0..Len(s)
          /\ p.pos \in Nat /\ p.size \in Nat /\ p.size <= ALen(b) /\ p.pos <= p.size
      <3>1. /\ Past(b, p) \in 0..Len(s) /\ p.pos <= Past(b, p) /\ Past(b, p) <= p.size /\ p.size <= Len(s)
        BY <1>1, <2>1, PastIs, Zenon DEF s
      <3>2. p.pos \in Nat /\ p.size \in Nat /\ p.size <= ALen(b) /\ p.pos <= p.size
        BY <2>1, PcFields, Zenon DEF PlaceInv
      <3> QED
        BY <1>3, <3>1, <3>2
    <2>3. PlaceInv(r, p)
      <3>1. Boundary(s \o d, p.size) /\ Boundary(s \o d, p.pos)
        BY <1>3, <2>1, <2>2, BoundaryConcat, Zenon DEF PlaceInv, s
      <3>2. p.size <= ALen(r)
        BY <1>2, <2>2
      <3> QED
        BY <1>2, <2>1, <3>1, <3>2, Zenon DEF PlaceInv
    <2>4. Past(r, p) = Past(b, p)
      <3>1. CASE p.at = "entry"
        BY <3>1 DEF Past
      <3>2. CASE p.at # "entry"
        <4>1. p.pos < p.size
          BY <2>1, <3>2 DEF PlaceInv
        <4>2. p.pos < ALen(b) /\ p.pos < ALen(r) /\ p.pos + 1 \in 1..(Len(s) + Len(d)) /\ p.pos + 1 <= Len(s)
          <5>1. ALen(b) \in Nat /\ ALen(r) \in Nat /\ ALen(b) <= ALen(r) /\ Len(d) \in Nat /\ Len(s) \in Nat
            BY <1>2, <1>3
          <5>2. p.pos \in Nat /\ p.size \in Nat /\ p.size <= ALen(b) /\ p.size <= Len(s)
            BY <2>2
          <5> QED
            BY <4>1, <5>1, <5>2
        <4>3. EntryAt(b, p.pos) = s[p.pos + 1] /\ EntryAt(r, p.pos) = (s \o d)[p.pos + 1]
          BY <1>1, <1>2, <2>2, <4>2, EntryAtIs, Zenon DEF s
        <4>4. (s \o d)[p.pos + 1] = s[p.pos + 1]
          BY <1>3, <4>2, ConcatIs, Zenon
        <4> QED
          BY <4>3, <4>4, Zenon DEF Past
      <3> QED
        BY <3>1, <3>2
    <2>5. u \o d = Drop(s \o d, Past(b, p))
      BY <1>3, <2>1, <2>2, DropConcat, Zenon
    <2> QED
      BY <1>2, <1>5, <1>6, <2>3, <2>4, <2>5, Zenon DEF WorkerInv, r
  <1>7. CASE ~Reads(p, w)
    BY <1>2, <1>5, <1>7, Zenon DEF WorkerInv, r, s
  <1> QED
    BY <1>6, <1>7

(* A step that leaves the worker's buffer and the thread's place in it.    *)
LEMMA SamePlace ==
  ASSUME NEW w, NEW b, NEW u, NEW p, NEW q, WorkerInv(w, b, u, p),
         p.l = q.l, p.size = q.size, p.pos = q.pos, p.at = "entry" <=> q.at = "entry",
         InRead(p) <=> InRead(q)
  PROVE  WorkerInv(w, b, u, q)
  <1>1. Reads(p, w) <=> Reads(q, w)
    BY Zenon DEF Reads
  <1>2. Past(b, p) = Past(b, q)
    BY Zenon DEF Past
  <1>3. PlaceInv(b, p) => PlaceInv(b, q)
    BY Zenon DEF PlaceInv
  <1> QED
    BY <1>1, <1>2, <1>3, Zenon DEF WorkerInv

(* A step while the thread is in no buffer, or in another's. *)
LEMMA Elsewhere ==
  ASSUME NEW w, NEW b, NEW u, NEW p, NEW q, WorkerInv(w, b, u, p), ~Reads(p, w), ~Reads(q, w)
  PROVE  WorkerInv(w, b, u, q)
  BY Zenon DEF WorkerInv

(* The thread looks at a buffer that is not empty (logger_thread_read).    *)
LEMMA ThreadReads ==
  ASSUME NEW w, NEW b, NEW u, NEW p \in Pcs, NEW q \in Pcs, WorkerInv(w, b, u, p), ~Reads(p, w),
         q.at = "entry", q.pos = 0, q.size = Len(bipbuf_peek_all(b))
  PROVE  WorkerInv(w, b, u, q)
  <1>1. b \in Buffers(ECell) /\ BufOK(b) /\ Whole(InOrder(b)) /\ Boundary(InOrder(b), ALen(b)) /\ BufInv(b)
        /\ u = InOrder(b)
    BY Zenon DEF WorkerInv, BufInv
  <1>2. /\ ALen(b) \in Nat /\ InOrder(b) \in Seq(ECell) /\ Len(InOrder(b)) = ALen(b) + b.b_end /\ b.b_end \in Nat
    BY <1>1, Fields, InOrderIs, Zenon
  <1>3. q.size = ALen(b)
    BY <1>2 DEF bipbuf_peek_all, ALen
  <1>4. Boundary(InOrder(b), 0)
    <2>1. CASE InOrder(b) = <<>>
      <3>1. Len(InOrder(b)) = 0
        BY <2>1
      <3> QED
        BY <3>1 DEF Boundary
    <2>2. CASE InOrder(b) # <<>>
      <3>1. InOrder(b)[1].cell = 1
        BY <1>1, <2>2, WholeIs, Zenon
      <3>2. 0 + 1 = 1
        OBVIOUS
      <3> QED
        BY <3>1, <3>2, Zenon DEF Boundary
    <2> QED
      BY <2>1, <2>2
  <1>5. PlaceInv(b, q)
    <2>1. q.size <= ALen(b) /\ q.pos <= q.size
      BY <1>2, <1>3
    <2> QED
      BY <1>1, <1>3, <1>4, <2>1, Zenon DEF PlaceInv
  <1>6. Past(b, q) = 0
    BY DEF Past
  <1>7. u = Drop(InOrder(b), 0)
    BY <1>1, <1>2, DropNone, Zenon
  <1> QED
    BY <1>1, <1>5, <1>6, <1>7, Zenon DEF WorkerInv

(* The thread takes the next entry (the loop of logger_thread_read).       *)
LEMMA ThreadTakes ==
  ASSUME NEW w, NEW b, NEW u, NEW p \in Pcs, NEW q \in Pcs, WorkerInv(w, b, u, p), Reads(p, w),
         p.at = "entry", p.pos < p.size, q.at = "write",
         p.l = q.l, p.size = q.size, p.pos = q.pos, InRead(q)
  PROVE  WorkerInv(w, b, SubSeq(u, EntryAt(b, p.pos).size + 1, Len(u)), q)
  <1> DEFINE s == InOrder(b)
  <1>1. BufInv(b) /\ PlaceInv(b, p) /\ u = Drop(s, p.pos)
    BY Zenon DEF WorkerInv, Past
  <1>2. /\ s \in Seq(ECell) /\ p.size <= Len(s) /\ p.pos \in Nat /\ p.size \in Nat /\ Len(s) \in Nat
    <2>1. s \in Seq(ECell) /\ p.size <= Len(s) /\ p.pos \in Nat /\ p.size \in Nat
      BY <1>1, PastIs, PcFields, Zenon
    <2> QED
      BY <2>1
  <1>3. PICK z \in Nat : z = EntryAt(b, p.pos).size /\ p.pos + z <= p.size
    <2>1. EntryAt(b, p.pos).size \in Nat \ {0} /\ p.pos + EntryAt(b, p.pos).size <= p.size
      BY <1>1, EntryIs, Zenon
    <2> QED
      BY <2>1
  <1> HIDE DEF s
  <1>4. p.pos \in 0..Len(s) /\ z \in 0..(Len(s) - p.pos)
    <2>1. p.pos + z <= p.size
      BY <1>3
    <2> QED
      BY <1>2, <2>1
  <1>5. SubSeq(u, z + 1, Len(u)) = Drop(s, p.pos + z)
    <2>1. Drop(Drop(s, p.pos), z) = Drop(s, p.pos + z)
      BY <1>2, <1>4, DropDrop, Zenon
    <2> QED
      BY <1>1, <2>1, Zenon DEF Drop
  <1>6. PlaceInv(b, q)
    BY <1>1, Zenon DEF PlaceInv
  <1>7. Past(b, q) = p.pos + z
    BY <1>3 DEF Past
  <1>8. Reads(q, w)
    BY Zenon DEF Reads
  <1> QED
    BY <1>1, <1>3, <1>5, <1>6, <1>7, <1>8, Zenon DEF WorkerInv, s

(* It is done with the entry. *)
LEMMA ThreadGoesOn ==
  ASSUME NEW w, NEW b, NEW u, NEW p \in Pcs, NEW q \in Pcs, WorkerInv(w, b, u, p), Reads(p, w),
         p.at # "entry", q.at = "entry", p.l = q.l, p.size = q.size,
         q.pos = p.pos + EntryAt(b, p.pos).size, InRead(q)
  PROVE  WorkerInv(w, b, u, q)
  <1>1. BufInv(b) /\ PlaceInv(b, p) /\ u = Drop(InOrder(b), Past(b, p))
    BY Zenon DEF WorkerInv
  <1>2. p.pos < p.size
    BY <1>1, Zenon DEF PlaceInv
  <1>3. q.pos <= p.size /\ Boundary(InOrder(b), q.pos)
    BY <1>1, <1>2, EntryIs, Zenon
  <1>4. PlaceInv(b, q)
    BY <1>1, <1>3, Zenon DEF PlaceInv
  <1>5. Past(b, q) = Past(b, p)
    BY Zenon DEF Past
  <1>6. Reads(q, w)
    BY Zenon DEF Reads
  <1> QED
    BY <1>1, <1>4, <1>5, <1>6, Zenon DEF WorkerInv

(* It gives up what it looked at, read or not (bipbuf_poll). *)
LEMMA ThreadAdvances ==
  ASSUME NEW w, NEW b, NEW u, NEW p \in Pcs, NEW q, WorkerInv(w, b, u, p), Reads(p, w),
         p.at = "entry", ~Reads(q, w)
  PROVE  WorkerInv(w, bipbuf_poll(b, p.size), SubSeq(u, p.size - p.pos + 1, Len(u)), q)
  <1> DEFINE s == InOrder(b)
             r == bipbuf_poll(b, p.size)
  <1>1. /\ b \in Buffers(ECell) /\ BufOK(b) /\ Whole(s) /\ Boundary(s, ALen(b)) /\ BufInv(b)
        /\ PlaceInv(b, p) /\ u = Drop(s, p.pos)
    BY Zenon DEF WorkerInv, Past, BufInv
  <1>2. /\ ALen(b) \in Nat /\ s \in Seq(ECell) /\ Len(s) = ALen(b) + b.b_end /\ b.b_end \in Nat
    BY <1>1, Fields, InOrderIs, Zenon
  <1>3. /\ p.pos \in Nat /\ p.size \in Nat /\ p.pos <= p.size /\ p.size <= ALen(b) /\ Boundary(s, p.size)
    BY <1>1, PcFields, Zenon DEF PlaceInv
  <1>4. /\ p.size \in 0..ALen(b) /\ p.size \in 0..Len(s) /\ p.pos \in 0..Len(s)
        /\ p.size - p.pos \in 0..(Len(s) - p.pos) /\ p.pos + (p.size - p.pos) = p.size
        /\ ALen(b) \in p.size..Len(s)
    BY <1>2, <1>3, SMTT(30), Z3T(30)
  <1>5. /\ r \in Buffers(ECell) /\ BufOK(r)
        /\ ALen(r) = ALen(b) - p.size \/ ALen(r) = Len(InOrder(r))
        /\ InOrder(r) = Drop(s, p.size)
    BY <1>1, <1>4, PollIs, ZenonT(30) DEF Drop
  <1> HIDE DEF r, s
  <1>6. BufInv(r)
    <2>1. Whole(Drop(s, p.size))
      BY <1>1, <1>2, <1>3, <1>4, ECellSized, WholeDrop, Zenon
    <2>2. Boundary(Drop(s, p.size), ALen(b) - p.size)
      BY <1>1, <1>2, <1>4, BoundaryDrop, Zenon
    <2>3. Boundary(InOrder(r), ALen(r))
      BY <1>5, <2>2, Zenon DEF Boundary
    <2> QED
      BY <1>5, <2>1, <2>3, Zenon DEF BufInv
  <1>7. SubSeq(u, p.size - p.pos + 1, Len(u)) = Drop(s, p.size)
    <2>1. Drop(Drop(s, p.pos), p.size - p.pos) = Drop(s, p.size)
      <3>1. PICK m : m = p.size - p.pos
        OBVIOUS
      <3>2. m \in 0..(Len(s) - p.pos) /\ p.pos + m = p.size
        BY <1>4, <3>1, Zenon
      <3>3. Drop(Drop(s, p.pos), m) = Drop(s, p.pos + m)
        BY <1>2, <1>4, <3>2, DropDrop, Zenon
      <3> QED
        BY <3>1, <3>2, <3>3, Zenon
    <2> QED
      BY <1>1, <2>1, Zenon DEF Drop
  <1> QED
    BY <1>5, <1>6, <1>7, Zenon DEF WorkerInv, r

-----------------------------------------------------------------------------
(* The worker whose buffer the thread is at. *)
LEMMA CurIs ==
  ASSUME pc.l \in Nat, pc.l >= 1, pc.l <= Len(Writers)
  PROVE  Cur \in Range(Writers)
  BY LoggerAssumption, SMTT(30), Z3T(30) DEF Cur, Range

(* A new buffer is empty. *)
LEMMA NewIs ==
  ASSUME NEW V, NEW size \in Nat
  PROVE  LET b == bipbuf_new(size)
         IN  /\ b \in Buffers(V) /\ BufOK(b) /\ InOrder(b) = <<>> /\ ALen(b) = 0
             /\ Len(InOrder(b)) = 0 /\ Whole(InOrder(b))
  <1> DEFINE b == bipbuf_new(size)
  <1>1. b \in Buffers(V)
    <2>1. <<>> \in [{} -> V]
      OBVIOUS
    <2>2. <<>> \in Written(V)
      BY <2>1, Zenon DEF Written
    <2> QED
      BY <2>2 DEF bipbuf_new, Buffers
  <1>2. b.a_start = 0 /\ b.a_end = 0 /\ b.b_end = 0 /\ b.b_inuse = FALSE /\ b.size = size
    BY DEF bipbuf_new
  <1> HIDE DEF b
  <1>3. BufOK(b)
    <2>1. 0..(0 - 1) = {}
      OBVIOUS
    <2>2. 0 <= b.size
      BY <1>2
    <2> QED
      BY <1>2, <2>1, <2>2 DEF BufOK
  <1>4. InOrder(b) = <<>> /\ ALen(b) = 0 /\ Len(InOrder(b)) = 0
    <2>1. ALen(b) = 0
      BY <1>2 DEF ALen
    <2>2. InOrder(b) \in Seq(V) /\ Len(InOrder(b)) = ALen(b) + b.b_end
      BY <1>1, <1>3, InOrderIs, Zenon
    <2>3. Len(InOrder(b)) = 0
      BY <1>2, <2>1, <2>2
    <2> QED
      BY <2>1, <2>2, <2>3
  <1>5. Whole(InOrder(b))
    <2>1. 1..0 = {}
      OBVIOUS
    <2> QED
      BY <1>4, <2>1, WholeIs, Zenon
  <1> QED
    BY <1>1, <1>3, <1>4, <1>5, Zenon DEF b

(* LogInv holds at the start. *)
LEMMA LogInvInit ==
  LInit => LogInv
  <1> SUFFICES ASSUME LInit PROVE LogInv
    OBVIOUS
  <1> DEFINE b == bipbuf_new(logger_buf_size)
  <1>1. logger_buf_size \in Nat
    BY LoggerAssumption
  <1>2. /\ b \in Buffers(ECell) /\ BufOK(b) /\ InOrder(b) = <<>> /\ ALen(b) = 0
        /\ Len(InOrder(b)) = 0 /\ Whole(InOrder(b))
    BY <1>1, NewIs, Zenon
  <1> HIDE DEF b
  <1>3. BufInv(b)
    BY <1>2, Zenon DEF BufInv, Boundary
  <1>4. pc \in Pcs /\ pc.l >= 1 /\ ~pc.all /\ pc.at = "sleep"
    BY DEF LInit, Sleeping, Pcs
  <1>5. ~InRead(pc)
    BY <1>4 DEF InRead
  <1>6. \A w \in Range(Writers) : buf[w] = b /\ unread[w] = <<>>
    BY DEF LInit, b
  <1>7. buf \in [Range(Writers) -> Buffers(ECell)] /\ unread \in [Range(Writers) -> Seq(ECell)] /\ gid \in Nat
    BY <1>2 DEF LInit, b
  <1>8. \A w \in Range(Writers) : WorkerInv(w, buf[w], unread[w], pc)
    BY <1>2, <1>3, <1>5, <1>6, Zenon DEF WorkerInv, Reads
  <1> QED
    BY <1>4, <1>5, <1>7, <1>8, Zenon DEF LogInv

(* A worker logs. *)
LEMMA LogInvLog ==
  ASSUME LogInv, NEW w \in Range(Writers), NEW e \in Events, NEW n \in 1..ReqLen, logger_log(w, e, n)
  PROVE  LogInv'
  <1>1. /\ buf \in [Range(Writers) -> Buffers(ECell)] /\ unread \in [Range(Writers) -> Seq(ECell)]
        /\ gid \in Nat /\ pc \in Pcs /\ pc.l >= 1 /\ (pc.all => pc.at = "flush")
        /\ (InRead(pc) => pc.l <= Len(Writers))
        /\ \A v \in Range(Writers) : WorkerInv(v, buf[v], unread[v], pc)
    BY Zenon DEF LogInv
  <1>2. pc' = pc
    BY Zenon DEF logger_log
  <1>3. CASE ~bipbuf_request(buf[w], ReqLen)
    <2>1. gid' = gid /\ buf' = buf /\ unread' = unread
      BY <1>3 DEF logger_log
    <2> QED
      BY <1>1, <1>2, <2>1, Zenon DEF LogInv
  <1>4. CASE bipbuf_request(buf[w], ReqLen)
    <2> DEFINE d == EntryCells(gid + 1, e, n)
    <2>1. /\ gid' = gid + 1 /\ buf' = [buf EXCEPT ![w] = bipbuf_offer(@, d)]
          /\ unread' = [unread EXCEPT ![w] = @ \o d]
      BY <1>4, Zenon DEF logger_log
    <2>2. gid' \in Nat /\ gid + 1 \in Nat /\ n \in Nat \ {0} /\ ReqLen \in Nat
      BY <1>1, <2>1, LoggerAssumption
    <2>3. d \in Seq(ECell) /\ Len(d) = n /\ Whole(d)
      BY <2>2, WholeEntry, Zenon
    <2>4. buf[w] \in Buffers(ECell)
      BY <1>1
    <2>5. Len(d) <= bipbuf_unused(buf[w])
      <3>1. buf[w].size \in Nat /\ buf[w].a_start \in Nat /\ buf[w].a_end \in Nat /\ buf[w].b_end \in Nat
        BY <2>4, Fields, Zenon
      <3>2. bipbuf_unused(buf[w]) \in Int
        BY <3>1 DEF bipbuf_unused
      <3>3. bipbuf_unused(buf[w]) >= ReqLen
        BY <1>4 DEF bipbuf_request
      <3> QED
        BY <2>2, <2>3, <3>2, <3>3
    <2> HIDE DEF d
    <2>6. WorkerInv(w, bipbuf_offer(buf[w], d), unread[w] \o d, pc)
      BY <1>1, <2>3, <2>5, WorkerLogs, Zenon
    <2>7. bipbuf_offer(buf[w], d) \in Buffers(ECell)
      BY <2>6, Zenon DEF WorkerInv, BufInv
    <2>8. unread[w] \o d \in Seq(ECell)
      <3>1. unread[w] \in Seq(ECell)
        BY <1>1
      <3> QED
        BY <2>3, <3>1, ConcatIs, Zenon
    <2>9. /\ buf' \in [Range(Writers) -> Buffers(ECell)] /\ unread' \in [Range(Writers) -> Seq(ECell)]
          /\ buf'[w] = bipbuf_offer(buf[w], d) /\ unread'[w] = unread[w] \o d
          /\ \A v \in Range(Writers) : v # w => buf'[v] = buf[v] /\ unread'[v] = unread[v]
      BY <1>1, <2>1, <2>7, <2>8
    <2>10. \A v \in Range(Writers) : WorkerInv(v, buf'[v], unread'[v], pc)
      BY <1>1, <2>6, <2>9, Zenon
    <2> QED
      BY <1>1, <1>2, <2>2, <2>9, <2>10, Zenon DEF LogInv
  <1> QED
    BY <1>3, <1>4

(* A step of the thread that leaves the buffers of the workers. *)
LEMMA LogInvSame ==
  ASSUME LogInv, buf' = buf, unread' = unread, gid' = gid, pc' \in Pcs, pc'.l >= 1,
         pc'.all => pc'.at = "flush", InRead(pc') => pc'.l <= Len(Writers),
         \A w \in Range(Writers) : WorkerInv(w, buf[w], unread[w], pc')
  PROVE  LogInv'
  BY Zenon DEF LogInv

(* Such a step that also leaves the thread at its place, or in no buffer. *)
LEMMA LogInvStay ==
  ASSUME LogInv, buf' = buf, unread' = unread, gid' = gid, pc' \in Pcs, pc'.l >= 1,
         pc'.all => pc'.at = "flush",
         \/ /\ InRead(pc) /\ InRead(pc') /\ (pc.at = "entry" <=> pc'.at = "entry")
            /\ pc.l = pc'.l /\ pc.size = pc'.size /\ pc.pos = pc'.pos
         \/ ~InRead(pc) /\ ~InRead(pc')
  PROVE  LogInv'
  <1>1. \A w \in Range(Writers) : WorkerInv(w, buf[w], unread[w], pc)
    BY Zenon DEF LogInv
  <1>2. CASE ~InRead(pc) /\ ~InRead(pc')
    <2>1. ASSUME NEW w \in Range(Writers) PROVE WorkerInv(w, buf[w], unread[w], pc')
      <3>1. ~Reads(pc, w) /\ ~Reads(pc', w)
        BY <1>2, Zenon DEF Reads
      <3> QED
        BY <1>1, <3>1, Elsewhere, Zenon
    <2> QED
      BY <1>2, <2>1, LogInvSame, Zenon
  <1>3. CASE /\ InRead(pc) /\ InRead(pc') /\ (pc.at = "entry" <=> pc'.at = "entry")
             /\ pc.l = pc'.l /\ pc.size = pc'.size /\ pc.pos = pc'.pos
    <2>1. ASSUME NEW w \in Range(Writers) PROVE WorkerInv(w, buf[w], unread[w], pc')
      BY <1>1, <1>3, SamePlace, Zenon
    <2>2. pc'.l <= Len(Writers)
      BY <1>3, Zenon DEF LogInv
    <2> QED
      BY <2>1, <2>2, LogInvSame, Zenon
  <1> QED
    BY <1>2, <1>3, Zenon

(* The thread wakes up, polls, flushes, closes or goes to the next watcher. *)
LEMMA LogInvQuiet ==
  ASSUME LogInv,
         \/ Wake \/ logger_thread_write_entry \/ Flushed
         \/ \E ready \in SUBSET {"out"} : PollOne(ready)
         \/ \E ready \in [Live -> SUBSET {"in", "out"}] : PollAll(ready)
         \/ \E x \in Slots : logger_thread_close_watcher(x) \/ \E n \in 0..logger_watcher_buf_size : Flush(x, n)
  PROVE  LogInv'
  <1>1. pc \in Pcs /\ pc.l >= 1 /\ (pc.all => pc.at = "flush")
    BY Zenon DEF LogInv
  <1>2. Sleeping \in Pcs /\ Sleeping.l = 1 /\ Sleeping.at = "sleep" /\ ~Sleeping.all
    BY DEF Sleeping, Pcs
  <1>3. CASE Wake
    <2>1. buf' = buf /\ unread' = unread /\ gid' = gid
      BY <1>3 DEF Wake
    <2>2. pc' \in Pcs /\ pc'.l = 1 /\ pc'.at = "read" /\ ~pc'.all
      BY <1>3, Zenon DEF Wake, Sleeping, Pcs
    <2>3. ~InRead(pc) /\ ~InRead(pc')
      BY <1>3, <2>2 DEF Wake, InRead
    <2> QED
      BY <2>1, <2>2, <2>3, LogInvStay
  <1>4. CASE logger_thread_write_entry
    <2>1. buf' = buf /\ unread' = unread /\ gid' = gid
      BY <1>4 DEF logger_thread_write_entry
    <2>2. /\ pc.at = "write" /\ pc' \in Pcs /\ pc'.l = pc.l /\ pc'.at = pc.at /\ pc'.all = pc.all
          /\ pc'.size = pc.size /\ pc'.pos = pc.pos
      BY <1>1, <1>4 DEF logger_thread_write_entry, Pcs
    <2>3. ~pc.all
      BY <1>1, <2>2
    <2>4. InRead(pc) /\ InRead(pc')
      BY <2>2, <2>3 DEF InRead
    <2> QED
      BY <1>1, <2>1, <2>2, <2>3, <2>4, LogInvStay, Zenon
  <1>5. CASE Flushed
    <2>1. buf' = buf /\ unread' = unread /\ gid' = gid /\ pc.at = "flush"
      BY <1>5 DEF Flushed
    <2>2. CASE pc.all
      <3>1. pc' = Sleeping
        BY <1>5, <2>2 DEF Flushed
      <3>2. ~InRead(pc) /\ ~InRead(pc')
        BY <1>2, <2>2, <3>1 DEF InRead
      <3> QED
        BY <1>2, <2>1, <3>1, <3>2, LogInvStay
    <2>3. CASE ~pc.all
      <3>1. pc' = [pc EXCEPT !.at = "write"]
        BY <1>5, <2>3 DEF Flushed
      <3>2. /\ pc' \in Pcs /\ pc'.l = pc.l /\ pc'.at = "write" /\ pc'.all = pc.all
            /\ pc'.size = pc.size /\ pc'.pos = pc.pos
        BY <1>1, <3>1 DEF Pcs
      <3>3. InRead(pc) /\ InRead(pc')
        BY <2>1, <2>3, <3>2 DEF InRead
      <3> QED
        BY <1>1, <2>1, <2>3, <3>2, <3>3, LogInvStay
    <2> QED
      BY <2>2, <2>3
  <1>6. ASSUME NEW ready, PollOne(ready) PROVE LogInv'
    <2>1. buf' = buf /\ unread' = unread /\ gid' = gid /\ pc.at = "write"
      BY <1>6 DEF PollOne
    <2>2. /\ pc' \in Pcs /\ pc'.l = pc.l /\ pc'.at = "flush" /\ ~pc'.all
          /\ pc'.size = pc.size /\ pc'.pos = pc.pos
      BY <1>1, <1>6, Zenon DEF PollOne, Pcs
    <2>3. InRead(pc) /\ InRead(pc')
      BY <1>1, <2>1, <2>2 DEF InRead
    <2> QED
      BY <1>1, <2>1, <2>2, <2>3, LogInvStay
  <1>7. ASSUME NEW ready, PollAll(ready) PROVE LogInv'
    <2>1. buf' = buf /\ unread' = unread /\ gid' = gid /\ pc.at = "read"
      BY <1>7 DEF PollAll
    <2>2. pc' \in Pcs /\ pc'.l >= 1 /\ ((pc'.at = "sleep" /\ ~pc'.all) \/ (pc'.at = "flush" /\ pc'.all))
      <3>1. CASE Live = {}
        <4>1. pc' = Sleeping
          BY <1>7, <3>1, Zenon DEF PollAll
        <4> QED
          BY <1>2, <4>1
      <3>2. CASE Live # {}
        <4>1. pc' = [pc EXCEPT !.at = "flush", !.nfd = 0, !.x = 0, !.flushed = 0, !.all = TRUE]
          BY <1>7, <3>2, Zenon DEF PollAll
        <4>2. pc' \in Pcs
          BY <1>1, <4>1, Zenon DEF Pcs
        <4>3. pc'.l = pc.l /\ pc'.at = "flush" /\ pc'.all
          BY <1>1, <4>1 DEF Pcs
        <4> QED
          BY <1>1, <4>2, <4>3
      <3> QED
        BY <3>1, <3>2
    <2>3. ~InRead(pc) /\ ~InRead(pc')
      BY <2>1, <2>2 DEF InRead
    <2> QED
      BY <2>1, <2>2, <2>3, LogInvStay
  <1>8. ASSUME NEW x, logger_thread_close_watcher(x) PROVE LogInv'
    <2>1. buf' = buf /\ unread' = unread /\ gid' = gid /\ pc' = pc /\ pc.all
      BY <1>8 DEF logger_thread_close_watcher
    <2>2. ~InRead(pc) /\ ~InRead(pc')
      BY <2>1 DEF InRead
    <2> QED
      BY <1>1, <2>1, <2>2, LogInvStay
  <1>9. ASSUME NEW x, NEW n \in 0..logger_watcher_buf_size, Flush(x, n) PROVE LogInv'
    <2>1. buf' = buf /\ unread' = unread /\ gid' = gid /\ pc.at = "flush"
      BY <1>9, Zenon DEF Flush
    <2>2. n \in Nat
      BY LoggerAssumption
    <2>3. /\ pc' \in Pcs /\ pc'.l = pc.l /\ pc'.at = "flush" /\ pc'.all = pc.all
          /\ pc'.size = pc.size /\ pc'.pos = pc.pos
      <3>1. pc' = [pc EXCEPT !.nfd = pc.nfd + 1, !.flushed = pc.flushed + n]
        BY <1>9, Zenon DEF Flush
      <3>2. pc.nfd + 1 \in Nat /\ pc.flushed + n \in Nat
        BY <1>1, <2>2, PcFields
      <3>3. PICK i \in Nat, j \in Nat : pc' = [pc EXCEPT !.nfd = i, !.flushed = j]
        BY <3>1, <3>2, Zenon
      <3> QED
        BY <1>1, <2>1, <3>3, Zenon DEF Pcs
    <2>4. InRead(pc) <=> InRead(pc')
      BY <2>1, <2>3 DEF InRead
    <2> QED
      BY <1>1, <2>1, <2>3, <2>4, LogInvStay
  <1> QED
    BY <1>3, <1>4, <1>5, <1>6, <1>7, <1>8, <1>9, Zenon

(* The thread looks at the next worker's buffer. *)
LEMMA LogInvRead ==
  ASSUME LogInv, logger_thread_read
  PROVE  LogInv'
  <1>1. /\ pc \in Pcs /\ pc.l >= 1 /\ (pc.all => pc.at = "flush") /\ pc.at = "read" /\ pc.l <= Len(Writers)
        /\ buf' = buf /\ unread' = unread /\ gid' = gid
        /\ buf \in [Range(Writers) -> Buffers(ECell)]
        /\ \A w \in Range(Writers) : WorkerInv(w, buf[w], unread[w], pc)
    BY Zenon DEF LogInv, logger_thread_read
  <1>2. ~InRead(pc) /\ ~pc.all /\ pc.l \in Nat /\ pc.size \in Nat
    BY <1>1, PcFields DEF InRead
  <1>3. Cur \in Range(Writers)
    BY <1>1, <1>2, CurIs, Zenon
  <1>4. CASE bipbuf_is_empty(buf[Cur])
    <2>1. pc' = [pc EXCEPT !.l = pc.l + 1]
      BY <1>4, Zenon DEF logger_thread_read
    <2>2. PICK k \in Nat : k = pc.l + 1 /\ k >= 1
      BY <1>2
    <2>3. pc' = [pc EXCEPT !.l = k]
      BY <2>1, <2>2, Zenon
    <2>4. pc' \in Pcs /\ pc'.l = k /\ pc'.at = "read" /\ ~pc'.all
      BY <1>1, <1>2, <2>3 DEF Pcs
    <2>5. ~InRead(pc')
      BY <2>4 DEF InRead
    <2> QED
      BY <1>1, <1>2, <2>2, <2>4, <2>5, LogInvStay, Zenon
  <1>5. CASE ~bipbuf_is_empty(buf[Cur])
    <2>1. pc' = [pc EXCEPT !.at = "entry", !.size = Len(bipbuf_peek_all(buf[Cur])), !.pos = 0]
      BY <1>5, Zenon DEF logger_thread_read
    <2>2. PICK k \in Nat : k = Len(bipbuf_peek_all(buf[Cur]))
      <3>1. buf[Cur] \in Buffers(ECell) /\ BufOK(buf[Cur])
        BY <1>1, <1>3, Zenon DEF WorkerInv, BufInv
      <3>2. ALen(buf[Cur]) \in Nat
        BY <3>1, InOrderIs, Zenon
      <3> QED
        BY <3>2 DEF bipbuf_peek_all, ALen
    <2>3. pc' = [pc EXCEPT !.at = "entry", !.size = k, !.pos = 0]
      BY <2>1, <2>2, Zenon
    <2>4. /\ pc' \in Pcs /\ pc'.l = pc.l /\ pc'.at = "entry" /\ pc'.all = pc.all
          /\ pc'.size = k /\ pc'.pos = 0
      BY <1>1, <2>3, Zenon DEF Pcs
    <2>5. ASSUME NEW w \in Range(Writers) PROVE WorkerInv(w, buf[w], unread[w], pc')
      <3>1. ~Reads(pc, w)
        BY <1>2, Zenon DEF Reads
      <3>2. CASE w = Cur
        BY <1>1, <2>2, <2>4, <3>1, <3>2, ThreadReads, Zenon
      <3>3. CASE w # Cur
        <4>1. ~Reads(pc', w)
          BY <2>4, <3>3, Zenon DEF Reads, Cur
        <4> QED
          BY <1>1, <3>1, <4>1, Elsewhere, Zenon
      <3> QED
        BY <3>2, <3>3
    <2> QED
      BY <1>1, <1>2, <2>4, <2>5, LogInvSame, Zenon
  <1> QED
    BY <1>4, <1>5

(* It takes the next entry. *)
LEMMA LogInvNext ==
  ASSUME LogInv, NextEntry
  PROVE  LogInv'
  <1>1. /\ pc \in Pcs /\ pc.l >= 1 /\ (pc.all => pc.at = "flush") /\ pc.at = "entry" /\ pc.pos < pc.size
        /\ (InRead(pc) => pc.l <= Len(Writers))
        /\ buf' = buf /\ gid' = gid /\ gid \in Nat /\ pc' = [pc EXCEPT !.at = "write", !.x = 0]
        /\ unread' = [unread EXCEPT ![Cur] = SubSeq(@, Entry.size + 1, Len(@))]
        /\ buf \in [Range(Writers) -> Buffers(ECell)] /\ unread \in [Range(Writers) -> Seq(ECell)]
        /\ \A w \in Range(Writers) : WorkerInv(w, buf[w], unread[w], pc)
    BY Zenon DEF LogInv, NextEntry
  <1>2. InRead(pc) /\ ~pc.all /\ pc.l \in Nat
    BY <1>1, PcFields DEF InRead
  <1>3. Cur \in Range(Writers) /\ Reads(pc, Cur)
    BY <1>1, <1>2, CurIs, Zenon DEF Reads, Cur
  <1>4. /\ pc' \in Pcs /\ pc'.l = pc.l /\ pc'.at = "write" /\ pc'.all = pc.all
        /\ pc'.size = pc.size /\ pc'.pos = pc.pos
    BY <1>1, Zenon DEF Pcs
  <1>5. InRead(pc')
    BY <1>2, <1>4 DEF InRead
  <1> DEFINE u == SubSeq(unread[Cur], Entry.size + 1, Len(unread[Cur]))
  <1>6. WorkerInv(Cur, buf[Cur], u, pc')
    <2>1. Entry = EntryAt(buf[Cur], pc.pos)
      BY Zenon DEF Entry, EntryAt
    <2> QED
      BY <1>1, <1>3, <1>4, <1>5, <2>1, ThreadTakes, Zenon
  <1>7. u \in Seq(ECell)
    <2>1. BufInv(buf[Cur]) /\ PlaceInv(buf[Cur], pc') /\ u = Drop(InOrder(buf[Cur]), Past(buf[Cur], pc'))
      BY <1>3, <1>4, <1>5, <1>6, Zenon DEF WorkerInv, Reads, Cur
    <2> HIDE DEF u
    <2> QED
      BY <1>4, <2>1, PastIs, DropIs, Zenon
  <1> HIDE DEF u
  <1>8. /\ unread' \in [Range(Writers) -> Seq(ECell)] /\ unread'[Cur] = u
        /\ \A w \in Range(Writers) : w # Cur => unread'[w] = unread[w]
    BY <1>1, <1>3, <1>7, SMTT(30), Z3T(30) DEF u
  <1>9. ASSUME NEW w \in Range(Writers) PROVE WorkerInv(w, buf[w], unread'[w], pc')
    <2>1. CASE w = Cur
      BY <1>6, <1>8, <2>1, Zenon
    <2>2. CASE w # Cur
      <3>1. ~Reads(pc, w) /\ ~Reads(pc', w)
        BY <1>4, <2>2, Zenon DEF Reads, Cur
      <3> QED
        BY <1>1, <1>8, <2>2, <3>1, Elsewhere, Zenon
    <2> QED
      BY <2>1, <2>2
  <1> QED
    BY <1>1, <1>2, <1>4, <1>8, <1>9, Zenon DEF LogInv

(* It is done with it. *)
LEMMA LogInvDone ==
  ASSUME LogInv, EntryDone
  PROVE  LogInv'
  <1>1. /\ pc \in Pcs /\ pc.l >= 1 /\ (pc.all => pc.at = "flush") /\ pc.at = "write"
        /\ (InRead(pc) => pc.l <= Len(Writers))
        /\ buf' = buf /\ gid' = gid /\ unread' = unread
        /\ pc' = [pc EXCEPT !.at = "entry", !.pos = pc.pos + Entry.size]
        /\ \A w \in Range(Writers) : WorkerInv(w, buf[w], unread[w], pc)
    BY Zenon DEF LogInv, EntryDone
  <1>2. InRead(pc) /\ ~pc.all /\ pc.l \in Nat /\ pc.pos \in Nat /\ pc.size \in Nat
    BY <1>1, PcFields DEF InRead
  <1>3. Cur \in Range(Writers) /\ Reads(pc, Cur)
    BY <1>1, <1>2, CurIs, Zenon DEF Reads, Cur
  <1>4. Entry = EntryAt(buf[Cur], pc.pos)
    BY Zenon DEF Entry, EntryAt
  <1>5. Entry.size \in Nat
    <2>1. BufInv(buf[Cur]) /\ PlaceInv(buf[Cur], pc)
      BY <1>1, <1>3, Zenon DEF WorkerInv
    <2>2. pc.pos < pc.size
      BY <1>1, <2>1 DEF PlaceInv
    <2>3. EntryAt(buf[Cur], pc.pos).size \in Nat \ {0}
      BY <1>1, <2>1, <2>2, EntryIs, Zenon
    <2> QED
      BY <1>4, <2>3
  <1>6. PICK k \in Nat : k = pc.pos + Entry.size
    BY <1>2, <1>5
  <1>7. pc' = [pc EXCEPT !.at = "entry", !.pos = k]
    BY <1>1, <1>6, Zenon
  <1>8. /\ pc' \in Pcs /\ pc'.l = pc.l /\ pc'.at = "entry" /\ pc'.all = pc.all
        /\ pc'.size = pc.size /\ pc'.pos = k
    BY <1>1, <1>7, Zenon DEF Pcs
  <1>9. InRead(pc')
    BY <1>2, <1>8 DEF InRead
  <1>10. ASSUME NEW w \in Range(Writers) PROVE WorkerInv(w, buf[w], unread[w], pc')
    <2>1. CASE w = Cur
      BY <1>1, <1>3, <1>4, <1>6, <1>8, <1>9, <2>1, ThreadGoesOn, Zenon
    <2>2. CASE w # Cur
      <3>1. ~Reads(pc, w) /\ ~Reads(pc', w)
        BY <1>8, <2>2, Zenon DEF Reads, Cur
      <3> QED
        BY <1>1, <3>1, Elsewhere, Zenon
    <2> QED
      BY <2>1, <2>2
  <1> QED
    BY <1>1, <1>2, <1>8, <1>10, LogInvSame, Zenon

(* It gives up what it looked at. *)
LEMMA LogInvAdvance ==
  ASSUME LogInv, Advance
  PROVE  LogInv'
  <1>1. /\ pc \in Pcs /\ pc.l >= 1 /\ (pc.all => pc.at = "flush") /\ pc.at = "entry"
        /\ (InRead(pc) => pc.l <= Len(Writers))
        /\ gid' = gid /\ gid \in Nat /\ pc' = [pc EXCEPT !.at = "read", !.l = pc.l + 1]
        /\ buf' = [buf EXCEPT ![Cur] = bipbuf_poll(@, pc.size)]
        /\ unread' = [unread EXCEPT ![Cur] = SubSeq(@, pc.size - pc.pos + 1, Len(@))]
        /\ buf \in [Range(Writers) -> Buffers(ECell)] /\ unread \in [Range(Writers) -> Seq(ECell)]
        /\ \A w \in Range(Writers) : WorkerInv(w, buf[w], unread[w], pc)
    BY Zenon DEF LogInv, Advance
  <1>2. InRead(pc) /\ ~pc.all /\ pc.l \in Nat
    BY <1>1, PcFields DEF InRead
  <1>3. Cur \in Range(Writers) /\ Reads(pc, Cur)
    BY <1>1, <1>2, CurIs, Zenon DEF Reads, Cur
  <1>4. PICK k \in Nat : k = pc.l + 1 /\ k >= 1
    BY <1>2
  <1>5. pc' = [pc EXCEPT !.at = "read", !.l = k]
    BY <1>1, <1>4, Zenon
  <1>6. pc' \in Pcs /\ pc'.l = k /\ pc'.at = "read" /\ pc'.all = pc.all
    BY <1>1, <1>5, Zenon DEF Pcs
  <1>7. ~InRead(pc')
    BY <1>6 DEF InRead
  <1> DEFINE b == bipbuf_poll(buf[Cur], pc.size)
             u == SubSeq(unread[Cur], pc.size - pc.pos + 1, Len(unread[Cur]))
  <1>8. WorkerInv(Cur, b, u, pc')
    <2>1. ~Reads(pc', Cur)
      BY <1>7, Zenon DEF Reads
    <2> QED
      BY <1>1, <1>3, <2>1, ThreadAdvances, Zenon
  <1>9. b \in Buffers(ECell) /\ u \in Seq(ECell)
    <2>1. b \in Buffers(ECell) /\ BufOK(b) /\ u = InOrder(b)
      BY <1>7, <1>8, Zenon DEF WorkerInv, BufInv, Reads
    <2> HIDE DEF b, u
    <2> QED
      BY <2>1, InOrderIs, Zenon
  <1> HIDE DEF b, u
  <1>10. /\ buf' \in [Range(Writers) -> Buffers(ECell)] /\ buf'[Cur] = b
         /\ \A w \in Range(Writers) : w # Cur => buf'[w] = buf[w]
    BY <1>1, <1>3, <1>9 DEF b
  <1>11. /\ unread' \in [Range(Writers) -> Seq(ECell)] /\ unread'[Cur] = u
         /\ \A w \in Range(Writers) : w # Cur => unread'[w] = unread[w]
    BY <1>1, <1>3, <1>9, SMTT(30), Z3T(30) DEF u
  <1>12. ASSUME NEW w \in Range(Writers) PROVE WorkerInv(w, buf'[w], unread'[w], pc')
    <2>1. CASE w = Cur
      BY <1>8, <1>10, <1>11, <2>1, Zenon
    <2>2. CASE w # Cur
      <3>1. ~Reads(pc, w) /\ ~Reads(pc', w)
        BY <1>7, <2>2, Zenon DEF Reads, Cur
      <3> QED
        BY <1>1, <1>10, <1>11, <2>2, <3>1, Elsewhere, Zenon
    <2> QED
      BY <2>1, <2>2
  <1> QED
    BY <1>1, <1>2, <1>4, <1>6, <1>7, <1>10, <1>11, <1>12, Zenon DEF LogInv

(* Every step keeps LogInv. *)
LEMMA LogInvStep ==
  LogInv /\ [LNext]_lVars => LogInv'
  <1> SUFFICES ASSUME LogInv, [LNext]_lVars PROVE LogInv'
    OBVIOUS
  <1>1. ASSUME NEW w \in Range(Writers), NEW e \in Events, NEW n \in 1..ReqLen, logger_log(w, e, n)
        PROVE  LogInv'
    BY <1>1, LogInvLog, Zenon
  <1>2. ASSUME NEW c, NEW f, logger_add_watcher(c, f) PROVE LogInv'
    BY <1>2, Zenon DEF logger_add_watcher, LogInv
  <1>3. CASE LoggerStep
    BY <1>3, LogInvRead, LogInvNext, LogInvDone, LogInvAdvance, LogInvQuiet, Zenon DEF LoggerStep
  <1>4. CASE UNCHANGED lVars
    <2>1. buf' = buf /\ unread' = unread /\ gid' = gid /\ pc' = pc
      BY <1>4, Zenon DEF lVars
    <2> QED
      BY <2>1, Zenon DEF LogInv
  <1> QED
    BY <1>1, <1>2, <1>3, <1>4, Zenon DEF LNext

(* Every buffer holds whole entries, region a too, and what the logger     *)
(* thread looked at stays there, in whole entries, until it is polled, for *)
(* any number of workers, sizes of the buffers and of the entries.         *)
THEOREM LogInvariant == LSpec => []LogInv
  <1> QED
    BY LogInvInit, LogInvStep, PTL DEF LSpec

(* Nothing a worker wrote is lost, repeated or reordered while the logger  *)
(* thread reads its buffer without its mutex, and the thread reads an      *)
(* entry only where one begins (logger.c:339-382, 684-774; bipbuffer.c).   *)
THEOREM EntriesInOrderHolds == LSpec => []EntriesInOrder
  <1>1. LogInv => EntriesInOrder
    <2> SUFFICES ASSUME LogInv, NEW w \in Range(Writers)
        PROVE  LET cells == InOrder(buf[w])
               IN  IF Reading /\ Cur = w
                   THEN /\ pc.pos <= pc.size /\ (pc.pos < pc.size => Entry.cell = 1)
                        /\ SubSeq(cells, Done + 1, Len(cells)) = unread[w]
                   ELSE cells = unread[w]
      BY Zenon DEF EntriesInOrder
    <2>1. WorkerInv(w, buf[w], unread[w], pc) /\ pc \in Pcs
      BY Zenon DEF LogInv
    <2>2. Reading /\ Cur = w <=> Reads(pc, w)
      BY Zenon DEF Reading, Reads, InRead, Cur
    <2>3. CASE Reading /\ Cur = w
      <3>1. BufInv(buf[w]) /\ PlaceInv(buf[w], pc) /\ unread[w] = Drop(InOrder(buf[w]), Past(buf[w], pc))
        BY <2>1, <2>2, <2>3, Zenon DEF WorkerInv
      <3>2. Entry = EntryAt(buf[w], pc.pos)
        BY <2>3, Zenon DEF Entry, EntryAt
      <3>3. Done = Past(buf[w], pc)
        BY <3>2, Zenon DEF Done, Past
      <3>4. pc.pos <= pc.size
        BY <3>1, Zenon DEF PlaceInv
      <3>5. pc.pos < pc.size => Entry.cell = 1
        BY <2>1, <3>1, <3>2, EntryIs, Zenon
      <3> QED
        BY <2>3, <3>1, <3>3, <3>4, <3>5, Zenon DEF Drop
    <2>4. CASE ~(Reading /\ Cur = w)
      BY <2>1, <2>2, <2>4, Zenon DEF WorkerInv
    <2> QED
      BY <2>3, <2>4, Zenon
  <1> QED
    BY <1>1, LogInvariant, PTL

-----------------------------------------------------------------------------
(* The order of the numbers is well-founded. *)
LEMMA LessWF == IsWellFoundedOn({ss \in Nat \X Nat : ss[1] < ss[2]}, Nat)
  BY NatLessThanWellFounded, Zenon DEF OpToRel

(* What holds of 0, and of n + 1 if of n, holds of every number. *)
LEMMA SetInduction ==
  ASSUME NEW S, 0 \in S, \A n \in Nat : n \in S => n + 1 \in S
  PROVE  Nat \subseteq S
  <1> DEFINE T == Nat \ S
  <1> DEFINE R == {ss \in Nat \X Nat : ss[1] < ss[2]}
  <1>1. SUFFICES ASSUME T # {} PROVE FALSE
    OBVIOUS
  <1>2. PICK x \in T : \A y \in T : ~(<<y, x>> \in R)
    <2>1. T \subseteq Nat
      OBVIOUS
    <2>2. IsWellFoundedOn(R, Nat)
      BY LessWF
    <2> HIDE DEF R, T
    <2> QED
      BY <1>1, <2>1, <2>2, WFMin, Zenon
  <1>3. \A y \in T : ~(y < x)
    BY <1>2, Zenon
  <1>4. x # 0 /\ x - 1 \in Nat /\ x - 1 \notin T
    BY <1>3
  <1>5. (x - 1) + 1 \in S
    BY <1>4
  <1> QED
    BY <1>5

(* The lines of watchers, and their cells.                                 *)
Lines == [kind : {"ok", "entry", "skipped"}, n : Nat]
LCell == [line : Lines, cell : Nat, size : Nat \ {0}]

(* What a cell stands for is a sequence of numbers. *)
LEMMA StandsIs ==
  ASSUME NEW c \in LCell
  PROVE  Stands(c) \in Seq(Nat)
  <1>1. c.line.n \in Nat
    BY DEF LCell, Lines
  <1> QED
    BY <1>1 DEF Stands

(* spread, over the first m cells, value by value. *)
SpreadOf(f, s, m) ==
  /\ f = [n \in 0..m |-> f[n]]
  /\ f[0] = <<>>
  /\ \A n \in 1..m : f[n] = f[n - 1] \o Stands(s[n])

(* This is what the definition of spread says. *)
SpreadDef(f, s, m) == f = [n \in 0..m |-> IF n = 0 THEN <<>> ELSE f[n - 1] \o Stands(s[n])]

(* A function defined so has the values of SpreadOf. *)
LEMMA SpreadAsDefined ==
  ASSUME NEW s, NEW m \in Nat, NEW f
  PROVE  SpreadOf(f, s, m) <=> SpreadDef(f, s, m)
  <1> DEFINE e(n) == IF n = 0 THEN <<>> ELSE f[n - 1] \o Stands(s[n])
  <1>1. ASSUME f = [n \in 0..m |-> e(n)]
        PROVE  SpreadOf(f, s, m)
    <2>1. \A n \in 0..m : f[n] = e(n)
      <3> HIDE DEF e
      <3> QED
        BY <1>1, Zenon
    <2>2. f = [n \in 0..m |-> f[n]]
      <3> HIDE DEF e
      <3> QED
        BY <1>1, <2>1, Zenon
    <2>3. 0 \in 0..m /\ \A n \in 1..m : n \in 0..m /\ n # 0
      OBVIOUS
    <2> QED
      BY <2>1, <2>2, <2>3, Zenon DEF SpreadOf
  <1>2. ASSUME SpreadOf(f, s, m)
        PROVE  f = [n \in 0..m |-> e(n)]
    <2>1. \A n \in 0..m : n # 0 => n \in 1..m
      OBVIOUS
    <2>2. \A n \in 0..m : f[n] = e(n)
      BY <1>2, <2>1, Zenon DEF SpreadOf
    <2>3. f = [n \in 0..m |-> f[n]]
      BY <1>2, Zenon DEF SpreadOf
    <2> HIDE DEF e
    <2> QED
      BY <2>2, <2>3, Zenon
  <1> QED
    BY <1>1, <1>2, Zenon DEF SpreadDef

(* There is such a function: each is extended by one cell. *)
LEMMA SpreadExists ==
  ASSUME NEW s, NEW m \in Nat
  PROVE  \E f : SpreadOf(f, s, m)
  <1> DEFINE S == {n \in Nat : \E f : SpreadOf(f, s, n)}
  <1>1. 0 \in S
    <2>1. SpreadOf([n \in 0..0 |-> <<>>], s, 0)
      BY DEF SpreadOf
    <2> QED
      BY <2>1
  <1>2. ASSUME NEW n \in Nat, n \in S PROVE n + 1 \in S
    <2>1. PICK f : SpreadOf(f, s, n)
      BY <1>2
    <2> DEFINE g == [k \in 0..n + 1 |-> IF k <= n THEN f[k] ELSE f[n] \o Stands(s[n + 1])]
    <2>2. /\ \A k \in 0..n : g[k] = f[k]
          /\ g[n + 1] = f[n] \o Stands(s[n + 1])
          /\ g = [k \in 0..n + 1 |-> g[k]]
      BY SMTT(30), Z3T(30)
    <2> HIDE DEF g
    <2>3. f[0] = <<>> /\ \A k \in 1..n : f[k] = f[k - 1] \o Stands(s[k])
      BY <2>1, Zenon DEF SpreadOf
    <2>4. ASSUME NEW k \in 1..n + 1
          PROVE  g[k] = g[k - 1] \o Stands(s[k])
      <3>1. CASE k <= n
        <4>1. k \in 1..n /\ k \in 0..n /\ k - 1 \in 0..n
          BY <3>1
        <4> QED
          BY <2>2, <2>3, <4>1, Zenon
      <3>2. CASE k = n + 1
        <4>1. k - 1 = n /\ n \in 0..n
          BY <3>2
        <4>2. g[k - 1] = f[n]
          BY <2>2, <4>1, Zenon
        <4> QED
          BY <2>2, <3>2, <4>2, Zenon
      <3>3. k <= n \/ k = n + 1
        OBVIOUS
      <3> QED
        BY <3>1, <3>2, <3>3, Zenon
    <2>5. g[0] = <<>>
      <3>1. 0 \in 0..n
        OBVIOUS
      <3> QED
        BY <2>2, <2>3, <3>1, Zenon
    <2>6. SpreadOf(g, s, n + 1)
      BY <2>2, <2>4, <2>5, Zenon DEF SpreadOf
    <2> QED
      BY <2>6
  <1>3. Nat \subseteq S
    <2> HIDE DEF S
    <2> QED
      BY <1>1, <1>2, SetInduction
  <1> QED
    BY <1>3

(* Two streams that start alike spread alike there. *)
SameAt(f, g, m) == f[m] = g[m]
SameStart(s, t, m) == \A k \in 1..m : s[k] = t[k]

(* Streams that begin alike have the same values there. *)
LEMMA SpreadUnique ==
  ASSUME NEW s, NEW t, NEW f, NEW g, NEW m \in Nat, NEW n \in Nat,
         SpreadOf(f, s, m), SpreadOf(g, t, n), m <= n, SameStart(s, t, m)
  PROVE  SameAt(f, g, m)
  <1> DEFINE S == {k \in Nat : k <= m => f[k] = g[k]}
  <1>1. 0 \in S
    BY DEF SpreadOf
  <1>2. ASSUME NEW k \in Nat, k \in S PROVE k + 1 \in S
    <2>1. SUFFICES ASSUME k + 1 <= m PROVE f[k + 1] = g[k + 1]
      OBVIOUS
    <2>2. k + 1 \in 1..m /\ k + 1 \in 1..n /\ (k + 1) - 1 = k
      BY <2>1
    <2>3. f[k + 1] = f[k] \o Stands(s[k + 1]) /\ g[k + 1] = g[k] \o Stands(t[k + 1])
      BY <2>2, Zenon DEF SpreadOf
    <2>4. f[k] = g[k] /\ s[k + 1] = t[k + 1]
      BY <1>2, <2>1, <2>2 DEF SameStart
    <2> QED
      BY <2>3, <2>4, Zenon
  <1>3. Nat \subseteq S
    <2> HIDE DEF S
    <2> QED
      BY <1>1, <1>2, SetInduction
  <1> QED
    BY <1>3 DEF SameAt

(* Spread is its last value. *)
LEMMA SpreadIs ==
  ASSUME NEW s, NEW n \in Nat, n = Len(s), NEW f, SpreadOf(f, s, n)
  PROVE  Spread(s) = f[n]
  <1> DEFINE g == CHOOSE k : SpreadDef(k, s, n)
  <1>1. SpreadDef(f, s, n)
    BY SpreadAsDefined, Zenon
  <1>2. SpreadDef(g, s, n)
    BY <1>1, Zenon
  <1>3. Spread(s) = g[n]
    BY Zenon DEF Spread, SpreadDef
  <1> HIDE DEF g
  <1>4. SpreadOf(g, s, n)
    BY <1>2, SpreadAsDefined, Zenon
  <1>5. n <= n /\ SameStart(s, s, n)
    BY DEF SameStart
  <1>6. SameAt(f, g, n)
    BY <1>4, <1>5, SpreadUnique, Zenon
  <1> QED
    BY <1>3, <1>6, Zenon DEF SameAt

(* A stream of lines stands for numbers. *)
LEMMA SpreadSeq ==
  ASSUME NEW s \in Seq(LCell)
  PROVE  Spread(s) \in Seq(Nat)
  <1>1. PICK m \in Nat : m = Len(s)
    OBVIOUS
  <1>2. PICK f : SpreadOf(f, s, m)
    BY SpreadExists, Zenon
  <1> DEFINE S == {k \in Nat : k <= m => f[k] \in Seq(Nat)}
  <1>3. 0 \in S
    <2>1. f[0] = <<>>
      BY <1>2, Zenon DEF SpreadOf
    <2>2. <<>> \in Seq(Nat) /\ 0 \in Nat
      OBVIOUS
    <2> QED
      BY <2>1, <2>2, Zenon
  <1>4. ASSUME NEW k \in Nat, k \in S PROVE k + 1 \in S
    <2>1. SUFFICES ASSUME k + 1 <= m PROVE f[k + 1] \in Seq(Nat)
      OBVIOUS
    <2>2. k + 1 \in 1..m /\ (k + 1) - 1 = k /\ k <= m
      BY <2>1
    <2>3. f[k + 1] = f[k] \o Stands(s[k + 1])
      BY <1>2, <2>2, Zenon DEF SpreadOf
    <2>4. f[k] \in Seq(Nat)
      BY <1>4, <2>2
    <2>5. s[k + 1] \in LCell
      BY <1>1, <2>2
    <2>6. Stands(s[k + 1]) \in Seq(Nat)
      BY <2>5, StandsIs, Zenon
    <2> QED
      BY <2>3, <2>4, <2>6, ConcatIs, Zenon
  <1>5. Nat \subseteq S
    <2> HIDE DEF S
    <2> QED
      BY <1>3, <1>4, SetInduction
  <1>6. f[m] \in Seq(Nat)
    BY <1>5
  <1> QED
    BY <1>1, <1>2, <1>6, SpreadIs, Zenon

(* Nothing stands for nothing. *)
LEMMA SpreadEmpty == Spread(<<>>) = <<>>
  <1>1. PICK f : SpreadOf(f, <<>>, 0)
    BY SpreadExists
  <1>2. f[0] = <<>>
    BY <1>1, Zenon DEF SpreadOf
  <1>3. Len(<<>>) = 0
    OBVIOUS
  <1> QED
    BY <1>1, <1>2, <1>3, SpreadIs, Zenon

(* The cells of one line. *)
LineHead(line, n) == [line |-> line, cell |-> 1, size |-> n]

(* The cells of a line. *)
LEMMA LineIs ==
  ASSUME NEW line \in Lines, NEW n \in Nat \ {0}
  PROVE  /\ LineCells(line, n) \in Seq(LCell) /\ Len(LineCells(line, n)) = n
         /\ Whole(LineCells(line, n)) /\ LineHead(line, n) \in LCell
         /\ LineCells(line, n)[1] = LineHead(line, n)
         /\ \A i \in 2..n : Stands(LineCells(line, n)[i]) = <<>>
  <1> DEFINE d == LineCells(line, n)
             c(i) == [line |-> line, cell |-> i, size |-> n]
  <1>1. d = [i \in 1..n |-> c(i)]
    BY DEF LineCells
  <1>2. \A i \in 1..n : c(i) \in LCell
    BY DEF LCell
  <1>3. \A i, k : /\ c(i).cell = i /\ c(i).size = n
                  /\ [c(i) EXCEPT !.cell = k] = c(k)
    OBVIOUS
  <1>4. LineHead(line, n) = c(1)
    BY DEF LineHead
  <1> HIDE DEF c, d
  <1>5. d \in Seq(LCell) /\ Len(d) = n /\ \A i \in 1..n : d[i] = c(i)
    BY <1>1, <1>2
  <1>6. 1 \in 1..n
    OBVIOUS
  <1>7. d[1] = c(1) /\ d[1].cell = 1
    <2>1. d[1] = c(1)
      BY <1>5, <1>6, Zenon
    <2> QED
      BY <1>3, <2>1
  <1>8. ASSUME NEW i \in 1..n, d[i].cell = 1 PROVE HeadAt(d, i)
    <2>1. i = 1 /\ d[i] = c(1) /\ d[i].size = n
      <3>1. d[i] = c(i)
        BY <1>5, Zenon
      <3>2. d[i].cell = i /\ d[i].size = n
        BY <1>3, <3>1
      <3> QED
        BY <1>8, <3>1, <3>2, Zenon
    <2>2. ASSUME NEW k \in 1..n PROVE i + k - 1 <= Len(d) /\ d[i + k - 1] = [d[i] EXCEPT !.cell = k]
      <3>1. i + k - 1 = k /\ k <= n
        BY <2>1
      <3>2. [c(1) EXCEPT !.cell = k] = c(k)
        BY <1>3
      <3>3. [d[i] EXCEPT !.cell = k] = c(k)
        BY <2>1, <3>2
      <3>4. d[k] = c(k)
        BY <1>5, Zenon
      <3> QED
        BY <1>5, <3>1, <3>3, <3>4, Zenon
    <2>3. ~(i + n <= Len(d))
      BY <1>5, <2>1
    <2> QED
      BY <2>1, <2>2, <2>3, Zenon DEF HeadAt
  <1>9. Whole(d)
    BY <1>5, <1>7, <1>8, WholeIs, Zenon
  <1>10. ASSUME NEW i \in 2..n PROVE Stands(d[i]) = <<>>
    <2>1. i \in 1..n /\ i # 1
      OBVIOUS
    <2>2. d[i].cell = i
      <3>1. d[i] = c(i)
        BY <1>5, <2>1, Zenon
      <3> QED
        BY <1>3, <3>1
    <2> QED
      BY <2>1, <2>2 DEF Stands
  <1> QED
    BY <1>2, <1>4, <1>5, <1>6, <1>7, <1>9, <1>10, Zenon DEF d

(* A line more stands for what its head stands for. *)
LEMMA SpreadLine ==
  ASSUME NEW s \in Seq(LCell), NEW line \in Lines, NEW n \in Nat \ {0}
  PROVE  Spread(s \o LineCells(line, n)) = Spread(s) \o Stands(LineHead(line, n))
  <1>1. PICK d : d = LineCells(line, n)
    BY Zenon
  <1>2. PICK t : t = s \o d
    BY Zenon
  <1>3. PICK a \in Nat : a = Len(s)
    OBVIOUS
  <1>4. PICK m \in Nat : m = a + n
    OBVIOUS
  <1>5. /\ d \in Seq(LCell) /\ Len(d) = n /\ d[1] = LineHead(line, n) /\ LineHead(line, n) \in LCell
        /\ \A i \in 2..n : Stands(d[i]) = <<>>
    BY <1>1, LineIs, Zenon
  <1>6. /\ t \in Seq(LCell) /\ Len(t) = m
        /\ \A i \in 1..m : t[i] = IF i <= a THEN s[i] ELSE d[i - a]
    BY <1>2, <1>3, <1>4, <1>5, ConcatIs, ZenonT(30)
  <1>7. SameStart(s, t, a) /\ a <= m
    <2>1. \A i \in 1..a : i \in 1..m /\ i <= a
      BY <1>4
    <2>2. a <= m
      BY <1>4
    <2> QED
      BY <1>6, <2>1, <2>2, Zenon DEF SameStart
  <1>8. \A j \in 1..n : t[a + j] = d[j]
    <2>1. ASSUME NEW j \in 1..n PROVE t[a + j] = d[j]
      <3>1. a + j \in 1..m /\ ~(a + j <= a) /\ (a + j) - a = j
        BY <1>4
      <3> QED
        BY <1>6, <3>1, Zenon
    <2> QED
      BY <2>1
  <1>9. PICK f : SpreadOf(f, s, a)
    BY SpreadExists, Zenon
  <1>10. PICK g : SpreadOf(g, t, m)
    BY SpreadExists, Zenon
  <1>11. SameAt(f, g, a)
    BY <1>7, <1>9, <1>10, SpreadUnique, Zenon
  <1>12. Spread(s) = f[a] /\ Spread(t) = g[m]
    BY <1>3, <1>6, <1>9, <1>10, SpreadIs, Zenon
  <1>13. g[a] = Spread(s)
    BY <1>11, <1>12, Zenon DEF SameAt
  <1> DEFINE v == Spread(s) \o Stands(LineHead(line, n))
             S == {k \in Nat : k < n => g[a + k + 1] = v}
  <1>14. v \in Seq(Nat)
    BY <1>5, SpreadSeq, StandsIs, ConcatIs, Zenon
  <1> HIDE DEF v
  <1>15. 0 \in S
    <2>1. a + 1 \in 1..m /\ (a + 1) - 1 = a /\ 1 \in 1..n /\ a + 0 + 1 = a + 1
      BY <1>4
    <2>2. g[a + 1] = g[a] \o Stands(t[a + 1])
      BY <1>10, <2>1, Zenon DEF SpreadOf
    <2>3. g[a + 1] = v
      BY <1>5, <1>8, <1>13, <2>1, <2>2, Zenon DEF v
    <2> QED
      BY <2>1, <2>3
  <1>16. ASSUME NEW k \in Nat, k \in S PROVE k + 1 \in S
    <2>1. SUFFICES ASSUME k + 1 < n PROVE g[a + (k + 1) + 1] = v
      OBVIOUS
    <2>2. /\ a + k + 2 \in 1..m /\ (a + k + 2) - 1 = a + k + 1 /\ k + 2 \in 2..n /\ k + 2 \in 1..n
          /\ a + k + 2 = a + (k + 2) /\ a + (k + 1) + 1 = a + k + 2 /\ k < n
      BY <1>4, <2>1
    <2>3. g[a + k + 2] = g[a + k + 1] \o Stands(t[a + k + 2])
      BY <1>10, <2>2, Zenon DEF SpreadOf
    <2>4. Stands(t[a + k + 2]) = <<>>
      <3>1. t[a + (k + 2)] = d[k + 2]
        BY <1>8, <2>2, Zenon
      <3>2. Stands(d[k + 2]) = <<>>
        BY <1>5, <2>2, Zenon
      <3>3. t[a + k + 2] = d[k + 2]
        BY <2>2, <3>1
      <3> QED
        BY <3>2, <3>3, Zenon
    <2>5. g[a + k + 1] = v
      BY <1>16, <2>2
    <2>6. v \o <<>> = v
      BY <1>14, ConcatNone, Zenon
    <2> QED
      BY <2>2, <2>3, <2>4, <2>5, <2>6, Zenon
  <1>17. Nat \subseteq S
    <2> HIDE DEF S
    <2> QED
      BY <1>15, <1>16, SetInduction
  <1>18. n - 1 \in Nat /\ n - 1 < n /\ a + (n - 1) + 1 = m
    BY <1>4
  <1>19. g[m] = v
    BY <1>17, <1>18
  <1> QED
    BY <1>1, <1>2, <1>12, <1>19, Zenon DEF v

-----------------------------------------------------------------------------
(* An offer to a writer's buffer leaves what its reader looks at. *)
LEMMA OfferKeepsEntry ==
  ASSUME NEW b \in Buffers(ECell), BufOK(b), NEW d \in Seq(ECell), Len(d) <= bipbuf_unused(b),
         NEW n \in Nat, n < ALen(b)
  PROVE  EntryAt(bipbuf_offer(b, d), n) = EntryAt(b, n)
  <1> DEFINE r == bipbuf_offer(b, d)
             s == InOrder(b)
  <1>1. /\ r \in Buffers(ECell) /\ BufOK(r) /\ ALen(b) \in Nat /\ ALen(r) \in Nat /\ ALen(b) <= ALen(r)
        /\ InOrder(r) = s \o d
    BY OfferIs, Zenon
  <1>2. s \in Seq(ECell) /\ Len(s) = ALen(b) + b.b_end /\ b.b_end \in Nat
    BY Fields, InOrderIs, Zenon
  <1> HIDE DEF r, s
  <1>3. n < ALen(r) /\ n + 1 \in 1..(Len(s) + Len(d)) /\ n + 1 <= Len(s)
    <2>1. ALen(b) \in Nat /\ ALen(r) \in Nat /\ ALen(b) <= ALen(r) /\ Len(d) \in Nat /\ Len(s) \in Nat
      BY <1>1, <1>2
    <2>2. ALen(b) <= Len(s)
      BY <1>1, <1>2
    <2> QED
      BY <2>1, <2>2
  <1>4. EntryAt(b, n) = s[n + 1]
    BY EntryAtIs, Zenon DEF s
  <1>5. EntryAt(r, n) = (s \o d)[n + 1]
    BY <1>1, <1>3, EntryAtIs, Zenon
  <1>6. (s \o d)[n + 1] = s[n + 1]
    BY <1>2, <1>3, ConcatIs, Zenon
  <1> QED
    BY <1>4, <1>5, <1>6, Zenon DEF r

(* An offer takes as much room as it says, or less. *)
LEMMA OfferRoom ==
  ASSUME NEW V, NEW me \in Buffers(V), BufOK(me), NEW d \in Seq(V), Len(d) <= bipbuf_unused(me)
  PROVE  /\ bipbuf_unused(me) \in Int /\ bipbuf_unused(bipbuf_offer(me, d)) \in Int
         /\ bipbuf_unused(me) - Len(d) <= bipbuf_unused(bipbuf_offer(me, d))
  <1> DEFINE r == bipbuf_offer(me, d)
             n == Len(d)
  <1>1. /\ me.size \in Nat /\ me.a_start \in Nat /\ me.a_end \in Nat /\ me.b_end \in Nat
    BY Fields, Zenon
  <1>2. n \in Nat
    OBVIOUS
  <1>3. /\ r \in Buffers(V) /\ r.size = me.size /\ r.a_start = me.a_start
        /\ r.a_end = (IF me.b_inuse THEN me.a_end ELSE me.a_end + n)
        /\ r.b_end = (IF me.b_inuse THEN me.b_end + n ELSE me.b_end)
        /\ r.data = After(me, d)
        /\ r.b_inuse <=> me.b_inuse \/ r.size - r.a_end < r.a_start - r.b_end
    BY OfferFields, Zenon
  <1>4. ~me.b_inuse => me.b_end = 0
    BY Zenon DEF BufOK
  <1>5. bipbuf_unused(me) = IF me.b_inuse THEN me.a_start - me.b_end ELSE me.size - me.a_end
    BY DEF bipbuf_unused
  <1>6. bipbuf_unused(r) = IF r.b_inuse THEN r.a_start - r.b_end ELSE r.size - r.a_end
    BY Zenon DEF bipbuf_unused
  <1> HIDE DEF r, n
  <1>7. CASE me.b_inuse
    <2>1. r.b_inuse /\ r.b_end = me.b_end + n /\ r.a_start = me.a_start
      BY <1>3, <1>7, Zenon
    <2> QED
      BY <1>1, <1>2, <1>5, <1>6, <1>7, <2>1 DEF r, n
  <1>8. CASE ~me.b_inuse
    <2>1. r.b_end = 0 /\ r.a_end = me.a_end + n /\ r.a_start = me.a_start /\ r.size = me.size
      BY <1>3, <1>4, <1>8, Zenon
    <2>2. r.b_inuse => me.size - (me.a_end + n) < me.a_start - 0
      BY <1>3, <1>8, <2>1, Zenon
    <2>3. bipbuf_unused(me) = me.size - me.a_end
      BY <1>5, <1>8
    <2>4. bipbuf_unused(r) = IF r.b_inuse THEN me.a_start - 0 ELSE me.size - (me.a_end + n)
      BY <1>6, <2>1, Zenon
    <2> HIDE DEF r
    <2>5. bipbuf_unused(me) \in Int /\ bipbuf_unused(r) \in Int /\ bipbuf_unused(me) - n <= bipbuf_unused(r)
      BY <1>1, <1>2, <2>2, <2>3, <2>4, SMTT(30), Z3T(30)
    <2> QED
      BY <2>5, Zenon DEF r, n
  <1> QED
    BY <1>7, <1>8

(* What a socket takes is sent, and the stream is the same.                *)
LEMMA PollStream ==
  ASSUME NEW V, NEW me \in Buffers(V), BufOK(me), NEW n \in 0..ALen(me), NEW s \in Seq(V)
  PROVE  /\ s \o SubSeq(bipbuf_peek_all(me), 1, n) \in Seq(V)
         /\ (s \o SubSeq(bipbuf_peek_all(me), 1, n)) \o InOrder(bipbuf_poll(me, n)) = s \o InOrder(me)
  <1> DEFINE t == InOrder(me)
             a == bipbuf_peek_all(me)
             h == SubSeq(a, 1, n)
             u == Drop(t, n)
  <1>1. InOrder(bipbuf_poll(me, n)) = u
    BY PollIs, Zenon DEF Drop
  <1>2. /\ ALen(me) \in Nat /\ t \in Seq(V) /\ Len(t) = ALen(me) + me.b_end /\ me.b_end \in Nat
        /\ me.a_start \in Nat
        /\ \A i \in 1..(ALen(me) + me.b_end) :
             t[i] = IF i <= ALen(me) THEN me.data[me.a_start + i - 1] ELSE me.data[i - ALen(me) - 1]
    BY Fields, InOrderIs, Zenon
  <1>3. n \in Nat /\ n <= ALen(me) /\ n \in 0..Len(t)
    BY <1>2
  <1>4. \A i \in 1..n : a[i] = t[i] /\ a[i] \in V
    <2>1. ASSUME NEW i \in 1..n PROVE a[i] = t[i] /\ a[i] \in V
      <3>1. i \in 1..ALen(me) /\ i \in 1..(ALen(me) + me.b_end) /\ i <= ALen(me)
        BY <1>2, <1>3
      <3>2. t[i] = me.data[me.a_start + i - 1]
        BY <1>2, <3>1, Zenon
      <3>3. a[i] = me.data[me.a_start + i - 1]
        BY <3>1, Zenon DEF bipbuf_peek_all, ALen
      <3>4. t[i] \in V
        BY <1>2, <3>1
      <3> QED
        BY <3>2, <3>3, <3>4, Zenon
    <2> QED
      BY <2>1
  <1>5. h \in Seq(V) /\ Len(h) = n /\ \A i \in 1..n : h[i] = a[i]
    <2>1. /\ h \in Seq(V) /\ Len(h) = (IF 1 <= n THEN n - 1 + 1 ELSE 0)
          /\ \A i \in 1..(n - 1 + 1) : h[i] = a[1 + i - 1]
      <3>1. 1 \in Int /\ n \in Int
        BY <1>3
      <3> HIDE DEF a
      <3> QED
        BY <1>4, <3>1, SubSeqIs
    <2>2. n - 1 + 1 = n /\ \A i \in 1..n : 1 + i - 1 = i
      BY <1>3
    <2> HIDE DEF h, a
    <2> QED
      BY <1>3, <2>1, <2>2
  <1> HIDE DEF t, a, h
  <1>6. u \in Seq(V) /\ Len(u) = Len(t) - n /\ \A i \in 1..(Len(t) - n) : u[i] = t[n + i]
    <2>1. t \in Seq(V)
      BY <1>2
    <2>2. n \in 0..Len(t)
      BY <1>3
    <2> QED
      BY <2>1, <2>2, DropIs, Zenon
  <1> HIDE DEF u
  <1>7. h \o u = t
    <2>1. /\ h \o u \in Seq(V) /\ Len(h \o u) = Len(h) + Len(u)
          /\ \A i \in 1..(Len(h) + Len(u)) : (h \o u)[i] = IF i <= Len(h) THEN h[i] ELSE u[i - Len(h)]
      BY <1>5, <1>6, ConcatIs, Zenon
    <2>2. Len(h) + Len(u) = Len(t) /\ Len(t) \in Nat
      BY <1>2, <1>3, <1>5, <1>6, SMTT(30), Z3T(30)
    <2>3. ASSUME NEW i \in 1..Len(t) PROVE (h \o u)[i] = t[i]
      <3>1. CASE i <= n
        <4>1. i \in 1..n
          BY <1>3, <3>1
        <4> QED
          BY <1>4, <1>5, <2>1, <2>2, <3>1, <4>1, Zenon
      <3>2. CASE ~(i <= n)
        <4>1. i - n \in 1..(Len(t) - n) /\ n + (i - n) = i
          BY <1>3, <2>2, <3>2
        <4> QED
          BY <1>5, <1>6, <2>1, <2>2, <3>2, <4>1, Zenon
      <3> QED
        BY <3>1, <3>2, Zenon
    <2> QED
      BY <1>2, <2>1, <2>2, <2>3, SameSeq, Zenon
  <1>8. (s \o h) \o u = s \o (h \o u)
    <2>1. s \in Seq(V) /\ h \in Seq(V) /\ u \in Seq(V)
      BY <1>5, <1>6
    <2> QED
      BY <2>1, ConcatThree, SMTT(30), Z3T(30)
  <1>9. s \o h \in Seq(V)
    BY <1>5, ConcatIs, Zenon
  <1> QED
    BY <1>1, <1>7, <1>8, <1>9, Zenon DEF h, a, t

-----------------------------------------------------------------------------
(* A watcher; the entries its lines account for, in order; and that they   *)
(* are, with those it has yet to be told of, all but the last k due.       *)
Watching ==
  [id : Clients, eflags : SUBSET Events, skipped : Nat, failed_flush : BOOLEAN,
   buf : Buffers(LCell), sent : Seq(LCell), due : Seq(Nat)]

Seen(w) == Spread(Stream(w))

Accounts(w, k) ==
  /\ w \in Watching /\ BufOK(w.buf) /\ Whole(Stream(w))
  /\ Len(Seen(w)) + w.skipped + k = Len(w.due)
  /\ \A i \in 1..Len(Seen(w)) : Seen(w)[i] \in {0, w.due[i]}

(* Unsettled, for a place of the thread, an entry and a watcher.           *)
Late(p, x, e, w) ==
  /\ p.at \in {"write", "flush"} /\ ~p.all /\ x >= p.x
  /\ e.event \in w.eflags

Settles(w, x, p, e) ==
  IF Late(p, x, e, w) THEN Accounts(w, 1) /\ w.due[Len(w.due)] = e.gid ELSE Accounts(w, 0)

(* The inductive invariant of the watchers, beside LogInv.                 *)
WatchInv ==
  /\ watchers \in [Slots -> Watching \cup {NoWatcher}]
  /\ pc.at = "flush" /\ ~pc.all => pc.x \in Live
  /\ \A x \in Live : Settles(watchers[x], x, pc, Entry)

(* The fields of a watcher. *)
LEMMA WatcherFields ==
  ASSUME NEW w \in Watching
  PROVE  /\ w # NoWatcher /\ w.eflags \in SUBSET Events /\ w.skipped \in Nat /\ w.failed_flush \in BOOLEAN
         /\ w.buf \in Buffers(LCell) /\ w.sent \in Seq(LCell) /\ w.due \in Seq(Nat)
  <1>1. w.id \in Clients
    BY DEF Watching
  <1>2. NoWatcher.id \notin Clients
    BY LoggerAssumption DEF NoWatcher
  <1> QED
    BY <1>1, <1>2 DEF Watching

(* An assignment to the buffer. *)
LEMMA SetBuf ==
  ASSUME NEW w \in Watching, NEW b \in Buffers(LCell), NEW r, r = [w EXCEPT !.buf = b]
  PROVE  /\ r \in Watching /\ r.buf = b /\ r.eflags = w.eflags /\ r.skipped = w.skipped
         /\ r.sent = w.sent /\ r.due = w.due
  BY Zenon DEF Watching

(* An assignment to the count. *)
LEMMA SetSkipped ==
  ASSUME NEW w \in Watching, NEW n \in Nat, NEW r, r = [w EXCEPT !.skipped = n]
  PROVE  /\ r \in Watching /\ r.skipped = n /\ r.buf = w.buf /\ r.eflags = w.eflags
         /\ r.sent = w.sent /\ r.due = w.due
  BY Zenon DEF Watching

(* An assignment to the flag of a failed flush. *)
LEMMA SetFailed ==
  ASSUME NEW w \in Watching, NEW f \in BOOLEAN, NEW r, r = [w EXCEPT !.failed_flush = f]
  PROVE  /\ r \in Watching /\ r.skipped = w.skipped /\ r.buf = w.buf /\ r.eflags = w.eflags
         /\ r.sent = w.sent /\ r.due = w.due
  BY Zenon DEF Watching

(* Cells of lines have sizes. *)
LEMMA LCellSized == Sized(LCell)
  BY DEF Sized, LCell

(* The stream of a watcher, and its lengths. *)
LEMMA StreamIs ==
  ASSUME NEW w \in Watching, BufOK(w.buf)
  PROVE  /\ w.sent \in Seq(LCell) /\ InOrder(w.buf) \in Seq(LCell) /\ Stream(w) \in Seq(LCell)
         /\ Seen(w) \in Seq(Nat) /\ Len(Seen(w)) \in Nat /\ Len(w.due) \in Nat
  <1>1. w.buf \in Buffers(LCell) /\ w.sent \in Seq(LCell) /\ w.due \in Seq(Nat)
    BY WatcherFields, Zenon
  <1>2. InOrder(w.buf) \in Seq(LCell)
    BY <1>1, InOrderIs, Zenon
  <1>3. Stream(w) \in Seq(LCell)
    BY <1>1, <1>2, ConcatIs, Zenon DEF Stream
  <1>4. Seen(w) \in Seq(Nat)
    BY <1>3, SpreadSeq, Zenon DEF Seen
  <1>5. \A s \in Seq(Nat) : Len(s) \in Nat
    OBVIOUS
  <1> QED
    BY <1>1, <1>2, <1>3, <1>4, <1>5, Zenon

(* A watcher with the same stream and the same counts accounts for as much. *)
LEMMA AccountsSame ==
  ASSUME NEW w, NEW k, Accounts(w, k), NEW r \in Watching, BufOK(r.buf), Stream(r) = Stream(w),
         r.skipped = w.skipped, r.due = w.due
  PROVE  Accounts(r, k)
  BY Zenon DEF Accounts, Seen

(* A line that fits ends the stream. *)
LEMMA WriteToIs ==
  ASSUME NEW w \in Watching, BufOK(w.buf), Whole(Stream(w)),
         NEW line \in Lines, NEW n \in Nat \ {0}, n <= bipbuf_unused(w.buf)
  PROVE  LET r == WriteTo(w, line, n)
         IN  /\ r \in Watching /\ BufOK(r.buf) /\ Whole(Stream(r))
             /\ Seen(r) = Seen(w) \o Stands(LineHead(line, n))
             /\ r.eflags = w.eflags /\ r.skipped = w.skipped /\ r.due = w.due
             /\ bipbuf_unused(w.buf) \in Int /\ bipbuf_unused(r.buf) \in Int
             /\ bipbuf_unused(w.buf) - n <= bipbuf_unused(r.buf)
  <1>1. PICK d : d = LineCells(line, n)
    BY Zenon
  <1>2. PICK b : b = w.buf
    BY Zenon
  <1>3. PICK c : c = bipbuf_offer(b, d)
    BY Zenon
  <1>4. PICK r : r = WriteTo(w, line, n)
    BY Zenon
  <1>5. d \in Seq(LCell) /\ Len(d) = n /\ Whole(d)
    BY <1>1, LineIs, Zenon
  <1>6. b \in Buffers(LCell) /\ BufOK(b) /\ w.sent \in Seq(LCell) /\ InOrder(b) \in Seq(LCell)
    BY <1>2, WatcherFields, StreamIs, Zenon
  <1>7. Len(d) <= bipbuf_unused(b)
    BY <1>2, <1>5, Zenon
  <1>8. c \in Buffers(LCell) /\ BufOK(c) /\ InOrder(c) = InOrder(b) \o d
    BY <1>3, <1>5, <1>6, <1>7, OfferIs, Zenon
  <1>9. /\ bipbuf_unused(b) \in Int /\ bipbuf_unused(c) \in Int
        /\ bipbuf_unused(b) - Len(d) <= bipbuf_unused(c)
    BY <1>3, <1>5, <1>6, <1>7, OfferRoom, Zenon
  <1>10. r = [w EXCEPT !.buf = c]
    BY <1>1, <1>2, <1>3, <1>4, Zenon DEF WriteTo
  <1>11. /\ r \in Watching /\ r.buf = c /\ r.eflags = w.eflags /\ r.skipped = w.skipped
         /\ r.sent = w.sent /\ r.due = w.due
    BY <1>8, <1>10, SetBuf
  <1>12. Stream(r) = Stream(w) \o d
    <2>1. PICK s \in Seq(LCell) : s = w.sent
      BY <1>6, Zenon
    <2>2. PICK t \in Seq(LCell) : t = InOrder(b)
      BY <1>6, Zenon
    <2>3. d \in Seq(LCell)
      BY <1>5
    <2>4. (s \o t) \o d = s \o (t \o d)
      BY <2>3, ConcatThree
    <2> QED
      BY <1>2, <1>8, <1>11, <2>1, <2>2, <2>4, Zenon DEF Stream
  <1>13. Stream(w) \in Seq(LCell)
    BY StreamIs, Zenon
  <1>14. Whole(Stream(r))
    BY <1>5, <1>12, <1>13, LCellSized, WholeConcat, Zenon
  <1>15. Seen(r) = Seen(w) \o Stands(LineHead(line, n))
    BY <1>1, <1>12, <1>13, SpreadLine, Zenon DEF Seen
  <1> QED
    BY <1>2, <1>4, <1>5, <1>8, <1>9, <1>11, <1>14, <1>15, Zenon

(* Entries, each there or counted: two runs of them in a row. *)
LEMMA SeenConcat ==
  ASSUME NEW s \in Seq(Nat), NEW z \in Seq(Nat), NEW due,
         \A i \in 1..Len(s) : s[i] \in {0, due[i]},
         \A j \in 1..Len(z) : z[j] \in {0, due[Len(s) + j]}
  PROVE  /\ Len(s \o z) = Len(s) + Len(z)
         /\ \A i \in 1..Len(s \o z) : (s \o z)[i] \in {0, due[i]}
  <1>1. PICK a \in Nat : a = Len(s)
    OBVIOUS
  <1>2. PICK b \in Nat : b = Len(z)
    OBVIOUS
  <1>3. PICK t : t = s \o z
    BY Zenon
  <1>4. Len(t) = a + b /\ \A i \in 1..(a + b) : t[i] = IF i <= a THEN s[i] ELSE z[i - a]
    BY <1>1, <1>2, <1>3, ConcatIs
  <1>5. ASSUME NEW i \in 1..(a + b) PROVE t[i] \in {0, due[i]}
    <2>1. CASE i <= a
      <3>1. i \in 1..a
        BY <2>1
      <3>2. t[i] = s[i]
        BY <1>4, <2>1, Zenon
      <3> QED
        BY <1>1, <3>1, <3>2, Zenon
    <2>2. CASE ~(i <= a)
      <3>1. i - a \in 1..b /\ a + (i - a) = i
        BY <2>2
      <3>2. t[i] = z[i - a]
        BY <1>4, <2>2, Zenon
      <3>3. z[i - a] \in {0, due[a + (i - a)]}
        BY <1>1, <1>2, <3>1, Zenon
      <3> QED
        BY <3>1, <3>2, <3>3, Zenon
    <2> QED
      BY <2>1, <2>2, Zenon
  <1> QED
    BY <1>1, <1>2, <1>3, <1>4, <1>5, Zenon

(* What the heads of the two kinds of line stand for. *)
LEMMA StandsFor ==
  ASSUME NEW k \in Nat, NEW n \in Nat \ {0}
  PROVE  /\ SkipLine(k) \in Lines /\ EntryLine(k) \in Lines
         /\ Stands(LineHead(SkipLine(k), n)) = [i \in 1..k |-> 0]
         /\ Stands(LineHead(EntryLine(k), n)) = <<k>>
  <1>1. SkipLine(k) \in Lines /\ EntryLine(k) \in Lines
    BY DEF SkipLine, EntryLine, Lines
  <1>2. /\ LineHead(SkipLine(k), n).cell = 1 /\ LineHead(SkipLine(k), n).line.kind = "skipped"
        /\ LineHead(SkipLine(k), n).line.n = k
    BY DEF LineHead, SkipLine
  <1>3. /\ LineHead(EntryLine(k), n).cell = 1 /\ LineHead(EntryLine(k), n).line.kind = "entry"
        /\ LineHead(EntryLine(k), n).line.n = k
    BY DEF LineHead, EntryLine
  <1>4. "skipped" # "ok" /\ "entry" # "ok" /\ "skipped" # "entry"
    OBVIOUS
  <1>5. Stands(LineHead(SkipLine(k), n)) = [i \in 1..k |-> 0]
    BY <1>2, <1>4, Zenon DEF Stands
  <1>6. Stands(LineHead(EntryLine(k), n)) = <<k>>
    BY <1>3, <1>4, Zenon DEF Stands
  <1> QED
    BY <1>1, <1>5, <1>6, Zenon

(* What Accounts says, in terms of the lengths. *)
LEMMA AccountsIs ==
  ASSUME NEW w, NEW k \in Nat, Accounts(w, k)
  PROVE  /\ w \in Watching /\ BufOK(w.buf) /\ Whole(Stream(w)) /\ Seen(w) \in Seq(Nat)
         /\ Len(Seen(w)) \in Nat /\ w.skipped \in Nat /\ w.due \in Seq(Nat) /\ Len(w.due) \in Nat
         /\ Len(Seen(w)) + w.skipped + k = Len(w.due)
         /\ \A i \in 1..Len(Seen(w)) : Seen(w)[i] \in {0, w.due[i]}
  <1>1. /\ w \in Watching /\ BufOK(w.buf) /\ Whole(Stream(w))
        /\ Len(Seen(w)) + w.skipped + k = Len(w.due)
        /\ \A i \in 1..Len(Seen(w)) : Seen(w)[i] \in {0, w.due[i]}
    BY Zenon DEF Accounts
  <1>2. Seen(w) \in Seq(Nat) /\ Len(Seen(w)) \in Nat /\ Len(w.due) \in Nat
    BY <1>1, StreamIs, Zenon
  <1>3. w.skipped \in Nat /\ w.due \in Seq(Nat)
    BY <1>1, WatcherFields, Zenon
  <1> QED
    BY <1>1, <1>2, <1>3, Zenon

(* An entry becomes due.                                                   *)
Owing(w, g) == [w EXCEPT !.due = Append(@, g)]

(* An entry that is skipped is counted. *)
LEMMA AccountsSkip ==
  ASSUME NEW w, Accounts(w, 1)
  PROVE  Accounts(Skipping(w), 0) /\ Skipping(w).eflags = w.eflags
  <1>1. /\ w \in Watching /\ BufOK(w.buf) /\ Whole(Stream(w)) /\ w.skipped \in Nat
        /\ Len(Seen(w)) \in Nat /\ Len(w.due) \in Nat /\ Len(Seen(w)) + w.skipped + 1 = Len(w.due)
        /\ \A i \in 1..Len(Seen(w)) : Seen(w)[i] \in {0, w.due[i]}
    BY AccountsIs
  <1>2. PICK n \in Nat : n = w.skipped + 1
    BY <1>1
  <1>3. PICK r : r = Skipping(w)
    BY Zenon
  <1>4. r = [w EXCEPT !.skipped = n]
    BY <1>2, <1>3 DEF Skipping
  <1>5. /\ r \in Watching /\ r.skipped = n /\ r.buf = w.buf /\ r.eflags = w.eflags
        /\ r.sent = w.sent /\ r.due = w.due
    BY <1>1, <1>4, SetSkipped
  <1>6. Stream(r) = Stream(w) /\ Seen(r) = Seen(w)
    BY <1>5, Zenon DEF Seen, Stream
  <1>7. Len(Seen(w)) + n + 0 = Len(w.due)
    BY <1>1, <1>2
  <1> QED
    BY <1>1, <1>5, <1>6, <1>7, <1>3, Zenon DEF Accounts

(* An entry to deal with is due. *)
LEMMA AccountsDue ==
  ASSUME NEW w, Accounts(w, 0), NEW g \in Nat
  PROVE  LET r == Owing(w, g) IN Accounts(r, 1) /\ r.eflags = w.eflags /\ r.due[Len(r.due)] = g
  <1>1. /\ w \in Watching /\ BufOK(w.buf) /\ Whole(Stream(w)) /\ w.skipped \in Nat /\ w.due \in Seq(Nat)
        /\ Len(Seen(w)) \in Nat /\ Len(w.due) \in Nat /\ Len(Seen(w)) + w.skipped + 0 = Len(w.due)
        /\ \A i \in 1..Len(Seen(w)) : Seen(w)[i] \in {0, w.due[i]}
    BY AccountsIs
  <1>2. PICK d : d = Append(w.due, g)
    BY Zenon
  <1>3. PICK u \in Seq(Nat) : u = w.due
    BY <1>1
  <1>4. /\ d \in Seq(Nat) /\ Len(d) = Len(u) + 1 /\ d[Len(u) + 1] = g
        /\ \A i \in 1..Len(u) : d[i] = u[i]
    BY <1>2, <1>3
  <1>5. PICK r : r = Owing(w, g)
    BY Zenon
  <1>6. r = [w EXCEPT !.due = d]
    BY <1>2, <1>5 DEF Owing
  <1>7. /\ r \in Watching /\ r.skipped = w.skipped /\ r.buf = w.buf /\ r.eflags = w.eflags
        /\ r.sent = w.sent /\ r.due = d
    <2>1. w \in Watching /\ d \in Seq(Nat)
      BY <1>1, <1>4
    <2> QED
      BY <1>6, <2>1, Zenon DEF Watching
  <1>8. Stream(r) = Stream(w) /\ Seen(r) = Seen(w)
    BY <1>7, Zenon DEF Seen, Stream
  <1>9. Len(Seen(w)) + w.skipped + 1 = Len(d) /\ \A i \in 1..Len(Seen(w)) : i \in 1..Len(u)
    BY <1>1, <1>3, <1>4, SMTT(30), Z3T(30)
  <1>10. \A i \in 1..Len(Seen(w)) : Seen(w)[i] \in {0, d[i]}
    BY <1>1, <1>3, <1>4, <1>9, Zenon
  <1>11. r.due[Len(r.due)] = g
    BY <1>4, <1>7
  <1> QED
    BY <1>1, <1>7, <1>8, <1>9, <1>10, <1>11, <1>5, ZenonT(30) DEF Accounts

(* A line for the entry, after one for the count if there is one. *)
LEMMA AccountsLine ==
  ASSUME NEW w, Accounts(w, 1), NEW g \in Nat, w.due[Len(w.due)] = g,
         bipbuf_request(w.buf, LineLen + SkipLen), NEW r, r = WithLine(w, g)
  PROVE  Accounts(r, 0) /\ r.eflags = w.eflags
  <1>1. /\ w \in Watching /\ BufOK(w.buf) /\ Whole(Stream(w)) /\ Seen(w) \in Seq(Nat)
        /\ Len(Seen(w)) \in Nat /\ w.skipped \in Nat /\ w.due \in Seq(Nat) /\ Len(w.due) \in Nat
        /\ Len(Seen(w)) + w.skipped + 1 = Len(w.due)
        /\ \A i \in 1..Len(Seen(w)) : Seen(w)[i] \in {0, w.due[i]}
    BY AccountsIs
  <1>2. LineLen \in Nat \ {0} /\ SkipLen \in Nat \ {0}
    BY LoggerAssumption
  <1>3. LineLen + SkipLen <= bipbuf_unused(w.buf) /\ bipbuf_unused(w.buf) \in Int
    <2>1. w.buf \in Buffers(LCell)
      BY <1>1, WatcherFields, Zenon
    <2>2. /\ w.buf.size \in Nat /\ w.buf.a_start \in Nat /\ w.buf.a_end \in Nat /\ w.buf.b_end \in Nat
      BY <2>1, Fields, Zenon
    <2>3. bipbuf_unused(w.buf) \in Int
      BY <2>2, SMTT(30), Z3T(30) DEF bipbuf_unused
    <2> QED
      BY <1>2, <2>3 DEF bipbuf_request
  <1> DEFINE k == w.skipped
             v == IF k > 0 THEN [WriteTo(w, SkipLine(k), SkipLen) EXCEPT !.skipped = 0] ELSE w
  <1>4. /\ v \in Watching /\ BufOK(v.buf) /\ Whole(Stream(v)) /\ Seen(v) \in Seq(Nat)
        /\ v.eflags = w.eflags /\ v.due = w.due /\ v.skipped = 0
        /\ Len(Seen(v)) = Len(Seen(w)) + k
        /\ \A i \in 1..Len(Seen(v)) : Seen(v)[i] \in {0, w.due[i]}
        /\ LineLen <= bipbuf_unused(v.buf)
    <2>1. CASE ~(k > 0)
      <3>1. v = w /\ k = 0 /\ Len(Seen(w)) = Len(Seen(w)) + k /\ LineLen <= bipbuf_unused(w.buf)
        BY <1>1, <1>2, <1>3, <2>1, SMTT(30), Z3T(30)
      <3> QED
        BY <1>1, <3>1, Zenon
    <2>2. CASE k > 0
      <3>1. PICK t : t = WriteTo(w, SkipLine(k), SkipLen)
        BY Zenon
      <3>2. SkipLen <= bipbuf_unused(w.buf) /\ k \in Nat
        BY <1>1, <1>2, <1>3
      <3>3. SkipLine(k) \in Lines /\ Stands(LineHead(SkipLine(k), SkipLen)) = [i \in 1..k |-> 0]
        BY <1>2, <3>2, StandsFor, Zenon
      <3>4. /\ t \in Watching /\ BufOK(t.buf) /\ Whole(Stream(t))
            /\ Seen(t) = Seen(w) \o Stands(LineHead(SkipLine(k), SkipLen))
            /\ t.eflags = w.eflags /\ t.skipped = w.skipped /\ t.due = w.due
            /\ bipbuf_unused(w.buf) \in Int /\ bipbuf_unused(t.buf) \in Int
            /\ bipbuf_unused(w.buf) - SkipLen <= bipbuf_unused(t.buf)
        BY <1>1, <1>2, <3>1, <3>2, <3>3, WriteToIs, Zenon
      <3>5. v = [t EXCEPT !.skipped = 0]
        BY <2>2, <3>1, Zenon
      <3> HIDE DEF v
      <3>6. /\ v \in Watching /\ v.skipped = 0 /\ v.buf = t.buf /\ v.eflags = t.eflags
            /\ v.sent = t.sent /\ v.due = t.due
        <4>1. t \in Watching /\ 0 \in Nat
          BY <3>4
        <4> QED
          BY <3>5, <4>1, SetSkipped, SMTT(30), Z3T(30)
      <3>7. Stream(v) = Stream(t) /\ Seen(v) = Seen(t)
        BY <3>6, Zenon DEF Seen, Stream
      <3>8. LineLen <= bipbuf_unused(t.buf)
        BY <1>2, <1>3, <3>4
      <3>9. PICK z : z = [i \in 1..k |-> 0]
        BY Zenon
      <3>10. z \in Seq(Nat) /\ Len(z) = k /\ \A i \in 1..Len(z) : z[i] = 0
        <4>1. PICK m \in Nat : m = k
          BY <3>2
        <4>2. z = [i \in 1..m |-> 0]
          BY <3>9, <4>1
        <4>3. z \in Seq(Nat) /\ Len(z) = m /\ \A i \in 1..m : z[i] = 0
          BY <4>2
        <4> QED
          BY <4>1, <4>3, Zenon
      <3>11. Seen(v) = Seen(w) \o z
        BY <3>3, <3>4, <3>7, <3>9, Zenon
      <3>12. \A j \in 1..Len(z) : z[j] \in {0, w.due[Len(Seen(w)) + j]}
        BY <3>10, Zenon
      <3>13. /\ Len(Seen(w) \o z) = Len(Seen(w)) + Len(z)
             /\ \A i \in 1..Len(Seen(w) \o z) : (Seen(w) \o z)[i] \in {0, w.due[i]}
        BY <1>1, <3>10, <3>12, SeenConcat, Zenon
      <3>14. Seen(v) \in Seq(Nat)
        BY <1>1, <3>10, <3>11, ConcatIs, Zenon
      <3> QED
        BY <3>4, <3>6, <3>7, <3>8, <3>10, <3>11, <3>13, <3>14, Zenon
    <2> QED
      BY <2>1, <2>2, Zenon
  <1>5. r = WriteTo(v, EntryLine(g), LineLen)
    BY Zenon DEF WithLine
  <1> HIDE DEF v
  <1>6. EntryLine(g) \in Lines /\ Stands(LineHead(EntryLine(g), LineLen)) = <<g>>
    BY <1>2, StandsFor, Zenon
  <1>7. /\ r \in Watching /\ BufOK(r.buf) /\ Whole(Stream(r))
        /\ Seen(r) = Seen(v) \o Stands(LineHead(EntryLine(g), LineLen))
        /\ r.eflags = v.eflags /\ r.skipped = v.skipped /\ r.due = v.due
        /\ bipbuf_unused(v.buf) \in Int /\ bipbuf_unused(r.buf) \in Int
        /\ bipbuf_unused(v.buf) - LineLen <= bipbuf_unused(r.buf)
    <2>1. v \in Watching /\ BufOK(v.buf) /\ Whole(Stream(v)) /\ LineLen <= bipbuf_unused(v.buf)
      BY <1>4
    <2>2. EntryLine(g) \in Lines /\ LineLen \in Nat \ {0}
      BY <1>2, <1>6
    <2>3. PICK q : q = WriteTo(v, EntryLine(g), LineLen)
      BY Zenon
    <2>4. /\ q \in Watching /\ BufOK(q.buf) /\ Whole(Stream(q))
          /\ Seen(q) = Seen(v) \o Stands(LineHead(EntryLine(g), LineLen))
          /\ q.eflags = v.eflags /\ q.skipped = v.skipped /\ q.due = v.due
          /\ bipbuf_unused(v.buf) \in Int /\ bipbuf_unused(q.buf) \in Int
          /\ bipbuf_unused(v.buf) - LineLen <= bipbuf_unused(q.buf)
      BY <2>1, <2>2, <2>3, WriteToIs, Zenon
    <2> QED
      BY <1>5, <2>3, <2>4, Zenon
  <1>8. PICK z : z = <<g>>
    BY Zenon
  <1>9. z \in Seq(Nat) /\ Len(z) = 1 /\ \A i \in 1..Len(z) : i = 1 /\ z[i] = g
    BY <1>8
  <1>10. Seen(r) = Seen(v) \o z
    BY <1>6, <1>7, <1>8, Zenon
  <1>11. Len(Seen(v)) + 1 = Len(w.due) /\ Len(Seen(v)) \in Nat
    BY <1>1, <1>4
  <1>12. \A j \in 1..Len(z) : z[j] \in {0, w.due[Len(Seen(v)) + j]}
    BY <1>9, <1>11, Zenon
  <1>13. /\ Len(Seen(v) \o z) = Len(Seen(v)) + Len(z)
         /\ \A i \in 1..Len(Seen(v) \o z) : (Seen(v) \o z)[i] \in {0, w.due[i]}
    BY <1>4, <1>9, <1>12, SeenConcat, Zenon
  <1>14. Len(Seen(r)) + r.skipped + 0 = Len(r.due)
    <2>1. Len(Seen(r)) = Len(Seen(v)) + 1 /\ r.skipped = 0 /\ r.due = w.due
      BY <1>4, <1>7, <1>9, <1>10, <1>13, Zenon
    <2> QED
      BY <1>11, <2>1
  <1>15. r.due = w.due /\ r.eflags = w.eflags
    BY <1>4, <1>7, Zenon
  <1>16. \A i \in 1..Len(Seen(r)) : Seen(r)[i] \in {0, r.due[i]}
    BY <1>10, <1>13, <1>15, Zenon
  <1> QED
    BY <1>7, <1>14, <1>15, <1>16, Zenon DEF Accounts

(* What a socket takes, the watcher still has. *)
LEMMA AccountsFlush ==
  ASSUME NEW w, NEW k \in Nat, Accounts(w, k), NEW n \in 0..ALen(w.buf)
  PROVE  LET r == Sending(w, n) IN Accounts(r, k) /\ r.eflags = w.eflags /\ r.due = w.due
  <1>1. w \in Watching /\ BufOK(w.buf)
    BY AccountsIs, Zenon
  <1>2. w.buf \in Buffers(LCell) /\ w.sent \in Seq(LCell)
    BY <1>1, WatcherFields, Zenon
  <1>3. PICK b \in Buffers(LCell) : b = bipbuf_poll(w.buf, n) /\ BufOK(b)
    BY <1>1, <1>2, PollIs, Zenon
  <1>4. PICK s \in Seq(LCell) : /\ s = w.sent \o SubSeq(bipbuf_peek_all(w.buf), 1, n)
                                /\ s \o InOrder(b) = w.sent \o InOrder(w.buf)
    BY <1>1, <1>2, <1>3, PollStream, Zenon
  <1>5. PICK r : r = Sending(w, n)
    BY Zenon
  <1>6. r = [w EXCEPT !.sent = s, !.buf = b]
    BY <1>3, <1>4, <1>5, Zenon DEF Sending
  <1>7. /\ r \in Watching /\ r.skipped = w.skipped /\ r.buf = b /\ r.eflags = w.eflags
        /\ r.sent = s /\ r.due = w.due
    BY <1>1, <1>6, Zenon DEF Watching
  <1>8. Stream(r) = Stream(w)
    BY <1>4, <1>7, Zenon DEF Stream
  <1> QED
    BY <1>3, <1>7, <1>8, <1>5, AccountsSame, Zenon

(* A new watcher has nothing due, and at most its greeting. *)
LEMMA AccountsNew ==
  ASSUME NEW c \in Clients, NEW f \in SUBSET Events,
         NEW w, w = [id |-> c, eflags |-> f, skipped |-> 0, failed_flush |-> FALSE,
                     buf |-> bipbuf_offer(bipbuf_new(logger_watcher_buf_size), LineCells(OkLine, 1)),
                     sent |-> <<>>, due |-> <<>>]
  PROVE  Accounts(w, 0)
  <1>1. logger_watcher_buf_size \in Nat
    BY LoggerAssumption
  <1>2. PICK b : b = bipbuf_new(logger_watcher_buf_size)
    BY Zenon
  <1>3. /\ b \in Buffers(LCell) /\ BufOK(b) /\ InOrder(b) = <<>> /\ Whole(InOrder(b))
    BY <1>1, <1>2, NewIs, Zenon
  <1>4. PICK v : v = [id |-> c, eflags |-> f, skipped |-> 0, failed_flush |-> FALSE,
                      buf |-> b, sent |-> <<>>, due |-> <<>>]
    BY Zenon
  <1>5. v \in Watching /\ v.buf = b /\ v.sent = <<>> /\ v.due = <<>> /\ v.skipped = 0
    <2>1. <<>> \in Seq(LCell) /\ <<>> \in Seq(Nat) /\ 0 \in Nat /\ FALSE \in BOOLEAN
      OBVIOUS
    <2>2. b \in Buffers(LCell)
      BY <1>3
    <2> QED
      BY <1>4, <2>1, <2>2, Zenon DEF Watching
  <1>6. Stream(v) = <<>> /\ Seen(v) = <<>> /\ Whole(Stream(v))
    <2>1. <<>> \o <<>> = <<>>
      OBVIOUS
    <2>2. Stream(v) = <<>>
      BY <1>3, <1>5, <2>1, Zenon DEF Stream
    <2> QED
      BY <1>3, <2>2, SpreadEmpty, Zenon DEF Seen
  <1>7. Len(<<>>) = 0 /\ Len(<<>>) + 0 + 0 = Len(<<>>) /\ 1..0 = {}
    OBVIOUS
  <1>8. ASSUME NEW r \in Watching, BufOK(r.buf), Whole(Stream(r)), Seen(r) = <<>>, r.skipped = 0, r.due = <<>>
        PROVE  Accounts(r, 0)
    BY <1>7, <1>8, Zenon DEF Accounts
  <1>9. PICK d : d = LineCells(OkLine, 1)
    BY Zenon
  <1>10. OkLine \in Lines /\ Stands(LineHead(OkLine, 1)) = <<>> /\ 1 \in Nat \ {0}
    <2>1. OkLine \in Lines
      BY DEF OkLine, Lines
    <2>2. LineHead(OkLine, 1).line.kind = "ok"
      BY DEF LineHead, OkLine
    <2> QED
      BY <2>1, <2>2, SMTT(30), Z3T(30) DEF Stands
  <1>11. Len(d) = 1
    BY <1>9, <1>10, LineIs, Zenon
  <1>12. CASE 1 <= bipbuf_unused(b)
    <2>1. w = WriteTo(v, OkLine, 1)
      <3>1. WriteTo(v, OkLine, 1) = [v EXCEPT !.buf = bipbuf_offer(b, d)]
        BY <1>5, <1>9, Zenon DEF WriteTo
      <3>2. w = [id |-> c, eflags |-> f, skipped |-> 0, failed_flush |-> FALSE,
                 buf |-> bipbuf_offer(b, d), sent |-> <<>>, due |-> <<>>]
        BY <1>2, <1>9, Zenon
      <3> QED
        BY <1>4, <3>1, <3>2, Zenon
    <2>2. /\ w \in Watching /\ BufOK(w.buf) /\ Whole(Stream(w))
          /\ Seen(w) = Seen(v) \o Stands(LineHead(OkLine, 1))
          /\ w.eflags = v.eflags /\ w.skipped = v.skipped /\ w.due = v.due
          /\ bipbuf_unused(v.buf) \in Int /\ bipbuf_unused(w.buf) \in Int
          /\ bipbuf_unused(v.buf) - 1 <= bipbuf_unused(w.buf)
      <3>1. v \in Watching /\ BufOK(v.buf) /\ Whole(Stream(v)) /\ 1 <= bipbuf_unused(v.buf)
        BY <1>3, <1>5, <1>6, <1>12, Zenon
      <3>2. OkLine \in Lines /\ 1 \in Nat \ {0}
        BY <1>10
      <3>3. PICK q : q = WriteTo(v, OkLine, 1)
        BY Zenon
      <3>4. /\ q \in Watching /\ BufOK(q.buf) /\ Whole(Stream(q))
            /\ Seen(q) = Seen(v) \o Stands(LineHead(OkLine, 1))
            /\ q.eflags = v.eflags /\ q.skipped = v.skipped /\ q.due = v.due
            /\ bipbuf_unused(v.buf) \in Int /\ bipbuf_unused(q.buf) \in Int
            /\ bipbuf_unused(v.buf) - 1 <= bipbuf_unused(q.buf)
        BY <3>1, <3>2, <3>3, WriteToIs, Zenon
      <3> QED
        BY <2>1, <3>3, <3>4, Zenon
    <2>3. <<>> \o <<>> = <<>>
      OBVIOUS
    <2> QED
      BY <1>5, <1>6, <1>8, <1>10, <2>2, <2>3, Zenon
  <1>13. CASE ~(1 <= bipbuf_unused(b))
    <2>1. bipbuf_unused(b) < Len(d)
      <3>1. b.size \in Nat /\ b.a_start \in Nat /\ b.a_end \in Nat /\ b.b_end \in Nat
        BY <1>3, Fields, Zenon
      <3>2. bipbuf_unused(b) \in Int
        BY <3>1 DEF bipbuf_unused
      <3> QED
        BY <1>11, <1>13, <3>2
    <2>2. w = v
      <3>1. bipbuf_offer(b, d) = b
        BY <2>1, Zenon DEF bipbuf_offer
      <3> QED
        BY <1>2, <1>4, <1>9, <3>1, Zenon
    <2> QED
      BY <1>3, <1>5, <1>6, <1>8, <2>2, Zenon
  <1> QED
    BY <1>12, <1>13

-----------------------------------------------------------------------------
(* The thread is about to deal with an entry, watcher by watcher.          *)
Writing(p) == p.at \in {"write", "flush"} /\ ~p.all

(* The slots that are taken. *)
LEMMA LiveIs ==
  /\ \A x : x \in Live <=> x \in Slots /\ watchers[x] # NoWatcher
  /\ \A x : x \in Live' <=> x \in Slots /\ watchers'[x] # NoWatcher
  BY Zenon DEF Live

(* Before and after that, everyone's lines account for all that was due. *)
LEMMA Rested ==
  ASSUME watchers' \in [Slots -> Watching \cup {NoWatcher}], ~Writing(pc'),
         \A x \in Slots : watchers'[x] # NoWatcher => Accounts(watchers'[x], 0)
  PROVE  WatchInv'
  <1>1. pc'.at = "flush" /\ ~pc'.all => pc'.x \in Live'
    BY DEF Writing
  <1>2. \A x \in Live' : Settles(watchers'[x], x, pc', Entry')
    BY LiveIs, Zenon DEF Settles, Late, Writing
  <1> QED
    BY <1>1, <1>2, Zenon DEF WatchInv

(* The same, from the invariant. *)
LEMMA AllSettled ==
  ASSUME WatchInv, ~Writing(pc)
  PROVE  \A x \in Slots : watchers[x] # NoWatcher => Accounts(watchers[x], 0)
  BY LiveIs, Zenon DEF WatchInv, Settles, Late, Writing

(* A watcher that keeps what it accounts for, at a place like the last. *)
LEMMA SettlesKept ==
  ASSUME NEW w, NEW r, NEW x, NEW p, NEW q, NEW e, Settles(w, x, p, e),
         r.eflags = w.eflags, r.due = w.due, Accounts(w, 0) => Accounts(r, 0), Accounts(w, 1) => Accounts(r, 1),
         Writing(p) <=> Writing(q), q.x = p.x
  PROVE  Settles(r, x, q, e)
  <1>1. Late(p, x, e, w) <=> Late(q, x, e, r)
    BY Zenon DEF Late, Writing
  <1> QED
    BY <1>1, Zenon DEF Settles

(* The entry the thread is at is an entry. *)
LEMMA EntryCell ==
  ASSUME LogInv, InRead(pc), pc.pos < pc.size
  PROVE  Entry \in ECell
  <1>1. /\ pc \in Pcs /\ pc.l >= 1 /\ pc.l <= Len(Writers)
        /\ \A w \in Range(Writers) : WorkerInv(w, buf[w], unread[w], pc)
    BY Zenon DEF LogInv
  <1>2. pc.l \in Nat /\ pc.pos \in Nat /\ pc.size \in Nat
    BY <1>1, PcFields, Zenon
  <1>3. Cur \in Range(Writers)
    BY <1>1, <1>2, CurIs, Zenon
  <1>4. Reads(pc, Cur)
    BY Zenon DEF Reads, Cur
  <1>5. PICK b : b = buf[Cur]
    BY Zenon
  <1>6. BufInv(b) /\ PlaceInv(b, pc)
    BY <1>1, <1>3, <1>4, <1>5, Zenon DEF WorkerInv
  <1>7. EntryAt(b, pc.pos) = InOrder(b)[pc.pos + 1]
    BY <1>1, <1>6, EntryIs, Zenon
  <1>8. b \in Buffers(ECell) /\ BufOK(b) /\ pc.size <= ALen(b)
    BY <1>6, Zenon DEF BufInv, PlaceInv
  <1>9. InOrder(b) \in Seq(ECell) /\ Len(InOrder(b)) = ALen(b) + b.b_end /\ ALen(b) \in Nat /\ b.b_end \in Nat
    BY <1>8, Fields, InOrderIs, Zenon
  <1>10. pc.pos + 1 \in 1..Len(InOrder(b))
    BY <1>2, <1>8, <1>9
  <1>11. InOrder(b)[pc.pos + 1] \in ECell
    BY <1>9, <1>10
  <1> QED
    BY <1>5, <1>7, <1>11, Zenon DEF Entry, EntryAt

(* A worker that logs leaves the entry the thread is at. *)
LEMMA LogKeepsEntry ==
  ASSUME LogInv, Writing(pc), NEW w \in Range(Writers), NEW e \in Events, NEW n \in 1..ReqLen, logger_log(w, e, n)
  PROVE  Entry' = Entry
  <1>1. /\ buf \in [Range(Writers) -> Buffers(ECell)] /\ gid \in Nat
        /\ pc \in Pcs /\ pc.l >= 1 /\ (InRead(pc) => pc.l <= Len(Writers))
        /\ \A v \in Range(Writers) : WorkerInv(v, buf[v], unread[v], pc)
    BY Zenon DEF LogInv
  <1>2. InRead(pc) /\ pc.at # "entry"
    BY DEF Writing, InRead
  <1>3. pc' = pc
    BY Zenon DEF logger_log
  <1>4. Entry = EntryAt(buf[Cur], pc.pos) /\ Entry' = EntryAt(buf'[Cur], pc.pos)
    BY <1>3, Zenon DEF Entry, EntryAt, Cur
  <1>5. CASE ~bipbuf_request(buf[w], ReqLen) \/ Cur # w
    <2>1. buf'[Cur] = buf[Cur]
      <3>1. CASE ~bipbuf_request(buf[w], ReqLen)
        BY <3>1, Zenon DEF logger_log
      <3>2. CASE bipbuf_request(buf[w], ReqLen) /\ Cur # w
        <4>1. PICK c : buf' = [buf EXCEPT ![w] = c]
          BY <3>2, Zenon DEF logger_log
        <4>2. pc.l \in Nat
          BY <1>1, PcFields, Zenon
        <4>3. Cur \in Range(Writers)
          BY <1>1, <1>2, <4>2, CurIs, Zenon
        <4> QED
          BY <1>1, <3>2, <4>1, <4>3
      <3> QED
        BY <1>5, <3>1, <3>2
    <2> QED
      BY <1>4, <2>1, Zenon
  <1>6. CASE bipbuf_request(buf[w], ReqLen) /\ Cur = w
    <2>1. PICK d : d = EntryCells(gid + 1, e, n)
      BY Zenon
    <2>2. buf'[w] = bipbuf_offer(buf[w], d)
      BY <1>1, <1>6, <2>1, ZenonT(30) DEF logger_log
    <2>3. gid + 1 \in Nat /\ n \in Nat \ {0} /\ ReqLen \in Nat /\ n <= ReqLen
      BY <1>1, LoggerAssumption, SMTT(30), Z3T(30)
    <2>4. d \in Seq(ECell) /\ Len(d) = n
      BY <2>1, <2>3, WholeEntry, Zenon
    <2>5. BufInv(buf[w]) /\ PlaceInv(buf[w], pc)
      BY <1>1, <1>2, <1>6, Zenon DEF WorkerInv, Reads, Cur
    <2>6. PICK b \in Buffers(ECell) : b = buf[w] /\ BufOK(b)
      BY <2>5, Zenon DEF BufInv
    <2>7. pc.pos \in Nat /\ pc.size \in Nat /\ ALen(b) \in Nat /\ bipbuf_unused(b) \in Int
      <3>1. b.size \in Nat /\ b.a_start \in Nat /\ b.a_end \in Nat /\ b.b_end \in Nat /\ ALen(b) \in Nat
        BY <2>6, Fields, InOrderIs, Zenon
      <3>2. bipbuf_unused(b) \in Int
        BY <3>1 DEF bipbuf_unused
      <3> QED
        BY <1>1, <3>1, <3>2, PcFields, Zenon
    <2>8. pc.size <= ALen(b) /\ pc.pos < pc.size
      BY <1>2, <2>5, <2>6, Zenon DEF PlaceInv
    <2>9. bipbuf_unused(b) >= ReqLen
      BY <1>6, <2>6, Zenon DEF bipbuf_request
    <2>10. pc.pos < ALen(b) /\ Len(d) <= bipbuf_unused(b)
      BY <2>3, <2>4, <2>7, <2>8, <2>9, SMTT(30), Z3T(30)
    <2>11. EntryAt(bipbuf_offer(b, d), pc.pos) = EntryAt(b, pc.pos)
      BY <2>4, <2>6, <2>7, <2>10, OfferKeepsEntry, Zenon
    <2> QED
      BY <1>4, <1>6, <2>2, <2>6, <2>11, Zenon
  <1> QED
    BY <1>5, <1>6

-----------------------------------------------------------------------------
(* WatchInv holds at the start. *)
LEMMA WatchInvInit ==
  LInit => WatchInv
  <1> SUFFICES ASSUME LInit PROVE WatchInv
    OBVIOUS
  <1>1. watchers = [x \in Slots |-> NoWatcher] /\ pc.at = "sleep"
    BY DEF LInit, Sleeping
  <1>2. Live = {}
    BY <1>1, Zenon DEF Live
  <1>3. "sleep" # "flush"
    OBVIOUS
  <1> QED
    BY <1>1, <1>2, <1>3, Zenon DEF WatchInv

(* A worker logs. *)
LEMMA WatchInvLog ==
  ASSUME LogInv, WatchInv, NEW w \in Range(Writers), NEW e \in Events, NEW n \in 1..ReqLen, logger_log(w, e, n)
  PROVE  WatchInv'
  <1>1. watchers' = watchers /\ pc' = pc
    BY Zenon DEF logger_log
  <1>2. CASE Writing(pc)
    <2>1. Entry' = Entry
      BY <1>2, LogKeepsEntry, Zenon
    <2>2. Live' = Live
      BY <1>1, Zenon DEF Live
    <2> QED
      BY <1>1, <2>1, <2>2, Zenon DEF WatchInv
  <1>3. CASE ~Writing(pc)
    <2>1. \A x \in Slots : watchers[x] # NoWatcher => Accounts(watchers[x], 0)
      BY <1>3, AllSettled, Zenon
    <2>2. watchers \in [Slots -> Watching \cup {NoWatcher}]
      BY Zenon DEF WatchInv
    <2> QED
      BY <1>1, <1>3, <2>1, <2>2, Rested, Zenon
  <1> QED
    BY <1>2, <1>3

(* A client becomes a watcher. *)
LEMMA WatchInvAdd ==
  ASSUME WatchInv, NEW c \in Clients, NEW f \in SUBSET Events, logger_add_watcher(c, f)
  PROVE  WatchInv'
  <1>1. PICK w : w = [id |-> c, eflags |-> f, skipped |-> 0, failed_flush |-> FALSE,
                      buf |-> bipbuf_offer(bipbuf_new(logger_watcher_buf_size), LineCells(OkLine, 1)),
                      sent |-> <<>>, due |-> <<>>]
    BY Zenon
  <1>2. Accounts(w, 0) /\ w \in Watching
    <2>1. Accounts(w, 0)
      BY <1>1, AccountsNew, Zenon
    <2> QED
      BY <2>1, Zenon DEF Accounts
  <1>3. PICK x : watchers' = [watchers EXCEPT ![x] = w]
    BY <1>1, Zenon DEF logger_add_watcher
  <1>4. pc' = pc /\ pc.at = "sleep"
    BY Zenon DEF logger_add_watcher
  <1>5. ~Writing(pc) /\ ~Writing(pc')
    BY <1>4 DEF Writing
  <1>6. watchers \in [Slots -> Watching \cup {NoWatcher}]
    BY Zenon DEF WatchInv
  <1>7. /\ watchers' \in [Slots -> Watching \cup {NoWatcher}]
        /\ \A y \in Slots : watchers'[y] = watchers[y] \/ watchers'[y] = w
    BY <1>2, <1>3, <1>6, Zenon
  <1>8. \A y \in Slots : watchers[y] # NoWatcher => Accounts(watchers[y], 0)
    BY <1>5, AllSettled, Zenon
  <1> QED
    BY <1>2, <1>5, <1>7, <1>8, Rested, Zenon

(* The thread wakes up, looks at a buffer, gives it up, or has dealt with  *)
(* an entry.                                                               *)
LEMMA WatchInvOff ==
  ASSUME LogInv, WatchInv, Wake \/ logger_thread_read \/ Advance \/ EntryDone
  PROVE  WatchInv'
  <1>1. pc \in Pcs /\ (pc.all => pc.at = "flush")
    BY Zenon DEF LogInv
  <1>2. watchers' = watchers
    BY Zenon DEF Wake, logger_thread_read, Advance, EntryDone
  <1>3. pc'.at \in {"read", "entry"}
    <2>1. CASE Wake
      BY <2>1, Zenon DEF Wake, Sleeping
    <2>2. CASE logger_thread_read
      <3>1. pc.at = "read"
        BY <2>2, Zenon DEF logger_thread_read
      <3>2. CASE bipbuf_is_empty(buf[Cur])
        <4>1. pc' = [pc EXCEPT !.l = @ + 1]
          BY <2>2, <3>2, Zenon DEF logger_thread_read
        <4> QED
          BY <1>1, <3>1, <4>1, Zenon DEF Pcs
      <3>3. CASE ~bipbuf_is_empty(buf[Cur])
        <4>1. PICK k : pc' = [pc EXCEPT !.at = "entry", !.size = k, !.pos = 0]
          BY <2>2, <3>3, Zenon DEF logger_thread_read
        <4> QED
          BY <1>1, <4>1, Zenon DEF Pcs
      <3> QED
        BY <3>2, <3>3
    <2>3. CASE Advance
      <3>1. PICK k : pc' = [pc EXCEPT !.at = "read", !.l = k]
        BY <2>3, Zenon DEF Advance
      <3> QED
        BY <1>1, <3>1, Zenon DEF Pcs
    <2>4. CASE EntryDone
      <3>1. PICK k : pc' = [pc EXCEPT !.at = "entry", !.pos = k]
        BY <2>4, Zenon DEF EntryDone
      <3> QED
        BY <1>1, <3>1, Zenon DEF Pcs
    <2> QED
      BY <2>1, <2>2, <2>3, <2>4
  <1>4. ~Writing(pc')
    BY <1>3 DEF Writing
  <1>5. \A x \in Slots : watchers[x] # NoWatcher => Accounts(watchers[x], 0)
    <2>1. CASE ~Writing(pc)
      BY <2>1, AllSettled, Zenon
    <2>2. CASE Writing(pc)
      <3>1. pc.x = WATCHER_LIMIT
        <4>1. ~Wake /\ ~logger_thread_read /\ ~Advance
          BY <2>2 DEF Writing, Wake, logger_thread_read, Advance
        <4> QED
          BY <4>1, Zenon DEF EntryDone
      <3>2. \A x \in Slots : ~(x >= pc.x)
        BY <3>1, LoggerAssumption DEF Slots
      <3> QED
        BY <3>2, LiveIs, Zenon DEF WatchInv, Settles, Late
    <2> QED
      BY <2>1, <2>2
  <1>6. watchers \in [Slots -> Watching \cup {NoWatcher}]
    BY Zenon DEF WatchInv
  <1> QED
    BY <1>2, <1>4, <1>5, <1>6, Rested, Zenon

(* An entry is due to the watchers that asked for its kind. *)
LEMMA WatchInvNext ==
  ASSUME LogInv, WatchInv, NextEntry
  PROVE  WatchInv'
  <1>1. pc \in Pcs /\ (pc.all => pc.at = "flush")
    BY Zenon DEF LogInv
  <1>2. pc.at = "entry" /\ pc.pos < pc.size /\ pc' = [pc EXCEPT !.at = "write", !.x = 0] /\ buf' = buf
    BY Zenon DEF NextEntry
  <1>3. pc'.at = "write" /\ pc'.x = 0 /\ pc'.all = pc.all /\ pc'.l = pc.l /\ pc'.pos = pc.pos
    BY <1>1, <1>2, Zenon DEF Pcs
  <1>4. InRead(pc) /\ ~Writing(pc)
    BY <1>1, <1>2 DEF InRead, Writing
  <1>5. Entry' = Entry
    BY <1>2, <1>3, Zenon DEF Entry, Cur
  <1>6. PICK e \in ECell : e = Entry
    BY <1>2, <1>4, EntryCell, Zenon
  <1>7. e.gid \in Nat
    BY DEF ECell
  <1>8. \A x \in Slots : watchers[x] # NoWatcher => Accounts(watchers[x], 0)
    BY <1>4, AllSettled, Zenon
  <1>9. watchers \in [Slots -> Watching \cup {NoWatcher}]
    BY Zenon DEF WatchInv
  <1>10. watchers' = [x \in Slots |->
           IF x \in Live /\ e.event \in watchers[x].eflags
           THEN [watchers[x] EXCEPT !.due = Append(@, e.gid)] ELSE watchers[x]]
    BY <1>6, Zenon DEF NextEntry
  <1>11. ASSUME NEW x \in Slots
         PROVE  /\ watchers'[x] \in Watching \cup {NoWatcher}
                /\ x \in Live' => x \in Live /\ Settles(watchers'[x], x, pc', e)
    <2>1. CASE x \in Live /\ e.event \in watchers[x].eflags
      <3>1. PICK w : w = watchers[x] /\ Accounts(w, 0)
        BY <1>8, <2>1, LiveIs, Zenon
      <3>2. PICK r : r = watchers'[x] /\ r = Owing(w, e.gid)
        BY <1>10, <2>1, <3>1, Zenon DEF Owing
      <3>3. Accounts(r, 1) /\ r.due[Len(r.due)] = e.gid /\ r.eflags = w.eflags
        <4>1. Accounts(w, 0)
          BY <3>1, Zenon
        <4>2. LET q == Owing(w, e.gid) IN Accounts(q, 1) /\ q.eflags = w.eflags /\ q.due[Len(q.due)] = e.gid
          BY <1>7, <4>1, AccountsDue, Zenon
        <4> QED
          BY <3>2, <4>2, Zenon
      <3>4. r \in Watching
        BY <3>3, Zenon DEF Accounts
      <3>5. Late(pc', x, e, r)
        <4>1. x >= pc'.x
          BY <1>3, LoggerAssumption DEF Slots
        <4>2. pc'.at \in {"write", "flush"} /\ ~pc'.all
          BY <1>1, <1>2, <1>3
        <4> QED
          BY <2>1, <3>1, <3>3, <4>1, <4>2, Zenon DEF Late
      <3> QED
        BY <2>1, <3>2, <3>3, <3>4, <3>5, Zenon DEF Settles
    <2>2. CASE ~(x \in Live /\ e.event \in watchers[x].eflags)
      <3>1. watchers'[x] = watchers[x]
        BY <1>10, <2>2, Zenon
      <3>2. watchers'[x] \in Watching \cup {NoWatcher}
        BY <1>9, <3>1, Zenon
      <3>3. ASSUME x \in Live' PROVE x \in Live /\ Settles(watchers'[x], x, pc', e)
        <4>1. x \in Live /\ Accounts(watchers'[x], 0)
          BY <1>8, <3>1, <3>3, LiveIs, Zenon
        <4> QED
          BY <2>2, <3>1, <4>1, Zenon DEF Settles, Late
      <3> QED
        BY <3>2, <3>3
    <2> QED
      BY <2>1, <2>2
  <1>12. watchers' \in [Slots -> Watching \cup {NoWatcher}]
    <2>1. watchers' = [x \in Slots |-> watchers'[x]]
      BY <1>10, Zenon
    <2> QED
      BY <1>11, <2>1, Zenon
  <1>13. \A x \in Live' : Settles(watchers'[x], x, pc', Entry')
    BY <1>5, <1>6, <1>11, LiveIs, Zenon
  <1>14. pc'.at # "flush"
    BY <1>3
  <1> QED
    BY <1>12, <1>13, <1>14, Zenon DEF WatchInv

(* While it deals with an entry, that is one of those it looked at. *)
LEMMA PlaceBefore ==
  ASSUME LogInv, InRead(pc), pc.at # "entry"
  PROVE  pc.pos < pc.size
  <1>1. /\ pc \in Pcs /\ pc.l >= 1 /\ pc.l <= Len(Writers)
        /\ \A w \in Range(Writers) : WorkerInv(w, buf[w], unread[w], pc)
    BY Zenon DEF LogInv
  <1>2. pc.l \in Nat
    BY <1>1, PcFields, Zenon
  <1>3. Cur \in Range(Writers)
    BY <1>1, <1>2, CurIs, Zenon
  <1>4. Reads(pc, Cur)
    BY Zenon DEF Reads, Cur
  <1> QED
    BY <1>1, <1>3, <1>4, Zenon DEF WorkerInv, PlaceInv

(* The entry is written for a watcher, or counted, or not for it. *)
LEMMA WatchInvWrite ==
  ASSUME LogInv, WatchInv, logger_thread_write_entry
  PROVE  WatchInv'
  <1>1. pc \in Pcs /\ (pc.all => pc.at = "flush")
    BY Zenon DEF LogInv
  <1>2. pc.at = "write" /\ pc' = [pc EXCEPT !.x = @ + 1] /\ buf' = buf
    BY Zenon DEF logger_thread_write_entry
  <1>3. /\ pc'.at = "write" /\ pc'.x = pc.x + 1 /\ pc'.all = pc.all /\ pc'.l = pc.l /\ pc'.pos = pc.pos
        /\ pc.x \in Nat
    <2>1. PICK k : k = pc.x + 1
      BY Zenon
    <2>2. pc' = [pc EXCEPT !.x = k]
      BY <1>2, <2>1, Zenon
    <2>3. /\ pc'.at = pc.at /\ pc'.x = k /\ pc'.all = pc.all /\ pc'.l = pc.l /\ pc'.pos = pc.pos
      BY <1>1, <2>2, Zenon DEF Pcs
    <2> QED
      BY <1>1, <1>2, <2>1, <2>3, PcFields, Zenon
  <1>4. InRead(pc) /\ Writing(pc) /\ Writing(pc')
    <2>1. ~pc.all
      BY <1>1, <1>2
    <2> QED
      BY <1>2, <1>3, <2>1, Zenon DEF InRead, Writing
  <1>5. Entry' = Entry
    BY <1>2, <1>3, Zenon DEF Entry, Cur
  <1>6. pc.pos < pc.size
    BY <1>2, <1>4, PlaceBefore, Zenon
  <1>7. PICK e \in ECell : e = Entry
    BY <1>4, <1>6, EntryCell, Zenon
  <1>8. e.gid \in Nat
    BY DEF ECell
  <1>9. /\ watchers \in [Slots -> Watching \cup {NoWatcher}]
        /\ \A x \in Slots : watchers[x] # NoWatcher => Settles(watchers[x], x, pc, e)
    BY <1>7, LiveIs, Zenon DEF WatchInv
  <1>10. ASSUME NEW x \in Slots, x # pc.x, NEW w, Settles(w, x, pc, e) PROVE Settles(w, x, pc', e)
    <2>1. x >= pc.x <=> x >= pc'.x
      BY <1>3, <1>10, LoggerAssumption, SMTT(30), Z3T(30) DEF Slots
    <2>2. Late(pc, x, e, w) <=> Late(pc', x, e, w)
      BY <1>2, <1>3, <2>1, Zenon DEF Late
    <2> QED
      BY <1>10, <2>2, Zenon DEF Settles
  <1>11. ~(pc.x >= pc'.x) /\ pc.x >= pc.x
    BY <1>3
  <1>12. \A w : Accounts(w, 0) => Settles(w, pc.x, pc', e)
    BY <1>11, Zenon DEF Settles, Late
  <1>13. CASE ~(pc.x \in Live /\ e.event \in watchers[pc.x].eflags)
    <2>1. watchers' = watchers
      BY <1>7, <1>13, Zenon DEF logger_thread_write_entry
    <2>2. ASSUME NEW x \in Slots, watchers[x] # NoWatcher PROVE Settles(watchers[x], x, pc', e)
      <3>1. Settles(watchers[x], x, pc, e)
        BY <1>9, <2>2, Zenon
      <3>2. CASE x = pc.x
        <4>1. Accounts(watchers[x], 0)
          BY <1>13, <2>2, <3>1, <3>2, LiveIs, Zenon DEF Settles, Late
        <4> QED
          BY <1>12, <3>2, <4>1, Zenon
      <3>3. CASE x # pc.x
        BY <1>10, <3>1, <3>3, Zenon
      <3> QED
        BY <3>2, <3>3
    <2>3. \A x \in Live' : Settles(watchers'[x], x, pc', Entry')
      BY <1>5, <1>7, <2>1, <2>2, LiveIs, Zenon
    <2>4. "write" # "flush"
      OBVIOUS
    <2> QED
      BY <1>3, <1>9, <2>1, <2>3, <2>4, Zenon DEF WatchInv
  <1>14. CASE pc.x \in Live /\ e.event \in watchers[pc.x].eflags
    <2>1. pc.x \in Slots
      BY <1>14, LiveIs, Zenon
    <2>2. PICK w : w = watchers[pc.x]
      BY Zenon
    <2>3. Accounts(w, 1) /\ w.due[Len(w.due)] = e.gid
      <3>1. Settles(w, pc.x, pc, e)
        BY <1>9, <1>14, <2>1, <2>2, LiveIs, Zenon
      <3>2. Late(pc, pc.x, e, w)
        BY <1>4, <1>11, <1>14, <2>2, Zenon DEF Late, Writing
      <3> QED
        BY <3>1, <3>2, Zenon DEF Settles
    <2>4. PICK r : r = IF w.failed_flush THEN Skipping(w) ELSE WithLine(w, e.gid)
      BY Zenon
    <2>5. watchers' = [watchers EXCEPT ![pc.x] = r]
      <3>1. pc.x \in Live /\ Entry.event \in watchers[pc.x].eflags
        BY <1>7, <1>14, Zenon
      <3> QED
        BY <1>7, <2>2, <2>4, <3>1, Zenon DEF logger_thread_write_entry
    <2>6. Accounts(r, 0)
      <3>1. CASE w.failed_flush
        <4>1. r = Skipping(w)
          BY <2>4, <3>1, Zenon
        <4> QED
          BY <2>3, <4>1, AccountsSkip, Zenon
      <3>2. CASE ~w.failed_flush
        <4>1. r = WithLine(w, e.gid)
          BY <2>4, <3>2, Zenon
        <4>2. ~NoRoom(w)
          BY <1>7, <1>14, <2>2, Zenon DEF logger_thread_write_entry
        <4>3. bipbuf_request(w.buf, LineLen + SkipLen)
          BY <3>2, <4>2, Zenon DEF NoRoom
        <4> QED
          BY <1>8, <2>3, <4>1, <4>3, AccountsLine, Zenon
      <3> QED
        BY <3>1, <3>2
    <2>7. r \in Watching
      BY <2>6, Zenon DEF Accounts
    <2>8. /\ watchers' \in [Slots -> Watching \cup {NoWatcher}] /\ watchers'[pc.x] = r
          /\ \A x \in Slots : x # pc.x => watchers'[x] = watchers[x]
      BY <1>9, <2>1, <2>5, <2>7, Zenon
    <2>9. ASSUME NEW x \in Slots, watchers'[x] # NoWatcher PROVE Settles(watchers'[x], x, pc', e)
      <3>1. CASE x = pc.x
        BY <1>12, <2>6, <2>8, <3>1, Zenon
      <3>2. CASE x # pc.x
        <4>1. watchers'[x] = watchers[x]
          BY <2>8, <3>2, Zenon
        <4>2. Settles(watchers[x], x, pc, e)
          BY <1>9, <2>9, <4>1, Zenon
        <4> QED
          BY <1>10, <3>2, <4>1, <4>2, Zenon
      <3> QED
        BY <3>1, <3>2
    <2>10. \A x \in Live' : Settles(watchers'[x], x, pc', Entry')
      BY <1>5, <1>7, <2>9, LiveIs, Zenon
    <2>11. "write" # "flush"
      OBVIOUS
    <2> QED
      BY <1>3, <2>8, <2>10, <2>11, Zenon DEF WatchInv
  <1> QED
    BY <1>13, <1>14

(* A step that leaves the entry and the places of the watchers, and what   *)
(* each accounts for.                                                      *)
LEMMA WatchInvKept ==
  ASSUME WatchInv, buf' = buf, pc'.l = pc.l, pc'.pos = pc.pos, pc'.x = pc.x, Writing(pc) <=> Writing(pc'),
         watchers' \in [Slots -> Watching \cup {NoWatcher}],
         \A x \in Slots : watchers'[x] = NoWatcher <=> watchers[x] = NoWatcher,
         \A x \in Slots : watchers[x] # NoWatcher =>
           /\ watchers'[x].eflags = watchers[x].eflags /\ watchers'[x].due = watchers[x].due
           /\ Accounts(watchers[x], 0) => Accounts(watchers'[x], 0)
           /\ Accounts(watchers[x], 1) => Accounts(watchers'[x], 1),
         pc'.at = "flush" /\ ~pc'.all => pc.x \in Live
  PROVE  WatchInv'
  <1>1. Entry' = Entry
    BY Zenon DEF Entry, Cur
  <1>2. Live' = Live
    BY Zenon DEF Live
  <1>3. ASSUME NEW x \in Live PROVE Settles(watchers'[x], x, pc', Entry)
    <2>1. x \in Slots /\ watchers[x] # NoWatcher
      BY LiveIs, Zenon
    <2>2. Settles(watchers[x], x, pc, Entry)
      BY Zenon DEF WatchInv
    <2> QED
      BY <2>1, <2>2, SettlesKept, Zenon
  <1>4. \A x \in Live' : Settles(watchers'[x], x, pc', Entry')
    BY <1>1, <1>2, <1>3, Zenon
  <1>5. pc'.at = "flush" /\ ~pc'.all => pc'.x \in Live'
    BY <1>2, Zenon
  <1> QED
    BY <1>4, <1>5, Zenon DEF WatchInv

(* One watcher is left so. *)
LEMMA WatchInvOne ==
  ASSUME WatchInv, buf' = buf, pc'.l = pc.l, pc'.pos = pc.pos, pc'.x = pc.x, Writing(pc) <=> Writing(pc'),
         NEW x \in Live, NEW r \in Watching, watchers' = [watchers EXCEPT ![x] = r],
         r.eflags = watchers[x].eflags, r.due = watchers[x].due,
         Accounts(watchers[x], 0) => Accounts(r, 0), Accounts(watchers[x], 1) => Accounts(r, 1),
         pc'.at = "flush" /\ ~pc'.all => pc.x \in Live
  PROVE  WatchInv'
  <1>1. x \in Slots /\ watchers[x] # NoWatcher /\ r # NoWatcher
    BY LiveIs, WatcherFields, Zenon
  <1>2. watchers \in [Slots -> Watching \cup {NoWatcher}]
    BY Zenon DEF WatchInv
  <1>3. /\ watchers' \in [Slots -> Watching \cup {NoWatcher}] /\ watchers'[x] = r
        /\ \A y \in Slots : y # x => watchers'[y] = watchers[y]
    BY <1>1, <1>2, Zenon
  <1>4. \A y \in Slots : watchers'[y] = NoWatcher <=> watchers[y] = NoWatcher
    BY <1>1, <1>3, Zenon
  <1>5. ASSUME NEW y \in Slots
        PROVE  /\ watchers'[y].eflags = watchers[y].eflags /\ watchers'[y].due = watchers[y].due
               /\ Accounts(watchers[y], 0) => Accounts(watchers'[y], 0)
               /\ Accounts(watchers[y], 1) => Accounts(watchers'[y], 1)
    <2>1. CASE y = x
      BY <1>3, <2>1, Zenon
    <2>2. CASE y # x
      <3>1. watchers'[y] = watchers[y]
        BY <1>3, <2>2, Zenon
      <3> QED
        BY <3>1, Zenon
    <2> QED
      BY <2>1, <2>2
  <1> QED
    BY <1>3, <1>4, <1>5, WatchInvKept, Zenon

(* Whether the last flush failed is not part of the account. *)
LEMMA AccountsFailed ==
  ASSUME NEW w \in Watching, NEW f \in BOOLEAN, NEW r, r = [w EXCEPT !.failed_flush = f]
  PROVE  /\ r \in Watching /\ r.eflags = w.eflags /\ r.due = w.due
         /\ \A k : Accounts(w, k) => Accounts(r, k)
  <1>1. /\ r \in Watching /\ r.skipped = w.skipped /\ r.buf = w.buf /\ r.eflags = w.eflags
        /\ r.sent = w.sent /\ r.due = w.due
    BY SetFailed, Zenon
  <1>2. Stream(r) = Stream(w)
    BY <1>1, Zenon DEF Stream
  <1>3. ASSUME NEW k, Accounts(w, k) PROVE Accounts(r, k)
    <2>1. BufOK(r.buf)
      BY <1>1, <1>3, Zenon DEF Accounts
    <2> QED
      BY <1>1, <1>2, <1>3, <2>1, AccountsSame, Zenon
  <1> QED
    BY <1>1, <1>3

(* A watcher without room is polled. *)
LEMMA WatchInvPollOne ==
  ASSUME LogInv, WatchInv, NEW ready, PollOne(ready)
  PROVE  WatchInv'
  <1>1. pc \in Pcs /\ (pc.all => pc.at = "flush")
    BY Zenon DEF LogInv
  <1>2. /\ pc.at = "write" /\ pc.x \in Live /\ buf' = buf
        /\ pc' = [pc EXCEPT !.at = "flush", !.nfd = 0, !.flushed = 0, !.all = FALSE]
        /\ watchers' = [watchers EXCEPT ![pc.x].failed_flush = FALSE]
    BY Zenon DEF PollOne
  <1>3. pc'.at = "flush" /\ ~pc'.all /\ pc'.x = pc.x /\ pc'.l = pc.l /\ pc'.pos = pc.pos
    BY <1>1, <1>2, Zenon DEF Pcs
  <1>4. Writing(pc) /\ Writing(pc')
    BY <1>1, <1>2, <1>3 DEF Writing
  <1>5. PICK w : w = watchers[pc.x]
    BY Zenon
  <1>6. w \in Watching
    BY <1>2, <1>5, LiveIs, Zenon DEF WatchInv
  <1>7. PICK r : r = [w EXCEPT !.failed_flush = FALSE]
    BY Zenon
  <1>8. FALSE \in BOOLEAN
    OBVIOUS
  <1>9. /\ r \in Watching /\ r.eflags = w.eflags /\ r.due = w.due
        /\ \A k : Accounts(w, k) => Accounts(r, k)
    BY <1>6, <1>7, <1>8, AccountsFailed, Zenon
  <1>10. watchers' = [watchers EXCEPT ![pc.x] = r]
    BY <1>2, <1>5, <1>7, Zenon
  <1> QED
    BY <1>2, <1>3, <1>4, <1>5, <1>9, <1>10, WatchInvOne, Zenon

(* Every watcher is polled. *)
LEMMA WatchInvPollAll ==
  ASSUME LogInv, WatchInv, NEW ready, PollAll(ready)
  PROVE  WatchInv'
  <1>1. pc \in Pcs
    BY Zenon DEF LogInv
  <1>2. /\ pc.at = "read"
        /\ watchers' = [x \in Slots |-> IF x \in Live THEN [watchers[x] EXCEPT !.failed_flush = FALSE]
                                        ELSE watchers[x]]
    BY Zenon DEF PollAll
  <1>3. ~Writing(pc')
    <2>1. CASE Live = {}
      <3>1. pc' = Sleeping
        BY <2>1, Zenon DEF PollAll
      <3>2. pc'.at = "sleep"
        BY <3>1 DEF Sleeping
      <3> QED
        BY <3>2 DEF Writing
    <2>2. CASE Live # {}
      <3>1. pc' = [pc EXCEPT !.at = "flush", !.nfd = 0, !.x = 0, !.flushed = 0, !.all = TRUE]
        BY <2>2, Zenon DEF PollAll
      <3>2. pc'.all
        BY <1>1, <3>1, Zenon DEF Pcs
      <3> QED
        BY <3>2, Zenon DEF Writing
    <2> QED
      BY <2>1, <2>2
  <1>4. ~Writing(pc)
    BY <1>2 DEF Writing
  <1>5. /\ \A x \in Slots : watchers[x] # NoWatcher => Accounts(watchers[x], 0)
        /\ watchers \in [Slots -> Watching \cup {NoWatcher}]
    BY <1>4, AllSettled, Zenon DEF WatchInv
  <1>6. ASSUME NEW x \in Slots
        PROVE  /\ watchers'[x] \in Watching \cup {NoWatcher}
               /\ watchers'[x] # NoWatcher => Accounts(watchers'[x], 0)
    <2>1. CASE x \in Live
      <3>1. PICK w : w = watchers[x]
        BY Zenon
      <3>2. w \in Watching /\ Accounts(w, 0)
        BY <1>5, <2>1, <3>1, LiveIs, Zenon
      <3>3. PICK r : r = [w EXCEPT !.failed_flush = FALSE]
        BY Zenon
      <3>4. FALSE \in BOOLEAN
        OBVIOUS
      <3>5. r \in Watching /\ Accounts(r, 0)
        BY <3>2, <3>3, <3>4, AccountsFailed, Zenon
      <3>6. watchers'[x] = r
        BY <1>2, <2>1, <3>1, <3>3, Zenon
      <3> QED
        BY <3>5, <3>6, Zenon
    <2>2. CASE x \notin Live
      <3>1. watchers'[x] = watchers[x]
        BY <1>2, <2>2, Zenon
      <3> QED
        BY <1>5, <3>1, Zenon
    <2> QED
      BY <2>1, <2>2
  <1>7. watchers' \in [Slots -> Watching \cup {NoWatcher}]
    <2>1. watchers' = [x \in Slots |-> watchers'[x]]
      BY <1>2, Zenon
    <2> QED
      BY <1>6, <2>1, Zenon
  <1> QED
    BY <1>3, <1>6, <1>7, Rested, Zenon

(* The watcher the second loop is at is there. *)
LEMMA VisitedLive ==
  ASSUME NEW x, Visited = {x}
  PROVE  x \in Live
  <1>1. \E y \in Live : Nth(Live, y) = pc.nfd
    BY DEF Visited
  <1> DEFINE c == CHOOSE y \in Live : Nth(Live, y) = pc.nfd
  <1>2. c \in Live
    BY <1>1, Zenon
  <1>3. {c} = {x}
    BY <1>1, Zenon DEF Visited
  <1> HIDE DEF c
  <1> QED
    BY <1>2, <1>3, Zenon

(* A socket takes some of what waits for its watcher. *)
LEMMA WatchInvFlush ==
  ASSUME LogInv, WatchInv, NEW x, NEW n \in 0..logger_watcher_buf_size, Flush(x, n)
  PROVE  WatchInv'
  <1>1. pc \in Pcs
    BY Zenon DEF LogInv
  <1>2. /\ pc.at = "flush" /\ Visited = {x} /\ buf' = buf
        /\ watchers' = [watchers EXCEPT ![x] = Sending(@, n)]
        /\ pc' = [pc EXCEPT !.nfd = @ + 1, !.flushed = @ + n]
        /\ n <= Len(bipbuf_peek_all(watchers[x].buf)) \/ n = 0
    BY Zenon DEF Flush
  <1>3. pc'.at = pc.at /\ pc'.all = pc.all /\ pc'.x = pc.x /\ pc'.l = pc.l /\ pc'.pos = pc.pos
    <2>1. PICK i, j : pc' = [pc EXCEPT !.nfd = i, !.flushed = j]
      BY <1>2, Zenon
    <2> QED
      BY <1>1, <2>1, Zenon DEF Pcs
  <1>4. Writing(pc) <=> Writing(pc')
    BY <1>3, Zenon DEF Writing
  <1>5. x \in Live
    BY <1>2, VisitedLive, Zenon
  <1>6. PICK w : w = watchers[x]
    BY Zenon
  <1>7. w \in Watching /\ BufOK(w.buf)
    <2>1. Settles(w, x, pc, Entry)
      BY <1>5, <1>6, Zenon DEF WatchInv
    <2> QED
      BY <2>1, Zenon DEF Settles, Accounts
  <1>8. n \in 0..ALen(w.buf)
    <2>1. PICK b \in Buffers(LCell) : b = w.buf /\ BufOK(b)
      BY <1>7, WatcherFields, Zenon
    <2>2. ALen(b) \in Nat
      BY <2>1, InOrderIs, Zenon
    <2>3. Len(bipbuf_peek_all(b)) = ALen(b)
      <3>1. b.a_end - b.a_start \in Nat
        BY <2>2 DEF ALen
      <3>2. PICK m \in Nat : m = b.a_end - b.a_start
        BY <3>1
      <3>3. bipbuf_peek_all(b) = [i \in 1..m |-> b.data[b.a_start + i - 1]]
        BY <3>2, Zenon DEF bipbuf_peek_all
      <3>4. Len(bipbuf_peek_all(b)) = m
        <4>1. \A g : Len([i \in 1..m |-> g[i]]) = m
          OBVIOUS
        <4>2. PICK g : g = [i \in 1..m |-> b.data[b.a_start + i - 1]]
          BY Zenon
        <4>3. g = [i \in 1..m |-> g[i]]
          BY <4>2, Zenon
        <4> QED
          BY <3>3, <4>1, <4>2, <4>3, Zenon
      <3> QED
        BY <3>2, <3>4 DEF ALen
    <2>4. n <= ALen(b) \/ n = 0
      BY <1>2, <1>6, <2>1, <2>3, Zenon
    <2>5. n \in 0..ALen(b)
      BY <2>2, <2>4, LoggerAssumption
    <2> QED
      BY <2>1, <2>5, Zenon
  <1>9. PICK r : r = Sending(w, n)
    BY Zenon
  <1>10. ASSUME NEW k \in Nat, Accounts(w, k) PROVE Accounts(r, k) /\ r.eflags = w.eflags /\ r.due = w.due
    BY <1>8, <1>9, <1>10, AccountsFlush, Zenon
  <1>11. 0 \in Nat /\ 1 \in Nat
    OBVIOUS
  <1>12. /\ r.eflags = w.eflags /\ r.due = w.due /\ r \in Watching
         /\ (Accounts(w, 0) => Accounts(r, 0)) /\ (Accounts(w, 1) => Accounts(r, 1))
    <2>1. Accounts(w, 0) \/ Accounts(w, 1)
      BY <1>5, <1>6, Zenon DEF WatchInv, Settles
    <2> QED
      BY <1>10, <1>11, <2>1, Zenon DEF Accounts
  <1>13. watchers' = [watchers EXCEPT ![x] = r]
    BY <1>2, <1>6, <1>9, Zenon
  <1>14. pc'.at = "flush" /\ ~pc'.all => pc.x \in Live
    BY <1>2, <1>3, Zenon DEF WatchInv
  <1> QED
    BY <1>2, <1>3, <1>4, <1>5, <1>6, <1>12, <1>13, <1>14, WatchInvOne, Zenon

(* A watcher goes. *)
LEMMA WatchInvClose ==
  ASSUME WatchInv, NEW x, logger_thread_close_watcher(x)
  PROVE  WatchInv'
  <1>1. pc' = pc /\ pc.all /\ watchers' = [watchers EXCEPT ![x] = NoWatcher]
    BY Zenon DEF logger_thread_close_watcher
  <1>2. ~Writing(pc) /\ ~Writing(pc')
    BY <1>1, Zenon DEF Writing
  <1>3. watchers \in [Slots -> Watching \cup {NoWatcher}]
    BY Zenon DEF WatchInv
  <1>4. /\ watchers' \in [Slots -> Watching \cup {NoWatcher}]
        /\ \A y \in Slots : watchers'[y] = watchers[y] \/ watchers'[y] = NoWatcher
    BY <1>1, <1>3, Zenon
  <1>5. \A y \in Slots : watchers[y] # NoWatcher => Accounts(watchers[y], 0)
    BY <1>2, AllSettled, Zenon
  <1> QED
    BY <1>2, <1>4, <1>5, Rested, Zenon

(* The flush is over. *)
LEMMA WatchInvFlushed ==
  ASSUME LogInv, WatchInv, Flushed
  PROVE  WatchInv'
  <1>1. pc \in Pcs /\ pc.at = "flush" /\ buf' = buf
    BY Zenon DEF LogInv, Flushed
  <1>2. watchers \in [Slots -> Watching \cup {NoWatcher}]
    BY Zenon DEF WatchInv
  <1>3. CASE pc.all
    <2>1. pc' = Sleeping /\ watchers' = watchers
      BY <1>3, Zenon DEF Flushed
    <2>2. pc'.at = "sleep"
      BY <2>1 DEF Sleeping
    <2>3. ~Writing(pc) /\ ~Writing(pc')
      BY <1>3, <2>2 DEF Writing
    <2>4. \A y \in Slots : watchers[y] # NoWatcher => Accounts(watchers[y], 0)
      BY <2>3, AllSettled, Zenon
    <2> QED
      BY <1>2, <2>1, <2>3, <2>4, Rested, Zenon
  <1>4. CASE ~pc.all
    <2>1. /\ pc' = [pc EXCEPT !.at = "write"]
          /\ watchers' = IF pc.flushed = 0 THEN [watchers EXCEPT ![pc.x].failed_flush = TRUE] ELSE watchers
      BY <1>4, Zenon DEF Flushed
    <2>2. pc'.at = "write" /\ pc'.all = pc.all /\ pc'.x = pc.x /\ pc'.l = pc.l /\ pc'.pos = pc.pos
      BY <1>1, <2>1, Zenon DEF Pcs
    <2>3. Writing(pc) /\ Writing(pc') /\ pc'.at # "flush"
      BY <1>1, <1>4, <2>2 DEF Writing
    <2>4. pc.x \in Live
      BY <1>1, <1>4, Zenon DEF WatchInv
    <2>5. PICK w : w = watchers[pc.x]
      BY Zenon
    <2>6. w \in Watching
      BY <2>4, <2>5, LiveIs, Zenon DEF WatchInv
    <2>7. CASE pc.flushed = 0
      <3>1. PICK r : r = [w EXCEPT !.failed_flush = TRUE]
        BY Zenon
      <3>2. TRUE \in BOOLEAN
        OBVIOUS
      <3>3. /\ r \in Watching /\ r.eflags = w.eflags /\ r.due = w.due
            /\ \A k : Accounts(w, k) => Accounts(r, k)
        BY <2>6, <3>1, <3>2, AccountsFailed, Zenon
      <3>4. watchers' = [watchers EXCEPT ![pc.x] = r]
        BY <2>1, <2>5, <2>7, <3>1, Zenon
      <3> QED
        BY <1>1, <2>2, <2>3, <2>4, <2>5, <3>3, <3>4, WatchInvOne, Zenon
    <2>8. CASE pc.flushed # 0
      <3>1. watchers' = watchers
        BY <2>1, <2>8, Zenon
      <3> QED
        BY <1>1, <1>2, <2>2, <2>3, <2>4, <3>1, WatchInvKept, Zenon
    <2> QED
      BY <2>7, <2>8
  <1> QED
    BY <1>3, <1>4

(* Every step keeps WatchInv. *)
LEMMA WatchInvStep ==
  LogInv /\ WatchInv /\ [LNext]_lVars => WatchInv'
  <1> SUFFICES ASSUME LogInv, WatchInv, [LNext]_lVars PROVE WatchInv'
    OBVIOUS
  <1>1. ASSUME NEW w \in Range(Writers), NEW e \in Events, NEW n \in 1..ReqLen, logger_log(w, e, n)
        PROVE  WatchInv'
    BY <1>1, WatchInvLog, Zenon
  <1>2. ASSUME NEW c \in Clients, NEW f \in (SUBSET Events) \ {{}}, logger_add_watcher(c, f) PROVE WatchInv'
    BY <1>2, WatchInvAdd, Zenon
  <1>3. CASE LoggerStep
    <2>1. ASSUME NEW x, NEW n \in 0..logger_watcher_buf_size, Flush(x, n) PROVE WatchInv'
      BY <2>1, WatchInvFlush, Zenon
    <2>2. ASSUME NEW x, logger_thread_close_watcher(x) PROVE WatchInv'
      BY <2>2, WatchInvClose, Zenon
    <2>3. ASSUME NEW ready, PollOne(ready) \/ PollAll(ready) PROVE WatchInv'
      BY <2>3, WatchInvPollOne, WatchInvPollAll, Zenon
    <2> QED
      BY <1>3, <2>1, <2>2, <2>3, WatchInvOff, WatchInvNext, WatchInvWrite, WatchInvFlushed, Zenon DEF LoggerStep
  <1>4. CASE UNCHANGED lVars
    <2>1. buf' = buf /\ pc' = pc /\ watchers' = watchers
      BY <1>4, Zenon DEF lVars
    <2>2. Entry' = Entry /\ Live' = Live
      BY <2>1, Zenon DEF Entry, Cur, Live
    <2> QED
      BY <2>1, <2>2, Zenon DEF WatchInv
  <1> QED
    BY <1>1, <1>2, <1>3, <1>4, Zenon DEF LNext

(* What a watcher was sent and what waits for it are whole lines that      *)
(* account for every entry it asked for, in order and once, however its    *)
(* socket takes them and whoever else comes and goes, for any number of    *)
(* workers, watchers and entries and any sizes (logger.c:276-319, 395-489; *)
(* bipbuffer.c).                                                           *)
THEOREM WatcherSeesAllHolds == LSpec => []WatcherSeesAll
  <1>1. WatchInv => WatcherSeesAll
    <2> SUFFICES ASSUME WatchInv, NEW x \in Live
        PROVE  LET w == watchers[x]
                   seen == Spread(Stream(w))
               IN  /\ Whole(Stream(w))
                   /\ Len(seen) + w.skipped = Len(w.due) - (IF Unsettled(x) THEN 1 ELSE 0)
                   /\ \A i \in 1..Len(seen) : seen[i] \in {0, w.due[i]}
      BY Zenon DEF WatcherSeesAll
    <2>1. PICK w : w = watchers[x]
      BY Zenon
    <2>2. Settles(w, x, pc, Entry)
      BY <2>1, Zenon DEF WatchInv
    <2>3. Unsettled(x) <=> Late(pc, x, Entry, w)
      BY <2>1, Zenon DEF Unsettled, Late
    <2>4. PICK k \in Nat : k = IF Unsettled(x) THEN 1 ELSE 0
      OBVIOUS
    <2>5. Accounts(w, k)
      BY <2>2, <2>3, <2>4, Zenon DEF Settles
    <2>6. /\ Whole(Stream(w)) /\ Len(Seen(w)) \in Nat /\ w.skipped \in Nat /\ Len(w.due) \in Nat
          /\ Len(Seen(w)) + w.skipped + k = Len(w.due)
          /\ \A i \in 1..Len(Seen(w)) : Seen(w)[i] \in {0, w.due[i]}
      BY <2>5, AccountsIs
    <2>7. Len(Seen(w)) + w.skipped = Len(w.due) - k
      <3>1. PICK a \in Nat, b \in Nat, c \in Nat : a = Len(Seen(w)) /\ b = w.skipped /\ c = Len(w.due)
        BY <2>6, Zenon
      <3>2. a + b + k = c
        BY <2>6, <3>1, Zenon
      <3>3. a + b = c - k
        BY <3>2
      <3> QED
        BY <3>1, <3>3, Zenon
    <2> QED
      BY <2>1, <2>4, <2>6, <2>7, Zenon DEF Seen
  <1> QED
    BY <1>1, WatchInvInit, WatchInvStep, LogInvariant, PTL DEF LSpec
=============================================================================
