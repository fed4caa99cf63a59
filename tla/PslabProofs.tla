---------------------------- MODULE PslabProofs ----------------------------
(***************************************************************************)
(* Proofs about memcached's slab pool in persistent memory (Pslab): after  *)
(* a crash at any moment recovery accepts the header and can walk every    *)
(* frame, and a server that runs after any number of crashes has every     *)
(* frame and every chunk once.  For any number of frames, any classes and  *)
(* chunk sizes, any page size.                                             *)
(***************************************************************************)
EXTENDS Pslab, TLAPS

(* The parts of a memory that the stores of one part leave alone.          *)
SameHeader(m, n) ==
  /\ n[<<"valid">>] = m[<<"valid">>] /\ n[<<"body">>] = m[<<"body">>]
  /\ \A i \in {1, 2} : /\ n[<<"flush_time", i>>] = m[<<"flush_time", i>>]
                       /\ n[<<"checksum", i>>] = m[<<"checksum", i>>]

SameMarks(m, n) ==
  \A f \in Frames : n[<<"id", f>>] = m[<<"id", f>>] /\ n[<<"size", f>>] = m[<<"size", f>>]

SameItems(m, n) == \A c \in Cells : n[Item(c)] = m[Item(c)]

(* The stores.                                                             *)
With(m, x, v) == [m EXCEPT ![x] = v]
WithMark(m, k, f, v) == [m EXCEPT ![<<k, f>>] = v]
WithSlot(m, i, time) ==
  [m EXCEPT ![<<"flush_time", i>>] = time, ![<<"checksum", i>>] = Checksum(Body, time)]
Cleared(m, S) == [x \in Fields |-> IF x \in {Item(c) : c \in S} THEN NoItem ELSE m[x]]

(* The fields of the pool are fields, and its three parts are apart.       *)
LEMMA FieldsIn ==
  /\ <<"valid">> \in Fields /\ <<"body">> \in Fields
  /\ \A i \in {1, 2} : <<"flush_time", i>> \in Fields /\ <<"checksum", i>> \in Fields
  /\ \A f \in Frames : <<"id", f>> \in Fields /\ <<"size", f>> \in Fields
  /\ \A c \in Cells : Item(c) \in Fields
  BY DEF Fields, Item

(* Cells are told apart by their items.                                    *)
LEMMA ItemsApart ==
  ASSUME NEW c \in Cells, NEW d \in Cells, Item(c) = Item(d)
  PROVE  c = d
  BY DEF Item, Cells

(* Items are no other fields.                                              *)
LEMMA ItemApart ==
  ASSUME NEW c \in Cells
  PROVE  /\ Item(c) # <<"valid">> /\ Item(c) # <<"body">>
         /\ \A i \in {1, 2} : Item(c) # <<"flush_time", i>> /\ Item(c) # <<"checksum", i>>
         /\ \A f \in Frames : Item(c) # <<"id", f>> /\ Item(c) # <<"size", f>>
  BY DEF Item

(* Marks are no fields of the header.                                      *)
LEMMA MarkApart ==
  ASSUME NEW f \in Frames, NEW k \in {"id", "size"}
  PROVE  /\ <<k, f>> # <<"valid">> /\ <<k, f>> # <<"body">>
         /\ \A i \in {1, 2} : <<k, f>> # <<"flush_time", i>> /\ <<k, f>> # <<"checksum", i>>
         /\ \A g \in Frames, j \in {"id", "size"} : <<k, f>> = <<j, g>> => k = j /\ f = g
  OBVIOUS

(* A store to an item.                                                     *)
LEMMA StoreItem ==
  ASSUME NEW m, DOMAIN m = Fields, NEW c \in Cells, NEW it, NEW n, n = With(m, Item(c), it)
  PROVE  /\ DOMAIN n = Fields /\ SameHeader(m, n) /\ SameMarks(m, n)
         /\ \A d \in Cells : n[Item(d)] = IF d = c THEN it ELSE m[Item(d)]
  BY FieldsIn, ItemsApart, ItemApart DEF SameHeader, SameMarks, With

(* A store to a mark of a frame.                                           *)
MarkStored(m, n, k, f, v) ==
  /\ DOMAIN n = Fields /\ SameHeader(m, n) /\ SameItems(m, n)
  /\ n[<<k, f>>] = v
  /\ \A g \in Frames, j \in {"id", "size"} : g # f \/ j # k => n[<<j, g>>] = m[<<j, g>>]

(* It changes nothing else.                                                *)
LEMMA StoreMark ==
  ASSUME NEW m, DOMAIN m = Fields, NEW f \in Frames, NEW k \in {"id", "size"}, NEW v
  PROVE  MarkStored(m, WithMark(m, k, f, v), k, f, v)
  BY FieldsIn, ItemApart, MarkApart, Zenon DEF SameHeader, SameItems, WithMark, MarkStored

(* A store to valid.                                                       *)
LEMMA StoreValid ==
  ASSUME NEW m, DOMAIN m = Fields, NEW v, NEW n, n = With(m, <<"valid">>, v)
  PROVE  /\ DOMAIN n = Fields /\ SameMarks(m, n) /\ SameItems(m, n)
         /\ n[<<"valid">>] = v /\ n[<<"body">>] = m[<<"body">>]
         /\ \A i \in {1, 2} : /\ n[<<"flush_time", i>>] = m[<<"flush_time", i>>]
                              /\ n[<<"checksum", i>>] = m[<<"checksum", i>>]
  BY FieldsIn, ItemApart, MarkApart DEF SameMarks, SameItems, With

(* The two stores of flush_all to a slot.                                  *)
LEMMA StoreSlot ==
  ASSUME NEW m, DOMAIN m = Fields, NEW i \in {1, 2}, NEW time, NEW n,
         n = WithSlot(m, i, time)
  PROVE  /\ DOMAIN n = Fields /\ SameMarks(m, n) /\ SameItems(m, n)
         /\ n[<<"valid">>] = m[<<"valid">>] /\ n[<<"body">>] = m[<<"body">>]
         /\ Holds(n, i, time)
         /\ \A j \in {1, 2} : j # i => /\ n[<<"flush_time", j>>] = m[<<"flush_time", j>>]
                                       /\ n[<<"checksum", j>>] = m[<<"checksum", j>>]
  <1>1. /\ DOMAIN n = Fields
        /\ n[<<"flush_time", i>>] = time /\ n[<<"checksum", i>>] = Checksum(Body, time)
        /\ \A x \in Fields : x # <<"flush_time", i>> /\ x # <<"checksum", i>> => n[x] = m[x]
    BY FieldsIn DEF WithSlot
  <1> QED
    BY <1>1, FieldsIn, ItemApart, MarkApart DEF SameMarks, SameItems, Holds

(* Fields that are persisted or cleared, the others are kept.              *)
LEMMA ClearItems ==
  ASSUME NEW m, DOMAIN m = Fields, NEW S \in SUBSET Cells, NEW n,
         n = Cleared(m, S)
  PROVE  /\ DOMAIN n = Fields /\ SameHeader(m, n) /\ SameMarks(m, n)
         /\ \A d \in Cells : n[Item(d)] = IF d \in S THEN NoItem ELSE m[Item(d)]
  <1>1. \A d \in Cells : Item(d) \in {Item(c) : c \in S} <=> d \in S
    BY ItemsApart
  <1>2. DOMAIN n = Fields /\ \A x \in Fields : n[x] = IF x \in {Item(c) : c \in S} THEN NoItem ELSE m[x]
    BY DEF Cleared
  <1>3. \A x \in {Item(c) : c \in S} : \E d \in Cells : x = Item(d)
    OBVIOUS
  <1>4. SameHeader(m, n) /\ SameMarks(m, n)
    BY <1>2, <1>3, FieldsIn, ItemApart DEF SameHeader, SameMarks
  <1>5. \A d \in Cells : n[Item(d)] = IF d \in S THEN NoItem ELSE m[Item(d)]
    BY <1>1, <1>2, FieldsIn
  <1> QED
    BY <1>2, <1>4, <1>5

(* The slots of the header are drained.                                    *)
LEMMA DrainSlots ==
  ASSUME NEW m, NEW d, NEW n,
         n = [x \in Fields |-> IF x \in Drained THEN m[x] ELSE d[x]]
  PROVE  /\ DOMAIN n = Fields /\ SameMarks(d, n) /\ SameItems(d, n)
         /\ n[<<"valid">>] = d[<<"valid">>] /\ n[<<"body">>] = d[<<"body">>]
         /\ \A i \in {1, 2} : /\ n[<<"flush_time", i>>] = m[<<"flush_time", i>>]
                              /\ n[<<"checksum", i>>] = m[<<"checksum", i>>]
  <1>1. /\ \A i \in {1, 2} : <<"flush_time", i>> \in Drained /\ <<"checksum", i>> \in Drained
        /\ <<"valid">> \notin Drained /\ <<"body">> \notin Drained
        /\ \A f \in Frames : <<"id", f>> \notin Drained /\ <<"size", f>> \notin Drained
        /\ \A c \in Cells : Item(c) \notin Drained
    BY DEF Drained, Item
  <1> QED
    BY <1>1, FieldsIn DEF SameMarks, SameItems

(* The cache writes one field back: each field of the medium is as before  *)
(* or as in memory.                                                        *)
LEMMA WriteBack ==
  ASSUME NEW m, NEW d, DOMAIN d = Fields, NEW x \in Fields, NEW n, n = [d EXCEPT ![x] = m[x]]
  PROVE  DOMAIN n = Fields /\ \A y \in Fields : n[y] \in {d[y], m[y]}
  OBVIOUS
-----------------------------------------------------------------------------
(* HeaderInv speaks of the header, of the flush and of where starting up   *)
(* has come to.                                                            *)
LEMMA HeaderKept ==
  ASSUME PTypeOK, HeaderInv, SameHeader(mem, mem'), SameHeader(dur, dur'), flush' = flush,
         pool'.created = pool.created,
         pool' = pool \/ (pool.pc \in Starting /\ pool'.pc \in Starting \cup {"run"})
  PROVE  HeaderInv'
  <1>1. /\ mem'[<<"valid">>] = mem[<<"valid">>] /\ dur'[<<"valid">>] = dur[<<"valid">>]
        /\ mem'[<<"body">>] = mem[<<"body">>] /\ dur'[<<"body">>] = dur[<<"body">>]
    BY DEF SameHeader
  <1>2. \A i \in {1, 2} : \A time : /\ Holds(mem, i, time) => Holds(mem', i, time)
                                    /\ Holds(dur, i, time) => Holds(dur', i, time)
    BY DEF Holds, SameHeader
  <1>3. pool.created => /\ Accepted(mem') /\ Accepted(dur')
                        /\ FlushTime(mem') = FlushTime(mem) /\ FlushTime(dur') = FlushTime(dur)
    BY <1>1 DEF Accepted, FlushTime, pslab_checksum_check, SameHeader, HeaderInv
  <1>4. flush.pc # "idle" => flush.slot \in {1, 2}
    BY DEF HeaderInv, PTypeOK, IsMemory, Accepted, Starting
  <1>5. pool.pc \in Starting => pool.created /\ flush.pc = "idle"
    BY DEF HeaderInv, Starting
  <1>6. CASE pool' = pool
    BY <1>1, <1>2, <1>3, <1>4, <1>6 DEF HeaderInv
  <1>7. CASE pool.pc \in Starting /\ pool'.pc \in Starting \cup {"run"}
    BY <1>1, <1>3, <1>5, <1>7, Zenon DEF HeaderInv, Creating, Starting
  <1> QED
    BY <1>6, <1>7

(* FrameInv speaks of the marks, and of no other items than those linked.  *)
LEMMA FrameKept ==
  ASSUME FrameInv, SameMarks(mem, mem'), SameMarks(dur, dur'),
         \A c \in Cells : HasItem(mem', c) \/ HasItem(dur', c) => HasItem(mem, c) \/ HasItem(dur, c)
  PROVE  FrameInv'
  <1>1. \A c \in Cells : c[1] \in Frames
    BY DEF Cells
  <1> QED
    BY <1>1 DEF FrameInv, SameMarks, HasItem

(* An action that changes no more than the header of a running server.     *)
LEMMA ItemsKept ==
  ASSUME PTypeOK, FrameInv, StartInv, OwnerInv, PageInv, pool.pc = "run",
         SameMarks(mem, mem'), SameMarks(dur, dur'), SameItems(mem, mem'), SameItems(dur, dur'),
         UNCHANGED <<pool, owned, free, slots, linked, setup>>
  PROVE  FrameInv' /\ StartInv' /\ OwnerInv' /\ PageInv'
  <1>1. \A c \in Cells : /\ c[1] \in Frames
                         /\ HasItem(mem, c) <=> HasItem(mem, c)'
                         /\ HasItem(dur, c) <=> HasItem(dur, c)'
    BY DEF Cells, HasItem, SameItems
  <1>2. FrameInv'
    BY <1>1, FrameKept
  <1>3. StartInv'
    BY DEF StartInv, Starting, Creating
  <1>4. \A f \in Frames : Renewed(f)' /\ Renewed(f) /\ (Owned(f)' <=> Owned(f))
    BY Zenon DEF Renewed, Owned
  <1>5. OwnerInv'
    BY <1>1, <1>4 DEF OwnerInv, SameMarks
  <1>6. PageInv'
    BY <1>1, <1>4, Zenon DEF PageInv, Owned, SameMarks, PTypeOK
  <1> QED
    BY <1>2, <1>3, <1>5, <1>6, Zenon

(* flush_all: the slot that valid names is never written, and the other    *)
(* one is drained before valid turns to it.                                *)
LEMMA FlushStep ==
  ASSUME PoolInv, pslab_update_flushtime
  PROVE  PoolInv'
  <1> PTypeOK /\ HeaderInv /\ FrameInv /\ StartInv /\ OwnerInv /\ PageInv
    BY DEF PoolInv
  <1> SUFFICES PTypeOK' /\ HeaderInv' /\ FrameInv' /\ StartInv' /\ OwnerInv' /\ PageInv'
    BY DEF PoolInv
  <1> PICK v : v = mem[<<"valid">>]
    OBVIOUS
  <1>0. pool.pc = "run" /\ pool.created
    BY DEF pslab_update_flushtime, FlushStart, FlushWrite, FlushPersist, FlushValid, Running, At, HeaderInv
  <1>1. /\ v \in {1, 2} /\ dur[<<"valid">>] = v /\ 3 - v \in {1, 2} /\ 3 - v # v
        /\ mem[<<"body">>] = Body /\ dur[<<"body">>] = Body
        /\ mem[<<"checksum", v>>] = Checksum(Body, mem[<<"flush_time", v>>])
        /\ dur[<<"checksum", v>>] = Checksum(Body, dur[<<"flush_time", v>>])
        /\ mem[<<"flush_time", v>>] = dur[<<"flush_time", v>>]
        /\ mem[<<"flush_time", v>>] = flush.done
    BY <1>0 DEF HeaderInv, Accepted, pslab_checksum_check, FlushTime
  <1>2. DOMAIN mem = Fields /\ DOMAIN dur = Fields
    BY DEF PTypeOK, IsMemory
  <1>3. CASE FlushStart
    <2>1. UNCHANGED <<mem, dur, owned, free, slots, linked, setup, pool, clock>>
      BY <1>3 DEF FlushStart
    <2>2. PTypeOK'
      <3>1. clock - 1 \in Nat /\ 3 - mem[<<"valid">>] \in 0..2
        BY <1>1 DEF PTypeOK
      <3>2. flush' \in [pc : {"idle", "time", "persist", "valid"}, slot : 0..2, time : Nat, done : Nat]
        BY <1>3, <3>1, Zenon DEF PTypeOK, FlushStart
      <3> QED
        BY <2>1, <3>2 DEF PTypeOK
    <2>3. HeaderInv'
      BY <1>0, <1>1, <1>3, <2>1 DEF HeaderInv, FlushStart, PTypeOK, Starting, Creating
    <2> QED
      BY <1>0, <2>1, <2>2, <2>3, ItemsKept DEF SameMarks, SameItems
  <1>4. CASE FlushWrite
    <2>1. /\ dur' = dur /\ UNCHANGED <<owned, free, slots, linked, setup, pool, clock>>
          /\ flush.pc = "time" /\ flush' = [flush EXCEPT !.pc = "persist"]
          /\ flush.slot = 3 - v
      BY <1>4, Zenon DEF FlushWrite, flushRest, server, Step, HeaderInv
    <2>2. /\ DOMAIN mem' = Fields /\ SameMarks(mem, mem') /\ SameItems(mem, mem')
          /\ mem'[<<"valid">>] = v /\ mem'[<<"body">>] = Body
          /\ Holds(mem', flush.slot, flush.time)
          /\ mem'[<<"flush_time", v>>] = mem[<<"flush_time", v>>]
          /\ mem'[<<"checksum", v>>] = mem[<<"checksum", v>>]
      <3>1. /\ mem' = WithSlot(mem, flush.slot, flush.time)
            /\ flush.slot \in {1, 2} /\ v \in {1, 2} /\ v # flush.slot
        BY <1>1, <1>4, <2>1, Zenon DEF FlushWrite, WithSlot
      <3>2. /\ DOMAIN mem' = Fields /\ SameMarks(mem, mem') /\ SameItems(mem, mem')
            /\ mem'[<<"valid">>] = mem[<<"valid">>] /\ mem'[<<"body">>] = mem[<<"body">>]
            /\ Holds(mem', flush.slot, flush.time)
            /\ \A j \in {1, 2} : j # flush.slot =>
                 /\ mem'[<<"flush_time", j>>] = mem[<<"flush_time", j>>]
                 /\ mem'[<<"checksum", j>>] = mem[<<"checksum", j>>]
        BY <1>2, <3>1, StoreSlot
      <3> QED
        BY <1>1, <3>1, <3>2
    <2>3. PTypeOK'
      <3>1. \A i \in {1, 2} : mem'[<<"flush_time", i>>] \in Nat
        BY <1>1, <2>1, <2>2, ZenonT(30) DEF PTypeOK, IsMemory, Holds
      <3>2. IsMemory(mem')
        BY <1>1, <2>2, <3>1, Zenon DEF PTypeOK, IsMemory, SameMarks
      <3> QED
        BY <2>1, <3>2 DEF PTypeOK
    <2>4. Accepted(mem') /\ FlushTime(mem') = FlushTime(mem)
      BY <1>1, <2>2, Zenon DEF Accepted, pslab_checksum_check, FlushTime
    <2>5. HeaderInv'
      BY <1>0, <1>1, <2>1, <2>2, <2>4, Zenon DEF HeaderInv, PTypeOK, Starting, Creating
    <2> QED
      BY <1>0, <2>1, <2>2, <2>3, <2>5, ItemsKept DEF SameMarks, SameItems
  <1>5. CASE FlushPersist
    <2>1. /\ mem' = mem /\ UNCHANGED <<owned, free, slots, linked, setup, pool, clock>>
          /\ flush.pc = "persist" /\ flush' = [flush EXCEPT !.pc = "valid"]
          /\ flush.slot = 3 - v /\ Holds(mem, flush.slot, flush.time)
      BY <1>5, Zenon DEF FlushPersist, flushRest, server, Step, HeaderInv
    <2>2. /\ DOMAIN dur' = Fields /\ SameMarks(dur, dur') /\ SameItems(dur, dur')
          /\ dur'[<<"valid">>] = v /\ dur'[<<"body">>] = Body
          /\ \A i \in {1, 2} : /\ dur'[<<"flush_time", i>>] = mem[<<"flush_time", i>>]
                               /\ dur'[<<"checksum", i>>] = mem[<<"checksum", i>>]
      BY <1>1, <1>5, DrainSlots DEF FlushPersist, Persist
    <2>3. PTypeOK'
      <3>1. IsMemory(dur')
        BY <1>1, <2>2, Zenon DEF PTypeOK, IsMemory, SameMarks
      <3> QED
        BY <2>1, <3>1, Zenon DEF PTypeOK
    <2>4. Accepted(dur') /\ FlushTime(dur') = FlushTime(dur)
      BY <1>1, <2>2 DEF Accepted, pslab_checksum_check, FlushTime
    <2>5. Holds(dur', flush.slot, flush.time)
      BY <1>1, <2>1, <2>2 DEF Holds
    <2>6. HeaderInv'
      BY <1>0, <1>1, <2>1, <2>2, <2>4, <2>5 DEF HeaderInv, PTypeOK, Starting, Creating
    <2> QED
      BY <1>0, <2>1, <2>2, <2>3, <2>6, ItemsKept, Zenon DEF SameMarks, SameItems
  <1>6. CASE FlushValid
    <2>1. /\ UNCHANGED <<owned, free, slots, linked, setup, pool, clock>>
          /\ flush.pc = "valid" /\ flush' = [NoFlush EXCEPT !.done = flush.time]
          /\ flush.slot = 3 - v /\ Holds(mem, flush.slot, flush.time) /\ Holds(dur, flush.slot, flush.time)
      BY <1>6 DEF FlushValid, flushRest, server, Step, HeaderInv
    <2>2. /\ DOMAIN mem' = Fields /\ SameMarks(mem, mem') /\ SameItems(mem, mem')
          /\ mem'[<<"valid">>] = 3 - v /\ mem'[<<"body">>] = Body
          /\ \A i \in {1, 2} : /\ mem'[<<"flush_time", i>>] = mem[<<"flush_time", i>>]
                               /\ mem'[<<"checksum", i>>] = mem[<<"checksum", i>>]
      <3>1. mem' = With(mem, <<"valid">>, 3 - v)
        BY <1>6, <2>1, Zenon DEF FlushValid, StorePersist, With
      <3>2. /\ DOMAIN mem' = Fields /\ SameMarks(mem, mem') /\ SameItems(mem, mem')
            /\ mem'[<<"valid">>] = 3 - v /\ mem'[<<"body">>] = mem[<<"body">>]
            /\ \A i \in {1, 2} : /\ mem'[<<"flush_time", i>>] = mem[<<"flush_time", i>>]
                                 /\ mem'[<<"checksum", i>>] = mem[<<"checksum", i>>]
        BY <1>2, <3>1, StoreValid
      <3> QED
        BY <1>1, <3>2
    <2>3. /\ DOMAIN dur' = Fields /\ SameMarks(dur, dur') /\ SameItems(dur, dur')
          /\ dur'[<<"valid">>] = 3 - v /\ dur'[<<"body">>] = Body
          /\ \A i \in {1, 2} : /\ dur'[<<"flush_time", i>>] = dur[<<"flush_time", i>>]
                               /\ dur'[<<"checksum", i>>] = dur[<<"checksum", i>>]
      <3>1. dur' = With(dur, <<"valid">>, 3 - v)
        BY <1>6, <2>1, Zenon DEF FlushValid, StorePersist, With
      <3>2. /\ DOMAIN dur' = Fields /\ SameMarks(dur, dur') /\ SameItems(dur, dur')
            /\ dur'[<<"valid">>] = 3 - v /\ dur'[<<"body">>] = dur[<<"body">>]
            /\ \A i \in {1, 2} : /\ dur'[<<"flush_time", i>>] = dur[<<"flush_time", i>>]
                                 /\ dur'[<<"checksum", i>>] = dur[<<"checksum", i>>]
        BY <1>2, <3>1, StoreValid
      <3> QED
        BY <1>1, <3>2
    <2>4. PTypeOK'
      <3>1. IsMemory(mem') /\ IsMemory(dur')
        BY <1>1, <2>2, <2>3, SMTT(30), Z3T(30) DEF PTypeOK, IsMemory, SameMarks
      <3>2. flush' \in [pc : {"idle", "time", "persist", "valid"}, slot : 0..2, time : Nat, done : Nat]
        BY <2>1 DEF PTypeOK, NoFlush
      <3> QED
        BY <2>1, <3>1, <3>2, Zenon DEF PTypeOK
    <2>5. /\ Accepted(mem') /\ FlushTime(mem') = flush.time
          /\ Accepted(dur') /\ FlushTime(dur') = flush.time
      BY <1>1, <2>1, <2>2, <2>3 DEF Accepted, pslab_checksum_check, FlushTime, Holds
    <2>6. flush'.pc = "idle" /\ flush'.done = flush.time
      BY <2>1 DEF NoFlush
    <2>7. HeaderInv'
      BY <1>0, <1>1, <2>1, <2>2, <2>3, <2>5, <2>6 DEF HeaderInv, PTypeOK, Starting, Creating
    <2> QED
      BY <1>0, <2>1, <2>2, <2>3, <2>4, <2>7, ItemsKept
  <1> QED
    BY <1>3, <1>4, <1>5, <1>6 DEF pslab_update_flushtime
-----------------------------------------------------------------------------
(* What a pool of zeros holds.                                             *)
LEMMA ZeroedHolds ==
  /\ DOMAIN Zeroed = Fields
  /\ Zeroed[<<"valid">>] = 0
  /\ \A i \in {1, 2} : Zeroed[<<"flush_time", i>>] = 0
  /\ \A f \in Frames : Zeroed[<<"id", f>>] = 0 /\ Zeroed[<<"size", f>>] = 0
  /\ \A c \in Cells : Zeroed[Item(c)] = NoItem
  <1>1. \A x \in Fields : Zeroed[x] = CASE x[1] = "item" -> NoItem [] x[1] = "checksum" -> Checksum(0, 0) [] OTHER -> 0
    BY DEF Zeroed
  <1>2. DOMAIN Zeroed = Fields
    BY DEF Zeroed
  <1>3. \A c \in Cells : Item(c)[1] = "item"
    BY DEF Item
  <1> QED
    BY <1>1, <1>2, <1>3, FieldsIn

(* An item that is cleared is not linked.                                  *)
LEMMA NoItemUnlinked == "LINKED" \notin NoItem.flags
  BY DEF NoItem

(* The header pslab_create writes, on a pool of zeros.                     *)
LEMMA CreatedHeader ==
  ASSUME NEW n, n = [Zeroed EXCEPT ![<<"body">>] = Body, ![<<"checksum", 1>>] = Checksum(Body, 0)]
  PROVE  /\ DOMAIN n = Fields
         /\ n[<<"valid">>] = 0 /\ n[<<"body">>] = Body /\ Holds(n, 1, 0)
         /\ \A i \in {1, 2} : n[<<"flush_time", i>>] = 0
         /\ SameMarks(Zeroed, n) /\ SameItems(Zeroed, n)
  <1>1. /\ DOMAIN n = Fields
        /\ n[<<"body">>] = Body /\ n[<<"checksum", 1>>] = Checksum(Body, 0)
        /\ \A x \in Fields : x # <<"body">> /\ x # <<"checksum", 1>> => n[x] = Zeroed[x]
    BY FieldsIn, ZeroedHolds
  <1>2. /\ n[<<"valid">>] = 0
        /\ \A i \in {1, 2} : n[<<"flush_time", i>>] = 0
    BY <1>1, FieldsIn, ZeroedHolds
  <1>3. SameMarks(Zeroed, n) /\ SameItems(Zeroed, n)
    BY <1>1, FieldsIn, ItemApart, MarkApart DEF SameMarks, SameItems
  <1> QED
    BY <1>1, <1>2, <1>3, Zenon DEF Holds

(* The pool starts with nothing.                                           *)
LEMMA PoolInit ==
  ASSUME Configured, PInit
  PROVE  PoolInv
  <1>1. IsMemory(mem) /\ IsMemory(dur)
    BY ZeroedHolds DEF PInit, IsMemory
  <1>2. PTypeOK
    BY <1>1 DEF PInit, PTypeOK, NoPages, NoSetup, NoFlush, Creating, Starting
  <1>3. HeaderInv
    BY ZeroedHolds, Zenon DEF PInit, HeaderInv, Creating, Starting, NoFlush
  <1>4. \A c \in Cells : ~HasItem(mem, c) /\ ~HasItem(dur, c)
    BY ZeroedHolds, NoItemUnlinked, Zenon DEF PInit, HasItem
  <1>5. FrameInv
    BY <1>4, ZeroedHolds, Zenon DEF PInit, FrameInv
  <1>6. StartInv
    BY <1>4, Zenon DEF PInit, StartInv, Starting, Creating, NoSetup
  <1>7. OwnerInv /\ PageInv
    BY DEF PInit, OwnerInv, PageInv, NoSetup
  <1> QED
    BY <1>2, <1>3, <1>5, <1>6, <1>7 DEF PoolInv

(* pslab_create: valid is 0 until the header is drained.                   *)
LEMMA CreateStep ==
  ASSUME Configured, PoolInv, CreateHeader \/ CreatePersist \/ CreateValid
  PROVE  PoolInv'
  <1> PTypeOK /\ HeaderInv /\ FrameInv /\ StartInv /\ OwnerInv /\ PageInv
    BY DEF PoolInv
  <1> SUFFICES PTypeOK' /\ HeaderInv' /\ FrameInv' /\ StartInv' /\ OwnerInv' /\ PageInv'
    BY DEF PoolInv
  <1>1. /\ pool.pc \in Creating /\ ~pool.created
        /\ flush.pc = "idle" /\ setup.pc = "idle" /\ flush.done = 0
        /\ owned = NoPages /\ free = <<>> /\ slots = {} /\ linked = {}
        /\ mem[<<"valid">>] = 0 /\ dur[<<"valid">>] = 0
        /\ \A c \in Cells : ~HasItem(mem, c) /\ ~HasItem(dur, c)
    BY DEF CreateHeader, CreatePersist, CreateValid, At, Creating, Starting, HeaderInv, StartInv
  <1>2. UNCHANGED <<owned, free, slots, linked, setup, flush, clock>>
    BY DEF CreateHeader, CreatePersist, CreateValid, volatile
  <1>3. CASE CreateHeader
    <2>1. /\ mem = Zeroed /\ dur = Zeroed /\ dur' = dur
          /\ pool' = [pool EXCEPT !.pc = "header", !.at = 1]
      BY <1>3 DEF CreateHeader, At, StartInv, GoOn
    <2>2. /\ DOMAIN mem' = Fields
          /\ mem'[<<"valid">>] = 0 /\ mem'[<<"body">>] = Body /\ Holds(mem', 1, 0)
          /\ \A i \in {1, 2} : mem'[<<"flush_time", i>>] = 0
          /\ SameMarks(mem, mem') /\ SameItems(mem, mem')
      BY <1>3, <2>1, CreatedHeader, Zenon DEF CreateHeader
    <2>3. PTypeOK'
      <3>1. IsMemory(mem')
        BY <2>2 DEF PTypeOK, IsMemory, SameMarks
      <3>2. /\ pool' \in [pc : Creating \cup Starting \cup {"crashed", "refused", "run"}, at : Nat, created : BOOLEAN]
            /\ pool'.pc \notin Starting
        BY <2>1, Zenon DEF PTypeOK, Creating, Starting
      <3> QED
        BY <1>2, <2>1, <3>1, <3>2, Zenon DEF PTypeOK
    <2>4. pool'.pc = "header" /\ ~pool'.created
      BY <1>1, <2>1 DEF PTypeOK
    <2>5. HeaderInv'
      BY <1>1, <1>2, <2>1, <2>2, <2>4 DEF HeaderInv, Creating, Starting
    <2>6. \A c \in Cells : ~HasItem(mem', c) /\ ~HasItem(dur', c)
      BY <1>1, <2>1, <2>2 DEF HasItem, SameItems
    <2>7. FrameInv'
      BY <1>1, <2>1, <2>2, <2>6, FrameKept, Zenon DEF SameMarks
    <2>8. StartInv'
      BY <1>1, <1>2, <2>4, <2>6, Zenon DEF StartInv, Creating, Starting
    <2>9. OwnerInv' /\ PageInv'
      BY <1>1, <1>2, <2>4 DEF OwnerInv, PageInv
    <2> QED
      BY <2>3, <2>5, <2>7, <2>8, <2>9
  <1>4. CASE CreatePersist
    <2>1. /\ mem' = mem /\ dur' = [x \in Fields |-> mem[x]]
          /\ pool.pc = "header" /\ pool' = [pool EXCEPT !.pc = "valid", !.at = 1]
      BY <1>4 DEF CreatePersist, At, GoOn, Persist
    <2>2. /\ DOMAIN dur' = Fields /\ \A x \in Fields : dur'[x] = mem[x]
      BY <2>1, Zenon
    <2>3. IsMemory(dur')
      BY <2>2, FieldsIn, Zenon DEF PTypeOK, IsMemory
    <2>4. PTypeOK'
      <3>2. /\ pool' \in [pc : Creating \cup Starting \cup {"crashed", "refused", "run"}, at : Nat, created : BOOLEAN]
            /\ pool'.pc \notin Starting
        BY <2>1, Zenon DEF PTypeOK, Creating, Starting
      <3> QED
        BY <1>2, <2>1, <2>3, <3>2 DEF PTypeOK
    <2>5. pool'.pc = "valid" /\ ~pool'.created
      BY <1>1, <2>1, Zenon DEF PTypeOK
    <2>6. dur'[<<"valid">>] = 0
      BY <1>1, <2>2, FieldsIn
    <2>7. HeaderInv'
      BY <1>1, <1>2, <2>1, <2>5, <2>6 DEF HeaderInv, Creating, Starting
    <2>8. \A c \in Cells : ~HasItem(mem', c) /\ ~HasItem(dur', c)
      BY <1>1, <2>1, <2>2, FieldsIn DEF HasItem
    <2>9. FrameInv'
      BY <2>1, <2>2, <2>8, FieldsIn DEF FrameInv
    <2>10. Settled'
      BY <2>1, <2>2, Zenon DEF Settled
    <2>11. StartInv'
      BY <1>1, <1>2, <2>5, <2>8, <2>10, Zenon DEF StartInv, Creating, Starting
    <2>12. OwnerInv' /\ PageInv'
      BY <1>1, <1>2, <2>5 DEF OwnerInv, PageInv
    <2> QED
      BY <2>4, <2>7, <2>9, <2>11, <2>12
  <1>5. CASE CreateValid
    <2>1. /\ mem' = With(mem, <<"valid">>, 1) /\ dur' = With(dur, <<"valid">>, 1)
          /\ pool.pc = "valid" /\ pool' = [pool EXCEPT !.pc = "prefill", !.at = 1, !.created = TRUE]
          /\ Settled /\ mem[<<"body">>] = Body /\ Holds(mem, 1, 0)
          /\ DOMAIN mem = Fields /\ DOMAIN dur = Fields
      BY <1>5 DEF CreateValid, At, StorePersist, With, StartInv, HeaderInv, PTypeOK, IsMemory
    <2>2. /\ DOMAIN mem' = Fields /\ SameMarks(mem, mem') /\ SameItems(mem, mem')
          /\ mem'[<<"valid">>] = 1 /\ mem'[<<"body">>] = mem[<<"body">>]
          /\ \A i \in {1, 2} : /\ mem'[<<"flush_time", i>>] = mem[<<"flush_time", i>>]
                               /\ mem'[<<"checksum", i>>] = mem[<<"checksum", i>>]
      BY <2>1, StoreValid
    <2>3. DOMAIN dur' = Fields /\ Settled'
      BY <2>1, FieldsIn, Zenon DEF Settled, With
    <2>4. IsMemory(mem') /\ IsMemory(dur')
      BY <2>2, <2>3, FieldsIn DEF PTypeOK, IsMemory, SameMarks, Settled
    <2>5. pool'.pc = "prefill" /\ pool'.created /\ pool'.at = 1
      BY <2>1 DEF PTypeOK
    <2>6. PTypeOK'
      <3>2. pool' \in [pc : Creating \cup Starting \cup {"crashed", "refused", "run"}, at : Nat, created : BOOLEAN]
        BY <2>1, Zenon DEF PTypeOK, Creating, Starting
      <3>3. pool'.at \in Frames
        BY <2>5 DEF Frames, Configured
      <3> QED
        BY <1>2, <2>3, <2>4, <3>2, <3>3 DEF PTypeOK
    <2>7. /\ Accepted(mem') /\ FlushTime(mem') = 0
          /\ Accepted(dur') /\ FlushTime(dur') = 0 /\ dur'[<<"valid">>] = 1
      BY <2>1, <2>2, <2>3, FieldsIn, SMTT(30), Z3T(30) DEF Accepted, FlushTime, pslab_checksum_check, Holds, Settled
    <2>8. HeaderInv'
      BY <1>1, <1>2, <2>2, <2>5, <2>7, Zenon DEF HeaderInv, Creating, Starting
    <2>9. \A c \in Cells : ~HasItem(mem', c) /\ ~HasItem(dur', c)
      BY <1>1, <2>2, <2>3, FieldsIn DEF HasItem, SameItems, Settled
    <2>10. FrameInv'
      BY <2>1, <2>2, <2>3, <2>9, FrameKept, FieldsIn, Zenon DEF SameMarks, Settled
    <2>11. StartInv'
      BY <1>1, <1>2, <2>3, <2>5, SMTT(30), Z3T(30) DEF StartInv, Creating, Starting, IsInjective, Range, Frames
    <2>12. OwnerInv' /\ PageInv'
      BY <1>1, <1>2, <2>5, <2>9, Zenon DEF OwnerInv, PageInv, NoPages
    <2> QED
      BY <2>6, <2>8, <2>10, <2>11, <2>12, Zenon
  <1> QED
    BY <1>3, <1>4, <1>5
-----------------------------------------------------------------------------
(* The invariant is about what the pool and the server hold.               *)
LEMMA StutterStep ==
  ASSUME PoolInv, UNCHANGED <<mem, dur, owned, free, slots, linked, setup, flush, pool>>, clock' \in Nat \ {0}
  PROVE  PoolInv'
  <1> PTypeOK /\ HeaderInv /\ FrameInv /\ StartInv /\ OwnerInv /\ PageInv
    BY Zenon DEF PoolInv
  <1>1. PTypeOK'
    BY Zenon DEF PTypeOK
  <1>2. HeaderInv'
    BY Zenon DEF HeaderInv
  <1>3. FrameInv' /\ PageInv'
    BY DEF FrameInv, PageInv, Owned
  <1>4. StartInv'
    BY Zenon DEF StartInv, Settled
  <1>5. OwnerInv'
    BY DEF OwnerInv, Renewed, Owned
  <1> QED
    BY <1>1, <1>2, <1>3, <1>4, <1>5 DEF PoolInv

(* The clock.                                                              *)
LEMMA TickStep ==
  ASSUME PoolInv, Tick
  PROVE  PoolInv'
  <1>1. UNCHANGED <<mem, dur, owned, free, slots, linked, setup, flush, pool>> /\ clock' \in Nat \ {0}
    BY DEF Tick, volatile, PoolInv, PTypeOK
  <1> QED
    BY <1>1, StutterStep, Zenon

(* The cache writes a field back: the medium only becomes more like what   *)
(* the program reads.                                                      *)
LEMMA EvictStep ==
  ASSUME PoolInv, NEW x \in Fields, Evict(x)
  PROVE  PoolInv'
  <1> PTypeOK /\ HeaderInv /\ FrameInv /\ StartInv /\ OwnerInv /\ PageInv
    BY DEF PoolInv
  <1> SUFFICES PTypeOK' /\ HeaderInv' /\ FrameInv' /\ StartInv' /\ OwnerInv' /\ PageInv'
    BY DEF PoolInv
  <1>1. /\ UNCHANGED <<mem, owned, free, slots, linked, setup, flush, pool, clock>>
        /\ mem[x] # dur[x]
    BY Zenon DEF Evict, volatile, server
  <1>2. DOMAIN dur' = Fields /\ \A y \in Fields : dur'[y] = dur[y] \/ dur'[y] = mem[y]
    BY WriteBack, Zenon DEF Evict, PTypeOK, IsMemory
  <1>3. pool.pc \in {"header", "run"}
    BY <1>1, Zenon DEF StartInv, Settled, PTypeOK, Creating, Starting
  <1>4. SameMarks(dur, dur') /\ SameMarks(mem, mem')
    BY <1>1, <1>2, FieldsIn, Zenon DEF FrameInv, SameMarks
  <1>5. dur'[<<"valid">>] = dur[<<"valid">>]
    BY <1>2, FieldsIn, Zenon DEF HeaderInv
  <1>6. IsMemory(dur')
    BY <1>2, <1>4, <1>5, FieldsIn, SMTT(30), Z3T(30) DEF PTypeOK, IsMemory, SameMarks
  <1>7. PTypeOK'
    BY <1>1, <1>6 DEF PTypeOK
  <1>8. \A c \in Cells : HasItem(dur', c) => HasItem(mem, c) \/ HasItem(dur, c)
    BY <1>2, FieldsIn DEF HasItem
  <1>9. HeaderInv'
    <2>1. CASE pool.created
      <3>1. PICK v : v = mem[<<"valid">>]
        BY Zenon
      <3>2. v \in {1, 2} /\ dur[<<"valid">>] = v
        BY <2>1, <3>1, Zenon DEF HeaderInv, Accepted
      <3>3. /\ mem[<<"body">>] = Body /\ dur[<<"body">>] = Body
            /\ mem[<<"flush_time", v>>] = dur[<<"flush_time", v>>]
            /\ mem[<<"checksum", v>>] = dur[<<"checksum", v>>]
        BY <2>1, <3>1, <3>2, Zenon DEF HeaderInv, Accepted, FlushTime, pslab_checksum_check
      <3>4. /\ dur'[<<"body">>] = Body
            /\ dur'[<<"flush_time", v>>] = dur[<<"flush_time", v>>]
            /\ dur'[<<"checksum", v>>] = dur[<<"checksum", v>>]
        BY <1>2, <3>2, <3>3, FieldsIn, Zenon
      <3>5. Accepted(dur') /\ FlushTime(dur') = FlushTime(dur)
        BY <1>5, <2>1, <3>2, <3>3, <3>4 DEF HeaderInv, Accepted, FlushTime, pslab_checksum_check
      <3>6. flush.pc = "valid" => Holds(dur', flush.slot, flush.time)
        <4>1. flush.pc = "valid" => /\ flush.slot \in {1, 2}
                                    /\ Holds(dur, flush.slot, flush.time) /\ Holds(mem, flush.slot, flush.time)
          BY <3>1, <3>2 DEF HeaderInv
        <4> QED
          BY <1>2, <4>1, FieldsIn, Zenon DEF Holds
      <3> QED
        BY <1>1, <1>5, <2>1, <3>5, <3>6 DEF HeaderInv
    <2>2. CASE ~pool.created
      BY <1>1, <1>3, <1>5, <2>2, Zenon DEF HeaderInv, Starting, Creating
    <2> QED
      BY <2>1, <2>2, Zenon
  <1>10. FrameInv'
    BY <1>1, <1>4, <1>8, FrameKept, Zenon
  <1>11. StartInv'
    BY <1>1, <1>3, <1>8, SMTT(30), Z3T(30) DEF StartInv, Creating, Starting, HasItem
  <1>12. OwnerInv'
    <2>1. \A f \in Frames : (Renewed(f)' <=> Renewed(f)) /\ (Owned(f)' <=> Owned(f)) /\ Linked(mem, f)' = Linked(mem, f)
      BY <1>1, Zenon DEF Renewed, Owned, Linked, HasItem
    <2>2. \A c \in Cells : c[1] \in Frames /\ (HasItem(mem, c)' <=> HasItem(mem, c))
      BY <1>1, Zenon DEF HasItem, Cells
    <2> SUFFICES ASSUME pool.pc = "run"
                 PROVE  OwnerInv'
      BY <1>1, <1>3, Zenon DEF OwnerInv
    <2>3. \A c \in Cells : Renewed(c[1])' /\ (HasItem(mem', c) \/ HasItem(dur', c)) => Owned(c[1])'
      BY <1>1, <1>8, <2>1, <2>2, Zenon DEF OwnerInv
    <2>4. \A c \in Cells : c \in linked' <=> Renewed(c[1])' /\ HasItem(mem', c)
      BY <1>1, <2>1, <2>2, Zenon DEF OwnerInv
    <2>5. \A f \in Frames, k \in Classes : f \in owned'[k] =>
            /\ Renewed(f)'
            /\ \A j \in Classes : f \in owned'[j] => j = k
            /\ \/ mem'[<<"id", f>>] = k /\ mem'[<<"size", f>>] = SizeOf[k]
               \/ setup'.pc \in {"size", "id"} /\ setup'.frame = f /\ setup'.class = k
            /\ pool'.pc # "run" => Linked(mem', f) # {}
      BY <1>1, <2>1, SMTT(30), Z3T(30) DEF OwnerInv
    <2>6. /\ slots' \cap linked' = {}
          /\ \A c \in Cells :
               c \in slots' \cup linked' <=> \E k \in Classes : c[1] \in owned'[k] /\ c[2] % SizeOf[k] = 0
      BY <1>1 DEF OwnerInv
    <2> QED
      BY <2>3, <2>4, <2>5, <2>6, Zenon DEF OwnerInv
  <1>13. PageInv'
    BY <1>1, <1>3, <1>8, Zenon DEF PageInv, Owned, HasItem
  <1> QED
    BY <1>7, <1>9, <1>10, <1>11, <1>12, <1>13, Zenon

(* A crash leaves what is on the medium.                                   *)
LEMMA CrashStep ==
  ASSUME Configured, PoolInv, Crash
  PROVE  PoolInv'
  <1> PTypeOK /\ HeaderInv /\ FrameInv
    BY DEF PoolInv
  <1> SUFFICES PTypeOK' /\ HeaderInv' /\ FrameInv' /\ StartInv' /\ OwnerInv' /\ PageInv'
    BY DEF PoolInv
  <1>1. /\ mem' = dur /\ dur' = dur /\ clock' = clock
        /\ owned' = NoPages /\ free' = <<>> /\ slots' = {} /\ linked' = {}
        /\ setup' = NoSetup /\ flush' = NoFlush
        /\ pool' = [pool EXCEPT !.pc = "crashed", !.at = 1]
    BY DEF Crash, GoOn
  <1>2. pool'.pc = "crashed" /\ pool'.created = pool.created
    BY <1>1 DEF PTypeOK
  <1>3. PTypeOK'
    <2>1. pool' \in [pc : Creating \cup Starting \cup {"crashed", "refused", "run"}, at : Nat, created : BOOLEAN]
      BY <1>1, Zenon DEF PTypeOK
    <2>2. pool'.pc \notin Starting
      BY <1>2 DEF Starting
    <2>3. /\ setup' \in [pc : {"idle", "split", "size", "id"}, frame : Frames \cup {0}, class : Classes \cup {0}]
          /\ flush' \in [pc : {"idle", "time", "persist", "valid"}, slot : 0..2, time : Nat, done : Nat]
          /\ setup'.pc = "idle"
      BY <1>1 DEF NoSetup, NoFlush
    <2>4. owned' \in [Classes -> SUBSET Frames]
      BY <1>1 DEF NoPages
    <2> QED
      BY <1>1, <2>1, <2>2, <2>3, <2>4 DEF PTypeOK
  <1>4. HeaderInv'
    BY <1>1, <1>2 DEF HeaderInv, Creating, Starting, NoFlush
  <1>5. FrameInv'
    <2>1. \A c \in Cells : c[1] \in Frames
      BY DEF Cells
    <2> QED
      BY <1>1, <2>1 DEF FrameInv, HasItem
  <1>6. StartInv'
    BY <1>1, <1>2 DEF StartInv, Settled, Creating, Starting, NoSetup
  <1>7. OwnerInv' /\ PageInv'
    BY <1>1, <1>2 DEF OwnerInv, PageInv, NoSetup
  <1> QED
    BY <1>3, <1>4, <1>5, <1>6, <1>7

(* Recovery checks the header.                                             *)
LEMMA CheckStep ==
  ASSUME Configured, PoolInv, pslab_pre_recover
  PROVE  PoolInv'
  <1> PTypeOK /\ HeaderInv /\ FrameInv /\ StartInv /\ OwnerInv /\ PageInv
    BY DEF PoolInv
  <1> SUFFICES PTypeOK' /\ HeaderInv' /\ FrameInv' /\ StartInv' /\ OwnerInv' /\ PageInv'
    BY DEF PoolInv
  <1>1. /\ UNCHANGED <<mem, dur, owned, free, slots, linked, setup, clock>> /\ pool.pc = "crashed"
        /\ pool' = [pool EXCEPT !.pc = IF Accepted(mem) THEN "walk" ELSE "refused", !.at = 1]
        /\ flush' = IF Accepted(mem) THEN [NoFlush EXCEPT !.done = FlushTime(mem)] ELSE NoFlush
    BY DEF pslab_pre_recover, At, GoOn
  <1>2. /\ pool'.created = pool.created /\ pool'.at = 1
        /\ pool'.pc = IF Accepted(mem) THEN "walk" ELSE "refused"
    BY <1>1 DEF PTypeOK
  <1>3. flush'.pc = "idle" /\ (Accepted(mem) => flush'.done = FlushTime(mem))
    BY <1>1, Zenon DEF NoFlush
  <1>4. Accepted(mem) <=> pool.created
    BY DEF HeaderInv, Accepted
  <1>5. PTypeOK'
    <2>1. pool' \in [pc : Creating \cup Starting \cup {"crashed", "refused", "run"}, at : Nat, created : BOOLEAN]
      BY <1>1, Zenon DEF PTypeOK, Starting
    <2>2. pool'.at \in Frames
      BY <1>2 DEF Frames, Configured
    <2>3. Accepted(mem) => FlushTime(mem) \in Nat
      BY Zenon DEF Accepted, FlushTime, PTypeOK, IsMemory
    <2>4. flush' \in [pc : {"idle", "time", "persist", "valid"}, slot : 0..2, time : Nat, done : Nat]
      BY <1>1, <2>3 DEF NoFlush
    <2> QED
      BY <1>1, <2>1, <2>2, <2>4 DEF PTypeOK
  <1>6. HeaderInv'
    BY <1>1, <1>2, <1>3, <1>4 DEF HeaderInv, Creating, Starting
  <1>7. FrameInv'
    BY <1>1 DEF FrameInv, HasItem
  <1>8. StartInv'
    BY <1>1, <1>2 DEF StartInv, Settled, Creating, Starting
  <1>9. OwnerInv' /\ PageInv'
    BY <1>1, <1>2 DEF OwnerInv, PageInv, StartInv, Starting
  <1> QED
    BY <1>5, <1>6, <1>7, <1>8, <1>9
-----------------------------------------------------------------------------
(* A walk goes on to the next frame, and to the next stage after the last. *)
LEMMA WalkOn ==
  ASSUME Configured, PTypeOK, pool.pc \in Starting, NEW pc \in Starting \cup {"run"}, NextFrame(pc)
  PROVE  /\ pool' \in [pc : Creating \cup Starting \cup {"crashed", "refused", "run"}, at : Nat, created : BOOLEAN]
         /\ pool'.at \in Frames /\ pool'.created = pool.created
         /\ \/ pool'.pc = pc /\ pool'.at = 1 /\ pool.at = FrameCount
            \/ pool'.pc = pool.pc /\ pool'.at = pool.at + 1 /\ pool.at < FrameCount
  <1>1. pool.at \in Frames /\ 1 \in Frames /\ FrameCount \in Nat
    BY DEF PTypeOK, Frames, Configured
  <1>2. CASE pool.at = FrameCount
    BY <1>1, <1>2, Zenon DEF NextFrame, PTypeOK
  <1>3. CASE pool.at # FrameCount
    <2>1. pool.at + 1 \in Frames /\ pool.at < FrameCount
      BY <1>1, <1>3 DEF Frames
    <2> QED
      BY <1>1, <1>3, <2>1, SMTT(30), Z3T(30) DEF NextFrame, PTypeOK, Frames
  <1> QED
    BY <1>2, <1>3, Zenon

(* A page more in the pool.                                                *)
LEMMA PageAdded ==
  ASSUME NEW q \in Seq(Frames), IsInjective(q), NEW f \in Frames, f \notin Range(q)
  PROVE  /\ Append(q, f) \in Seq(Frames) /\ IsInjective(Append(q, f))
         /\ Range(Append(q, f)) = Range(q) \cup {f}
  BY DEF IsInjective, Range

(* The last page leaves the pool.                                          *)
LEMMA PageTaken ==
  ASSUME NEW q \in Seq(Frames), IsInjective(q), q # <<>>
  PROVE  /\ SubSeq(q, 1, Len(q) - 1) \in Seq(Frames) /\ IsInjective(SubSeq(q, 1, Len(q) - 1))
         /\ q[Len(q)] \in Range(q) /\ q[Len(q)] \in Frames
         /\ Range(SubSeq(q, 1, Len(q) - 1)) = Range(q) \ {q[Len(q)]}
  <1>1. PICK n \in Nat : n = Len(q) /\ n # 0 /\ DOMAIN q = 1..n
    OBVIOUS
  <1>2. PICK p : p = SubSeq(q, 1, Len(q) - 1)
    BY Zenon
  <1>3. p \in Seq(Frames) /\ DOMAIN p = 1..(n - 1) /\ \A i \in 1..(n - 1) : p[i] = q[i]
    BY <1>1, <1>2
  <1>4. q[Len(q)] = q[n] /\ n \in 1..n /\ q[n] \in Frames
    BY <1>1
  <1>5. \A i \in 1..n : i \in 1..(n - 1) \/ i = n
    BY <1>1
  <1>6. \A i \in 1..(n - 1) : i \in 1..n /\ i # n
    BY <1>1
  <1>7. \A i, j \in 1..n : q[i] = q[j] => i = j
    BY <1>1 DEF IsInjective
  <1>8. IsInjective(p)
    BY <1>3, <1>6, <1>7, Zenon DEF IsInjective
  <1>9. /\ \A x : x \in Range(q) <=> \E i \in 1..n : x = q[i]
        /\ \A x : x \in Range(p) <=> \E i \in 1..(n - 1) : x = q[i]
    BY <1>1, <1>3 DEF Range
  <1>10. \A x : x \in Range(p) <=> x \in Range(q) /\ x # q[n]
    BY <1>4, <1>5, <1>6, <1>7, <1>9, Zenon
  <1>11. Range(p) = Range(q) \ {q[n]}
    BY <1>10, Zenon
  <1>12. q[n] \in Range(q)
    BY <1>4, <1>9
  <1> QED
    BY <1>2, <1>3, <1>4, <1>8, <1>11, <1>12, Zenon

(* The items a flush_all outdated are unlinked.                            *)
LEMMA RecoverStep ==
  ASSUME Configured, PoolInv, RecoverFrame
  PROVE  PoolInv'
  <1> PTypeOK /\ HeaderInv /\ FrameInv /\ StartInv /\ OwnerInv /\ PageInv
    BY DEF PoolInv
  <1> SUFFICES PTypeOK' /\ HeaderInv' /\ FrameInv' /\ StartInv' /\ OwnerInv' /\ PageInv'
    BY Zenon DEF PoolInv
  <1>1. /\ pool.pc = "walk" /\ NextFrame("renew")
        /\ UNCHANGED <<owned, free, slots, linked, setup, flush, clock>>
    BY Zenon DEF RecoverFrame, At, volatile
  <1>2. PICK S \in SUBSET Cells : mem' = Cleared(mem, S) /\ dur' = Cleared(dur, S)
    <2> DEFINE S == {c \in ChunksOf(mem, pool.at) \cap Linked(mem, pool.at) : item_is_flushed(mem[Item(c)])}
    <2>1. S \in SUBSET Cells /\ {} \in SUBSET Cells
      BY DEF Linked
    <2>2. {Item(c) : c \in {}} = {}
      OBVIOUS
    <2>3. CASE mem[<<"id", pool.at>>] = 0
      BY <2>1, <2>2, <2>3, Zenon DEF RecoverFrame, Cleared
    <2>4. CASE mem[<<"id", pool.at>>] # 0
      <3>1. mem' = Cleared(mem, S) /\ dur' = Cleared(dur, S)
        BY <2>4, Zenon DEF RecoverFrame, Cleared
      <3> QED
        BY <2>1, <3>1, Zenon
    <2> QED
      BY <2>3, <2>4, Zenon
  <1>3. DOMAIN mem = Fields /\ DOMAIN dur = Fields
    BY Zenon DEF PTypeOK, IsMemory
  <1>4. /\ DOMAIN mem' = Fields /\ SameHeader(mem, mem') /\ SameMarks(mem, mem')
        /\ \A d \in Cells : mem'[Item(d)] = IF d \in S THEN NoItem ELSE mem[Item(d)]
    BY <1>2, <1>3, ClearItems
  <1>5. /\ DOMAIN dur' = Fields /\ SameHeader(dur, dur') /\ SameMarks(dur, dur')
        /\ \A d \in Cells : dur'[Item(d)] = IF d \in S THEN NoItem ELSE dur[Item(d)]
    BY <1>2, <1>3, ClearItems
  <1>6. /\ pool' \in [pc : Creating \cup Starting \cup {"crashed", "refused", "run"}, at : Nat, created : BOOLEAN]
        /\ pool'.at \in Frames /\ pool'.created = pool.created
        /\ pool'.pc = "walk" \/ (pool'.pc = "renew" /\ pool'.at = 1)
    BY <1>1, WalkOn, Zenon DEF Starting
  <1>7. PTypeOK'
    <2>1. IsMemory(mem') /\ IsMemory(dur')
      BY <1>4, <1>5, SMTT(30), Z3T(30) DEF PTypeOK, IsMemory, SameHeader, SameMarks
    <2> QED
      BY <1>1, <1>6, <2>1, Zenon DEF PTypeOK
  <1>8. HeaderInv'
    BY <1>1, <1>4, <1>5, <1>6, HeaderKept, Zenon DEF Starting
  <1>9. \A c \in Cells : /\ HasItem(mem', c) => HasItem(mem, c)
                         /\ HasItem(dur', c) => HasItem(dur, c)
    BY <1>4, <1>5, NoItemUnlinked, Zenon DEF HasItem
  <1>10. FrameInv'
    BY <1>4, <1>5, <1>9, FrameKept, Zenon
  <1>11. Settled'
    BY <1>1, <1>2, Zenon DEF Cleared, Settled, StartInv, Starting
  <1>12. /\ owned' = NoPages /\ slots' = {} /\ linked' = {} /\ free' = <<>> /\ setup'.pc = "idle"
    BY <1>1, Zenon DEF StartInv, Starting
  <1>13. StartInv'
    BY <1>6, <1>11, <1>12, Zenon DEF StartInv, Starting, Creating
  <1>14. OwnerInv'
    <2>1. pool'.pc = "renew" => \A f \in Frames : ~Renewed(f)'
      BY <1>6 DEF Renewed, Frames
    <2>2. \A c \in Cells : c[1] \in Frames
      BY Zenon DEF Cells
    <2> QED
      BY <1>6, <1>12, <2>1, <2>2, Zenon DEF OwnerInv, NoPages
  <1>15. PageInv'
    BY <1>6, <1>12, Zenon DEF PageInv
  <1> QED
    BY <1>7, <1>8, <1>10, <1>13, <1>14, <1>15
-----------------------------------------------------------------------------

(* A chunk is linked or unlinked: no page is being set up then, so that    *)
(* the frame of the chunk is marked with its class.                        *)
LEMMA LinkStep ==
  ASSUME Configured, PoolInv, NEW c \in Cells, do_item_link(c) \/ do_item_unlink(c)
  PROVE  PoolInv'
  <1> PTypeOK /\ HeaderInv /\ FrameInv /\ StartInv /\ OwnerInv /\ PageInv
    BY DEF PoolInv
  <1> SUFFICES PTypeOK' /\ HeaderInv' /\ FrameInv' /\ StartInv' /\ OwnerInv' /\ PageInv'
    BY DEF PoolInv
  <1>1. /\ pool.pc = "run" /\ setup.pc = "idle" /\ c \in slots \cup linked
        /\ UNCHANGED <<owned, free, setup, flush, pool, clock>>
    BY Zenon DEF do_item_link, do_item_unlink, Running, At, server
  <1>2. PICK it : /\ mem' = With(mem, Item(c), it)
                  /\ dur' = dur \/ dur' = With(dur, Item(c), it)
                  /\ \/ /\ "LINKED" \in it.flags /\ c \in slots
                        /\ slots' = slots \ {c} /\ linked' = linked \cup {c}
                     \/ /\ "LINKED" \notin it.flags /\ c \in linked
                        /\ linked' = linked \ {c} /\ slots' = slots \cup {c}
    <2>1. CASE do_item_link(c)
      <3> DEFINE new == [flags |-> NewFlags(mem[Item(c)].flags) \cup {"LINKED"}, time |-> clock]
      <3>1. /\ mem' = With(mem, Item(c), new)
            /\ dur' = dur \/ dur' = With(dur, Item(c), new)
            /\ c \in slots /\ slots' = slots \ {c} /\ linked' = linked \cup {c}
        BY <2>1, Zenon DEF do_item_link, StorePersist, Store, With
      <3>2. "LINKED" \in new.flags
        BY Zenon
      <3> QED
        BY <3>1, <3>2
    <2>2. CASE do_item_unlink(c)
      <3>1. /\ mem' = With(mem, Item(c), NoItem)
            /\ dur' = dur \/ dur' = With(dur, Item(c), NoItem)
            /\ c \in linked /\ linked' = linked \ {c} /\ slots' = slots \cup {c}
        BY <2>2, Zenon DEF do_item_unlink, StorePersist, Store, With
      <3> QED
        BY <3>1, NoItemUnlinked, Zenon
    <2> QED
      BY <2>1, <2>2, Zenon
  <1>3. DOMAIN mem = Fields /\ DOMAIN dur = Fields
    BY Zenon DEF PTypeOK, IsMemory
  <1>4. /\ DOMAIN mem' = Fields /\ SameHeader(mem, mem') /\ SameMarks(mem, mem')
        /\ \A d \in Cells : mem'[Item(d)] = IF d = c THEN it ELSE mem[Item(d)]
    BY <1>2, <1>3, StoreItem
  <1>5. /\ DOMAIN dur' = Fields /\ SameHeader(dur, dur') /\ SameMarks(dur, dur')
        /\ \A d \in Cells : dur'[Item(d)] = dur[Item(d)] \/ (d = c /\ dur'[Item(d)] = it)
    <2>1. CASE dur' = dur
      BY <1>3, <2>1, Zenon DEF SameHeader, SameMarks
    <2>2. CASE dur' = With(dur, Item(c), it)
      <3>1. /\ DOMAIN dur' = Fields /\ SameHeader(dur, dur') /\ SameMarks(dur, dur')
            /\ \A d \in Cells : dur'[Item(d)] = IF d = c THEN it ELSE dur[Item(d)]
        BY <1>3, <2>2, StoreItem
      <3> QED
        BY <3>1, Zenon
    <2> QED
      BY <1>2, <2>1, <2>2, Zenon
  <1>6. PTypeOK'
    <2>1. IsMemory(mem') /\ IsMemory(dur')
      BY <1>4, <1>5 DEF PTypeOK, IsMemory, SameHeader, SameMarks
    <2> QED
      BY <1>1, <1>2, <2>1, Zenon DEF PTypeOK
  <1>7. HeaderInv'
    BY <1>1, <1>4, <1>5, HeaderKept, Zenon
  <1>8. \A d \in Cells : /\ d[1] \in Frames
                         /\ d # c => (HasItem(mem', d) <=> HasItem(mem, d))
                         /\ HasItem(mem', c) <=> "LINKED" \in it.flags
                         /\ d # c => (HasItem(dur', d) <=> HasItem(dur, d))
                         /\ HasItem(dur', c) => HasItem(dur, c) \/ "LINKED" \in it.flags
    BY <1>4, <1>5, Zenon DEF HasItem, Cells
  <1>9. PICK k \in Classes : /\ c[1] \in owned[k] /\ c[2] % SizeOf[k] = 0
                             /\ mem[<<"id", c[1]>>] = k /\ mem[<<"size", c[1]>>] = SizeOf[k]
    <2>1. PICK k \in Classes : c[1] \in owned[k] /\ c[2] % SizeOf[k] = 0
      BY <1>1, Zenon DEF OwnerInv
    <2>2. mem[<<"id", c[1]>>] = k /\ mem[<<"size", c[1]>>] = SizeOf[k]
      BY <1>1, <1>8, <2>1, Zenon DEF OwnerInv
    <2> QED
      BY <2>1, <2>2, Zenon
  <1>10. FrameInv'
    <2>1. ASSUME NEW d \in Cells, HasItem(mem', d) \/ HasItem(dur', d)
          PROVE  \E j \in Classes : /\ mem[<<"id", d[1]>>] = j /\ mem[<<"size", d[1]>>] = SizeOf[j]
                                    /\ d[2] % SizeOf[j] = 0
      <3>1. CASE d = c
        BY <1>9, <3>1, Zenon
      <3>2. CASE d # c
        BY <1>8, <2>1, <3>2, Zenon DEF FrameInv
      <3> QED
        BY <3>1, <3>2
    <2> QED
      BY <1>4, <1>5, <1>8, <2>1 DEF FrameInv, SameMarks
  <1>11. StartInv'
    BY <1>1, Zenon DEF StartInv, Creating, Starting
  <1>12. /\ \A g \in Frames : Renewed(g)' /\ Renewed(g) /\ (Owned(g)' <=> Owned(g))
         /\ Owned(c[1])
    BY <1>1, <1>9, Zenon DEF Renewed, Owned
  <1>13. OwnerInv'
    <2>1. /\ slots \cap linked = {}
          /\ \A d \in Cells : d \in linked <=> HasItem(mem, d)
          /\ \A d \in Cells : HasItem(mem, d) \/ HasItem(dur, d) => Owned(d[1])
      BY <1>1, <1>8, <1>12, Zenon DEF OwnerInv
    <2>2. slots' \cap linked' = {} /\ slots' \cup linked' = slots \cup linked
      BY <1>2, <2>1, Zenon
    <2>3. \A d \in Cells : d \in linked' <=> HasItem(mem', d)
      BY <1>2, <1>8, <2>1, Zenon
    <2>4. \A d \in Cells : HasItem(mem', d) \/ HasItem(dur', d) => Owned(d[1])
      BY <1>8, <1>12, <2>1, Zenon
    <2>5. \A g \in Frames, k1 \in Classes : g \in owned'[k1] =>
            /\ \A k2 \in Classes : g \in owned'[k2] => k2 = k1
            /\ \/ mem'[<<"id", g>>] = k1 /\ mem'[<<"size", g>>] = SizeOf[k1]
               \/ setup'.pc \in {"size", "id"} /\ setup'.frame = g /\ setup'.class = k1
      BY <1>1, <1>4, SMTT(30), Z3T(30) DEF OwnerInv, SameMarks
    <2>6. \A d \in Cells :
            d \in slots' \cup linked' <=> \E k1 \in Classes : d[1] \in owned'[k1] /\ d[2] % SizeOf[k1] = 0
      BY <1>1, <2>2 DEF OwnerInv
    <2> QED
      BY <1>1, <1>8, <1>12, <2>2, <2>3, <2>4, <2>5, <2>6 DEF OwnerInv
  <1>14. PageInv'
    BY <1>1, Zenon DEF PageInv, Owned
  <1> QED
    BY <1>6, <1>7, <1>10, <1>11, <1>13, <1>14, Zenon
-----------------------------------------------------------------------------
(* A frame with items goes back to the class it is marked with, its linked *)
(* chunks to the table and the others to the free ones.                    *)
LEMMA RenewStep ==
  ASSUME Configured, PoolInv, RenewFrame
  PROVE  PoolInv'
  <1> PTypeOK /\ HeaderInv /\ FrameInv /\ StartInv /\ OwnerInv /\ PageInv
    BY DEF PoolInv
  <1> SUFFICES PTypeOK' /\ HeaderInv' /\ FrameInv' /\ StartInv' /\ OwnerInv' /\ PageInv'
    BY DEF PoolInv
  <1> PICK f : f = pool.at
    BY Zenon
  <1> DEFINE kept == ChunksOf(mem, f) \cap Linked(mem, f)
  <1>1. /\ pool.pc = "renew" /\ NextFrame("prefill")
        /\ UNCHANGED <<mem, dur, free, setup, flush, clock>>
    BY Zenon DEF RenewFrame, At
  <1>2. /\ pool' \in [pc : Creating \cup Starting \cup {"crashed", "refused", "run"}, at : Nat, created : BOOLEAN]
        /\ pool'.at \in Frames /\ pool'.created = pool.created
        /\ \/ pool'.pc = "prefill" /\ pool'.at = 1 /\ f = FrameCount
           \/ pool'.pc = "renew" /\ pool'.at = f + 1
    BY <1>1, WalkOn, Zenon DEF Starting
  <1>3. f \in Frames /\ free = <<>> /\ setup.pc = "idle" /\ Settled
    BY <1>1, Zenon DEF PTypeOK, StartInv, Starting
  <1>4. \A g \in Frames : (Renewed(g)' <=> g <= f) /\ (Renewed(g) <=> g < f) /\ (g <= f <=> g < f \/ g = f)
    BY <1>1, <1>2, <1>3 DEF Renewed, Frames, Configured
  <1>5. \A c \in Cells : c[1] \in Frames /\ (HasItem(dur, c) <=> HasItem(mem, c))
    BY <1>3, FieldsIn, Zenon DEF Cells, HasItem, Settled
  <1>6. HeaderInv'
    BY <1>1, <1>2, HeaderKept, Zenon DEF Starting, SameHeader
  <1>7. FrameInv'
    BY <1>1, FrameKept, Zenon DEF SameMarks
  <1>8. /\ \A g \in Frames, k \in Classes : g \in owned[k] =>
             /\ g < f
             /\ \A j \in Classes : g \in owned[j] => j = k
             /\ mem[<<"id", g>>] = k /\ mem[<<"size", g>>] = SizeOf[k] /\ Linked(mem, g) # {}
        /\ slots \cap linked = {}
        /\ \A c \in Cells : c \in slots \cup linked <=> \E k \in Classes : c[1] \in owned[k] /\ c[2] % SizeOf[k] = 0
        /\ \A c \in Cells : c \in linked <=> c[1] < f /\ HasItem(mem, c)
        /\ \A c \in Cells : c[1] < f /\ HasItem(mem, c) => Owned(c[1])
    BY <1>1, <1>3, <1>4, <1>5, Zenon DEF OwnerInv
  <1>9. Linked(mem, f) \subseteq kept
    BY <1>3, Zenon DEF FrameInv, Linked, ChunksOf, HasItem
  <1>10. CASE mem[<<"id", f>>] = 0 \/ kept = {}
    <2>1. UNCHANGED <<owned, slots, linked>>
      BY <1>10, Zenon DEF RenewFrame
    <2>2. \A c \in Cells : c[1] = f => ~HasItem(mem, c)
      <3> SUFFICES ASSUME NEW c \in Cells, c[1] = f, HasItem(mem, c)
                   PROVE  FALSE
        BY Zenon
      <3>1. mem[<<"id", f>>] # 0
        <4>1. PICK k \in Classes : mem[<<"id", c[1]>>] = k
          BY Zenon DEF FrameInv
        <4>2. k # 0
          BY Zenon DEF Configured
        <4> QED
          BY <4>1, <4>2
      <3>2. c \in kept
        BY <1>9, Zenon DEF Linked, HasItem
      <3> QED
        BY <1>10, <3>1, <3>2, Zenon
    <2>3. PTypeOK'
      BY <1>1, <1>2, <2>1, Zenon DEF PTypeOK
    <2>4. \A g \in Frames : Owned(g)' <=> Owned(g)
      BY <2>1, Zenon DEF Owned
    <2>5. OwnerInv'
      BY <1>1, <1>2, <1>4, <1>5, <1>8, <2>1, <2>2, <2>4 DEF OwnerInv
    <2>6. StartInv'
      BY <1>1, <1>2, <1>3, SMTT(30), Z3T(30) DEF StartInv, Starting, Creating, Settled, Range, IsInjective, Frames
    <2>7. PageInv'
      BY <1>1, <1>2, <1>3 DEF PageInv
    <2> QED
      BY <1>6, <1>7, <2>3, <2>5, <2>6, <2>7, Zenon
  <1>11. CASE mem[<<"id", f>>] # 0 /\ kept # {}
    <2>1. PICK k \in Classes : mem[<<"id", f>>] = k /\ mem[<<"size", f>>] = SizeOf[k]
      BY <1>11 DEF FrameInv, Linked, HasItem
    <2>2. /\ owned' = [owned EXCEPT ![k] = @ \cup {f}]
          /\ linked' = linked \cup kept /\ slots' = slots \cup (ChunksOf(mem, f) \ kept)
      BY <1>11, <2>1, Zenon DEF RenewFrame
    <2>3. /\ \A c \in Cells : c \in ChunksOf(mem, f) <=> c[1] = f /\ c[2] % SizeOf[k] = 0
          /\ \A c \in Cells : c \in kept <=> c[1] = f /\ HasItem(mem, c)
          /\ kept \subseteq Cells /\ ChunksOf(mem, f) \subseteq Cells /\ kept \subseteq ChunksOf(mem, f)
      BY <1>9, <2>1, Zenon DEF ChunksOf, Linked, HasItem
    <2>4. /\ owned'[k] = owned[k] \cup {f}
          /\ \A j \in Classes : j # k => owned'[j] = owned[j]
          /\ owned' \in [Classes -> SUBSET Frames]
      BY <1>3, <2>1, <2>2 DEF PTypeOK
    <2>5. \A j \in Classes : f \notin owned[j]
      <3>1. ~(f < f)
        BY <1>3 DEF Frames, Configured
      <3> QED
        BY <1>3, <1>8, <3>1, Zenon
    <2>6. PTypeOK'
      BY <1>1, <1>2, <2>2, <2>3, <2>4, ZenonT(30) DEF PTypeOK
    <2>7. Linked(mem, f) # {}
      BY <1>11, Zenon
    <2>8. \A g \in Frames, j \in Classes : g \in owned'[j] =>
             /\ g <= f
             /\ \A i \in Classes : g \in owned'[i] => i = j
             /\ mem[<<"id", g>>] = j /\ mem[<<"size", g>>] = SizeOf[j] /\ Linked(mem, g) # {}
      BY <1>3, <1>4, <1>8, <2>1, <2>4, <2>5, <2>7
    <2>9. \A c \in Cells : c \in slots \cup linked => c[1] # f
      BY <1>5, <1>8, <2>5, Zenon
    <2> HIDE DEF kept
    <2>10. slots' \cap linked' = {}
      BY <1>8, <2>2, <2>3, <2>9, ZenonT(30) DEF PTypeOK
    <2>11. \A c \in Cells : c \in slots' \cup linked' <=> \E j \in Classes : c[1] \in owned'[j] /\ c[2] % SizeOf[j] = 0
      BY <1>8, <2>1, <2>2, <2>3, <2>4, <2>5
    <2>12. \A c \in Cells : c \in linked' <=> c[1] <= f /\ HasItem(mem, c)
      BY <1>4, <1>5, <1>8, <2>2, <2>3, Zenon
    <2>13. \A g \in Frames : Owned(g)' <=> Owned(g) \/ g = f
      BY <2>1, <2>4, ZenonT(30) DEF Owned
    <2>14. OwnerInv'
      BY <1>1, <1>2, <1>4, <1>5, <1>8, <2>8, <2>10, <2>11, <2>12, <2>13 DEF OwnerInv
    <2>15. StartInv'
      BY <1>1, <1>2, <1>3 DEF StartInv, Starting, Creating, Settled, Range, IsInjective, Frames
    <2>16. PageInv'
      BY <1>1, <1>2, <1>3, Zenon DEF PageInv
    <2> QED
      BY <1>6, <1>7, <2>6, <2>14, <2>15, <2>16
  <1> QED
    BY <1>10, <1>11

(* A frame without an item is offered; after the last one the server has   *)
(* every frame, in a class or in the pool.                                 *)
LEMMA PrefillStep ==
  ASSUME Configured, PoolInv, slabs_prefill_global_from_pmem
  PROVE  PoolInv'
  <1> PTypeOK /\ HeaderInv /\ FrameInv /\ StartInv /\ OwnerInv /\ PageInv
    BY DEF PoolInv
  <1> SUFFICES PTypeOK' /\ HeaderInv' /\ FrameInv' /\ StartInv' /\ OwnerInv' /\ PageInv'
    BY DEF PoolInv
  <1> PICK f : f = pool.at
    OBVIOUS
  <1>1. /\ pool.pc = "prefill" /\ NextFrame("run")
        /\ UNCHANGED <<mem, dur, owned, slots, linked, setup, flush, clock>>
        /\ free' = IF Offered(mem, f) THEN Append(free, f) ELSE free
    BY DEF slabs_prefill_global_from_pmem, At
  <1>2. /\ pool' \in [pc : Creating \cup Starting \cup {"crashed", "refused", "run"}, at : Nat, created : BOOLEAN]
        /\ pool'.at \in Frames /\ pool'.created = pool.created
        /\ \/ pool'.pc = "run" /\ f = FrameCount
           \/ pool'.pc = "prefill" /\ pool'.at = f + 1
    BY <1>1, WalkOn, Zenon DEF Starting
  <1>3. /\ f \in Frames /\ free \in Seq(Frames) /\ setup.pc = "idle" /\ Settled
        /\ IsInjective(free) /\ \A g \in Frames : g \in Range(free) <=> g < f /\ Offered(mem, g)
    BY <1>1, Zenon DEF PTypeOK, StartInv, Starting
  <1>4. \A g \in Frames : (g < f + 1 <=> g < f \/ g = f) /\ ~(f < f) /\ g <= FrameCount
    BY <1>3 DEF Frames, Configured
  <1>5. /\ free' \in Seq(Frames) /\ IsInjective(free')
        /\ \A g \in Frames : g \in Range(free') <=> g < f + 1 /\ Offered(mem, g)
        /\ Range(free') \subseteq Frames
    <2>1. f \notin Range(free) /\ Range(free) \subseteq Frames
      BY <1>3, <1>4 DEF Range
    <2>2. CASE Offered(mem, f)
      <3>1. /\ free' \in Seq(Frames) /\ IsInjective(free') /\ Range(free') = Range(free) \cup {f}
        BY <1>1, <1>3, <2>1, <2>2, PageAdded, Zenon
      <3> QED
        BY <1>3, <1>4, <2>1, <2>2, <3>1, Zenon
    <2>3. CASE ~Offered(mem, f)
      BY <1>1, <1>3, <1>4, <2>1, <2>3, Zenon
    <2> QED
      BY <2>2, <2>3, Zenon
  <1>6. PTypeOK'
    BY <1>1, <1>2, <1>5, Zenon DEF PTypeOK
  <1>7. HeaderInv'
    BY <1>1, <1>2, HeaderKept, Zenon DEF Starting, SameHeader
  <1>8. FrameInv'
    BY <1>1, FrameKept DEF SameMarks
  <1>9. StartInv'
    BY <1>1, <1>2, <1>3, <1>5, ZenonT(30) DEF StartInv, Starting, Creating, Settled, Offered
  <1>10. \A g \in Frames : Renewed(g)' /\ Renewed(g) /\ (Owned(g)' <=> Owned(g))
    BY <1>1, <1>2 DEF Renewed, Owned
  <1>11. \A c \in Cells : c[1] \in Frames
    BY DEF Cells
  <1>12. OwnerInv'
    <2>1. /\ pool.pc = "prefill"
          /\ mem' = mem /\ dur' = dur /\ owned' = owned /\ slots' = slots /\ linked' = linked
          /\ setup' = setup
      BY <1>1
    <2>2. \A c \in Cells : (HasItem(mem, c)' <=> HasItem(mem, c)) /\ (HasItem(dur, c)' <=> HasItem(dur, c))
      BY <2>1, Zenon DEF HasItem
    <2>3. \A g \in Frames : Linked(mem, g)' = Linked(mem, g)
      BY <2>1, Zenon DEF Linked, HasItem
    <2>4. \A g \in Frames, h \in Classes : g \in owned'[h] =>
            /\ Renewed(g)'
            /\ \A j \in Classes : g \in owned'[j] => j = h
            /\ \/ mem'[<<"id", g>>] = h /\ mem'[<<"size", g>>] = SizeOf[h]
               \/ setup'.pc \in {"size", "id"} /\ setup'.frame = g /\ setup'.class = h
            /\ pool'.pc # "run" => Linked(mem, g)' # {}
      <3>1. ASSUME NEW g \in Frames, NEW h \in Classes, g \in owned[h]
            PROVE  /\ Renewed(g)'
                   /\ \A j \in Classes : g \in owned[j] => j = h
                   /\ \/ mem[<<"id", g>>] = h /\ mem[<<"size", g>>] = SizeOf[h]
                      \/ setup.pc \in {"size", "id"} /\ setup.frame = g /\ setup.class = h
                   /\ Linked(mem, g) # {}
        BY <1>10, <2>1, <3>1, Zenon DEF OwnerInv
      <3> QED
        BY <2>1, <2>3, <3>1, Zenon
    <2>5. /\ slots' \cap linked' = {}
          /\ \A c \in Cells : c \in slots' \cup linked' <=>
               \E h \in Classes : c[1] \in owned'[h] /\ c[2] % SizeOf[h] = 0
      BY <2>1, Zenon DEF OwnerInv
    <2>6. \A c \in Cells : c \in linked' <=> Renewed(c[1])' /\ HasItem(mem, c)'
      BY <1>10, <1>11, <2>1, <2>2, Zenon DEF OwnerInv
    <2>7. \A c \in Cells : Renewed(c[1])' /\ (HasItem(mem, c)' \/ HasItem(dur, c)') => Owned(c[1])'
      BY <1>10, <1>11, <2>1, <2>2, Zenon DEF OwnerInv
    <2> QED
      BY <2>4, <2>5, <2>6, <2>7, Zenon DEF OwnerInv
  <1>13. PageInv'
    <2>1. CASE pool'.pc = "prefill"
      BY <1>1, <1>3, <2>1, Zenon DEF PageInv
    <2>2. CASE pool'.pc = "run"
      <3>1. \A g \in Frames : g \in Range(free') <=> Offered(mem, g)
        BY <1>2, <1>4, <1>5, <2>2 DEF Frames, Configured
      <3>2. ASSUME NEW g \in Frames, Offered(mem, g)
            PROVE  ~Owned(g)
        <4>1. ASSUME NEW k \in Classes, g \in owned[k]
              PROVE  FALSE
          <5>1. mem[<<"id", g>>] = k /\ Linked(mem, g) # {}
            BY <1>1, <1>3, <4>1, Zenon DEF OwnerInv
          <5> QED
            BY <3>2, <5>1 DEF Offered, Configured
        <4> QED
          BY <4>1, Zenon DEF Owned
      <3>3. ASSUME NEW g \in Frames, ~Offered(mem, g)
            PROVE  Owned(g)
        <4>1. PICK c \in Cells : c[1] = g /\ HasItem(mem, c)
          BY <3>3, Zenon DEF Offered, Linked, HasItem
        <4> QED
          BY <1>1, <1>10, <4>1, Zenon DEF OwnerInv
      <3>4. setup'.pc = "idle"
        BY <1>1, <1>3, Zenon
      <3>5. \A g \in Range(free') : ~Owned(g)'
        BY <1>5, <1>10, <3>1, <3>2, Zenon
      <3>6. \A g \in Frames : Owned(g)' \/ g \in Range(free')
        BY <1>10, <3>1, <3>3, Zenon
      <3> QED
        BY <1>5, <3>4, <3>5, <3>6, Zenon DEF PageInv
    <2> QED
      BY <1>2, <2>1, <2>2, SMTT(30), Z3T(30)
  <1> QED
    BY <1>6, <1>7, <1>8, <1>9, <1>12, <1>13
-----------------------------------------------------------------------------
(* A page leaves the pool and is zeroed.                                   *)
LEMMA TakeStep ==
  ASSUME Configured, PoolInv, NEW k \in Classes, TakePage(k)
  PROVE  PoolInv'
  <1> PTypeOK /\ HeaderInv /\ FrameInv /\ StartInv /\ OwnerInv /\ PageInv
    BY DEF PoolInv
  <1> SUFFICES PTypeOK' /\ HeaderInv' /\ FrameInv' /\ StartInv' /\ OwnerInv' /\ PageInv'
    BY DEF PoolInv
  <1> PICK f : f = free[Len(free)]
    BY Zenon
  <1>1. /\ pool.pc = "run" /\ setup.pc = "idle" /\ free # <<>>
        /\ setup' = [pc |-> "split", frame |-> f, class |-> k] /\ free' = SubSeq(free, 1, Len(free) - 1)
        /\ UNCHANGED <<owned, slots, linked, flush, pool, clock>>
    BY Zenon DEF TakePage, Running, At, server
  <1>2. /\ SubSeq(free, 1, Len(free) - 1) \in Seq(Frames) /\ IsInjective(SubSeq(free, 1, Len(free) - 1))
        /\ f \in Range(free) /\ f \in Frames
        /\ Range(SubSeq(free, 1, Len(free) - 1)) = Range(free) \ {f}
    BY <1>1, PageTaken DEF PTypeOK, PageInv
  <1>3. PICK S \in SUBSET Cells : S = {c \in Cells : c[1] = f}
    BY Zenon
  <1>4. mem' = Cleared(mem, S) /\ dur' = Cleared(dur, S)
    BY <1>3, Zenon DEF TakePage, Cleared
  <1>5. DOMAIN mem = Fields /\ DOMAIN dur = Fields
    BY Zenon DEF PTypeOK, IsMemory
  <1>6. /\ DOMAIN mem' = Fields /\ SameHeader(mem, mem') /\ SameMarks(mem, mem')
        /\ \A d \in Cells : mem'[Item(d)] = IF d \in S THEN NoItem ELSE mem[Item(d)]
    BY <1>4, <1>5, ClearItems, SMTT(30), Z3T(30)
  <1>7. /\ DOMAIN dur' = Fields /\ SameHeader(dur, dur') /\ SameMarks(dur, dur')
        /\ \A d \in Cells : dur'[Item(d)] = IF d \in S THEN NoItem ELSE dur[Item(d)]
    BY <1>4, <1>5, ClearItems
  <1>8. PTypeOK'
    <2>1. IsMemory(mem') /\ IsMemory(dur')
      BY <1>6, <1>7, SMTT(30), Z3T(30) DEF PTypeOK, IsMemory, SameHeader, SameMarks
    <2> QED
      BY <1>1, <1>2, <2>1, Zenon DEF PTypeOK
  <1>9. HeaderInv'
    BY <1>1, <1>6, <1>7, HeaderKept, Zenon
  <1>10. ~Owned(f)
    BY <1>1, <1>2, Zenon DEF PageInv
  <1>11. \A c \in Cells : /\ c[1] \in Frames
                          /\ HasItem(mem', c) => HasItem(mem, c)
                          /\ HasItem(dur', c) => HasItem(dur, c)
                          /\ c[1] = f => ~HasItem(mem', c) /\ ~HasItem(dur', c)
    BY <1>3, <1>6, <1>7, NoItemUnlinked, Zenon DEF HasItem, Cells
  <1>12. \A c \in Cells : HasItem(mem, c) => HasItem(mem', c)
    <2>1. \A c \in Cells : c[1] = f => ~HasItem(mem, c)
      BY <1>1, <1>2, <1>10, Zenon DEF OwnerInv, Renewed
    <2> QED
      BY <1>3, <1>6, <2>1, Zenon DEF HasItem
  <1>13. FrameInv'
    BY <1>6, <1>7, <1>11, FrameKept, Zenon
  <1>14. StartInv'
    BY <1>1, Zenon DEF StartInv, Creating, Starting
  <1>15. \A g \in Frames : Renewed(g)' /\ Renewed(g) /\ (Owned(g)' <=> Owned(g))
    BY <1>1, SMTT(30), Z3T(30) DEF Renewed, Owned
  <1>16. OwnerInv'
    <2>1. SUFFICES ASSUME pool'.pc \in {"renew", "prefill", "run"} PROVE OwnerInv'
      BY Zenon DEF OwnerInv
    <2>2. \A g \in Frames, h \in Classes : g \in owned'[h] =>
            /\ Renewed(g)'
            /\ \A j \in Classes : g \in owned'[j] => j = h
            /\ \/ mem'[<<"id", g>>] = h /\ mem'[<<"size", g>>] = SizeOf[h]
               \/ setup'.pc \in {"size", "id"} /\ setup'.frame = g /\ setup'.class = h
            /\ pool'.pc # "run" => Linked(mem, g)' # {}
      BY <1>1, <1>6, <1>15, ZenonT(30) DEF OwnerInv, SameMarks
    <2>3. /\ slots' \cap linked' = {}
          /\ \A c \in Cells : c \in slots' \cup linked' <=>
               \E h \in Classes : c[1] \in owned'[h] /\ c[2] % SizeOf[h] = 0
      BY <1>1, Zenon DEF OwnerInv
    <2>4. \A c \in Cells : c \in linked' <=> Renewed(c[1])' /\ HasItem(mem, c)'
      BY <1>1, <1>11, <1>12, <1>15, Zenon DEF OwnerInv
    <2>5. \A c \in Cells : Renewed(c[1])' /\ (HasItem(mem, c)' \/ HasItem(dur, c)') => Owned(c[1])'
      BY <1>1, <1>11, <1>15, Zenon DEF OwnerInv
    <2> QED
      BY <2>2, <2>3, <2>4, <2>5, Zenon DEF OwnerInv
  <1>17. PageInv'
    <2>1. setup'.pc = "split" /\ setup'.frame = f
      BY <1>1
    <2>2. Range(free') \subseteq Frames /\ f \notin Range(free') /\ Range(free') \subseteq Range(free)
      <3>1. Range(free) \subseteq Frames
        BY DEF PTypeOK, Range
      <3> QED
        BY <1>1, <1>2, <3>1
    <2>3. \A g \in Frames : Owned(g)' \/ g \in Range(free') \/ g = f
      BY <1>1, <1>2, <1>15 DEF PageInv
    <2>4. \A g \in Range(free') : ~Owned(g)'
      BY <1>1, <1>15, <2>2, Zenon DEF PageInv
    <2>5. IsInjective(free') /\ ~Owned(f)'
      BY <1>1, <1>2, <1>10, <1>15, Zenon
    <2>6. ~Owned(setup.frame)'
      BY <2>1, <2>5, Zenon DEF Owned
    <2> QED
      BY <1>11, <2>1, <2>2, <2>3, <2>4, <2>5, <2>6, Zenon DEF PageInv
  <1> QED
    BY <1>8, <1>9, <1>13, <1>14, <1>16, <1>17, Zenon

(* Its chunks become free chunks of its class.                             *)
LEMMA SplitStep ==
  ASSUME Configured, PoolInv, SplitPage
  PROVE  PoolInv'
  <1> PTypeOK /\ HeaderInv /\ FrameInv /\ StartInv /\ OwnerInv /\ PageInv
    BY Zenon DEF PoolInv
  <1> SUFFICES PTypeOK' /\ HeaderInv' /\ FrameInv' /\ StartInv' /\ OwnerInv' /\ PageInv'
    BY DEF PoolInv
  <1> PICK f, k : f = setup.frame /\ k = setup.class
    OBVIOUS
  <1>1. /\ setup.pc = "split" /\ setup' = [setup EXCEPT !.pc = "size"]
        /\ slots' = slots \cup NewChunks /\ owned' = [owned EXCEPT ![k] = @ \cup {f}]
        /\ UNCHANGED <<mem, dur, free, linked, flush, pool, clock>>
    BY DEF SplitPage, Set, server
  <1>2. f \in Frames /\ k \in Classes /\ pool.pc = "run"
    BY <1>1 DEF PTypeOK, StartInv
  <1>3. setup'.pc = "size" /\ setup'.frame = f /\ setup'.class = k
    BY <1>1 DEF PTypeOK
  <1>4. /\ owned'[k] = owned[k] \cup {f}
        /\ \A j \in Classes : j # k => owned'[j] = owned[j]
        /\ owned' \in [Classes -> SUBSET Frames]
    BY <1>1, <1>2 DEF PTypeOK
  <1>5. PTypeOK'
    <2>1. setup' \in [pc : {"idle", "split", "size", "id"}, frame : Frames \cup {0}, class : Classes \cup {0}]
      BY <1>1, Zenon DEF PTypeOK
    <2>2. slots' \in SUBSET Cells
      BY <1>1 DEF PTypeOK, NewChunks
    <2> QED
      BY <1>1, <1>2, <1>3, <1>4, <2>1, <2>2 DEF PTypeOK
  <1>6. HeaderInv'
    BY <1>1, HeaderKept DEF SameHeader
  <1>7. FrameInv'
    BY <1>1, FrameKept DEF SameMarks
  <1>8. StartInv'
    BY <1>1, <1>2 DEF StartInv, Creating, Starting
  <1>9. /\ f \notin Range(free) /\ ~Owned(f)
        /\ \A c \in Cells : c[1] = f => ~HasItem(mem, c) /\ ~HasItem(dur, c)
    BY <1>1, <1>2 DEF PageInv
  <1>10. /\ \A g \in Frames : Renewed(g)' /\ Renewed(g) /\ (Owned(g)' <=> Owned(g) \/ g = f)
         /\ \A c \in Cells : c[1] \in Frames
    BY <1>1, <1>2, <1>4, Zenon DEF Renewed, Owned, Cells
  <1>11. \A j \in Classes : f \notin owned[j]
    BY <1>9, Zenon DEF Owned
  <1>12. OwnerInv'
    <2>1. \A c \in Cells : c \in NewChunks <=> c[1] = f /\ c[2] % SizeOf[k] = 0
      BY DEF NewChunks
    <2>2. \A g \in Frames, j \in Classes : g \in owned'[j] =>
             /\ \A i \in Classes : g \in owned'[i] => i = j
             /\ \/ mem[<<"id", g>>] = j /\ mem[<<"size", g>>] = SizeOf[j]
                \/ g = f /\ j = k
      BY <1>1, <1>2, <1>4, <1>11 DEF OwnerInv
    <2>3. \A c \in Cells : c \in linked => c[1] # f
      BY <1>2, <1>9, <1>10, Zenon DEF OwnerInv
    <2>4. slots' \cap linked' = {}
      BY <1>1, <1>2, <2>1, <2>3, Zenon DEF OwnerInv, NewChunks
    <2>5. \A c \in Cells : c \in slots \cup linked <=> \E j \in Classes : c[1] \in owned[j] /\ c[2] % SizeOf[j] = 0
      BY <1>2, Zenon DEF OwnerInv
    <2>6. \A c \in Cells : c \in slots' \cup linked' <=> \E j \in Classes : c[1] \in owned'[j] /\ c[2] % SizeOf[j] = 0
      BY <1>1, <1>2, <1>4, <1>11, <2>1, <2>5, Zenon
    <2> QED
      BY <1>1, <1>2, <1>3, <1>10, <2>2, <2>4, <2>6 DEF OwnerInv
  <1>13. PageInv'
    <2>1. Range(free) \subseteq Frames
      BY DEF PTypeOK, Range
    <2>2. \A g \in Range(free) : ~Owned(g)'
      BY <1>2, <1>9, <1>10, <2>1, Zenon DEF PageInv
    <2>3. \A g \in Frames : Owned(g)' \/ g \in Range(free)
      BY <1>2, <1>10, Zenon DEF PageInv
    <2> QED
      BY <1>1, <1>2, <1>3, <1>4, <1>9, <2>2, <2>3, Zenon DEF PageInv
  <1> QED
    BY <1>5, <1>6, <1>7, <1>8, <1>12, <1>13

(* The page is marked, its size before its class: until the class is       *)
(* stored there is no item in it to be read with the wrong size.           *)
LEMMA UseStep ==
  ASSUME Configured, PoolInv, pslab_use_slab
  PROVE  PoolInv'
  <1> PTypeOK /\ HeaderInv /\ FrameInv /\ StartInv /\ OwnerInv /\ PageInv
    BY DEF PoolInv
  <1> SUFFICES PTypeOK' /\ HeaderInv' /\ FrameInv' /\ StartInv' /\ OwnerInv' /\ PageInv'
    BY DEF PoolInv
  <1> PICK f, k : f = setup.frame /\ k = setup.class
    BY Zenon
  <1>1. /\ setup.pc \in {"size", "id"} /\ f \in Frames /\ k \in Classes /\ pool.pc = "run"
        /\ UNCHANGED <<owned, free, slots, linked, flush, pool, clock>>
    BY Zenon DEF pslab_use_slab, PTypeOK, StartInv, server
  <1>2. /\ DOMAIN mem = Fields /\ DOMAIN dur = Fields
        /\ SizeOf[k] \in Nat /\ SizeOf[k] # 0 /\ k # 0
    BY <1>1 DEF PTypeOK, IsMemory, Configured
  <1>3. /\ f \in owned[k]
        /\ \A c \in Cells : c[1] = f => ~HasItem(mem, c) /\ ~HasItem(dur, c)
    BY <1>1, Zenon DEF PageInv
  <1>4. PICK x, v : /\ x \in {"id", "size"}
                    /\ mem' = WithMark(mem, x, f, v) /\ dur' = WithMark(dur, x, f, v)
                    /\ \/ /\ setup.pc = "size" /\ x = "size" /\ v = SizeOf[k]
                          /\ setup' = [setup EXCEPT !.pc = "id"]
                       \/ setup.pc = "id" /\ x = "id" /\ v = k /\ setup' = NoSetup
    <2>1. CASE setup.pc = "size"
      <3>1. /\ mem' = WithMark(mem, "size", f, SizeOf[k]) /\ dur' = WithMark(dur, "size", f, SizeOf[k])
            /\ setup' = [setup EXCEPT !.pc = "id"]
        BY <2>1 DEF pslab_use_slab, StorePersist, WithMark, use_order, UseValue, Set
      <3> QED
        BY <2>1, <3>1
    <2>2. CASE setup.pc = "id"
      <3>1. /\ mem' = WithMark(mem, "id", f, k) /\ dur' = WithMark(dur, "id", f, k)
            /\ setup' = NoSetup
        BY <2>2, Zenon DEF pslab_use_slab, StorePersist, WithMark, use_order, UseValue, Set
      <3> QED
        BY <2>2, <3>1
    <2> QED
      BY <1>1, <2>1, <2>2
  <1>5. /\ DOMAIN mem' = Fields /\ SameHeader(mem, mem') /\ SameItems(mem, mem') /\ mem'[<<x, f>>] = v
        /\ \A g \in Frames, j \in {"id", "size"} : g # f \/ j # x => mem'[<<j, g>>] = mem[<<j, g>>]
    <2>1. MarkStored(mem, mem', x, f, v)
      BY <1>1, <1>2, <1>4, StoreMark, Zenon
    <2> QED
      BY <2>1 DEF MarkStored
  <1>6. /\ DOMAIN dur' = Fields /\ SameHeader(dur, dur') /\ SameItems(dur, dur') /\ dur'[<<x, f>>] = v
        /\ \A g \in Frames, j \in {"id", "size"} : g # f \/ j # x => dur'[<<j, g>>] = dur[<<j, g>>]
    <2>1. MarkStored(dur, dur', x, f, v)
      BY <1>1, <1>2, <1>4, StoreMark
    <2> QED
      BY <2>1 DEF MarkStored
  <1>7. \A g \in Frames \ {f} : /\ mem'[<<"id", g>>] = mem[<<"id", g>>] /\ mem'[<<"size", g>>] = mem[<<"size", g>>]
                                /\ dur'[<<"id", g>>] = dur[<<"id", g>>] /\ dur'[<<"size", g>>] = dur[<<"size", g>>]
    BY <1>5, <1>6, Zenon
  <1>8. \/ /\ setup.pc = "size" /\ setup'.pc = "id" /\ setup'.frame = f /\ setup'.class = k
           /\ mem'[<<"size", f>>] = SizeOf[k] /\ dur'[<<"size", f>>] = SizeOf[k]
           /\ mem'[<<"id", f>>] = mem[<<"id", f>>] /\ dur'[<<"id", f>>] = dur[<<"id", f>>]
        \/ /\ setup.pc = "id" /\ setup' = NoSetup /\ mem'[<<"id", f>>] = k /\ dur'[<<"id", f>>] = k
           /\ mem'[<<"size", f>>] = SizeOf[k] /\ dur'[<<"size", f>>] = SizeOf[k]
    BY <1>1, <1>4, <1>5, <1>6 DEF PTypeOK, PageInv, FrameInv
  <1>9. PTypeOK'
    <2>1. \A g \in Frames : /\ mem'[<<"id", g>>] \in Classes \cup {0} /\ mem'[<<"size", g>>] \in Nat
                            /\ dur'[<<"id", g>>] \in Classes \cup {0} /\ dur'[<<"size", g>>] \in Nat
      BY <1>1, <1>2, <1>7, <1>8, ZenonT(30) DEF PTypeOK, IsMemory
    <2>2. IsMemory(mem') /\ IsMemory(dur')
      BY <1>5, <1>6, <2>1 DEF PTypeOK, IsMemory, SameHeader
    <2>3. /\ setup' \in [pc : {"idle", "split", "size", "id"}, frame : Frames \cup {0}, class : Classes \cup {0}]
          /\ setup'.pc # "idle" => setup'.frame \in Frames /\ setup'.class \in Classes
      BY <1>1, <1>4 DEF PTypeOK, NoSetup
    <2> QED
      BY <1>1, <2>2, <2>3 DEF PTypeOK
  <1>10. HeaderInv'
    BY <1>1, <1>5, <1>6, HeaderKept, Zenon
  <1>11. \A c \in Cells : /\ c[1] \in Frames
                          /\ HasItem(mem', c) <=> HasItem(mem, c)
                          /\ HasItem(dur', c) <=> HasItem(dur, c)
    BY <1>5, <1>6, Zenon DEF HasItem, SameItems, Cells
  <1>12. FrameInv'
    <2>1. \A g \in Frames : /\ mem'[<<"id", g>>] = dur'[<<"id", g>>] /\ mem'[<<"size", g>>] = dur'[<<"size", g>>]
                            /\ mem'[<<"id", g>>] # 0 => mem'[<<"size", g>>] # 0
      BY <1>2, <1>7, <1>8, ZenonT(30) DEF FrameInv
    <2>2. ASSUME NEW c \in Cells, HasItem(mem', c) \/ HasItem(dur', c)
          PROVE  \E j \in Classes : /\ mem'[<<"id", c[1]>>] = j /\ mem'[<<"size", c[1]>>] = SizeOf[j]
                                    /\ c[2] % SizeOf[j] = 0
      <3>1. c[1] \in Frames \ {f}
        BY <1>3, <1>11, <2>2, Zenon
      <3>2. \E j \in Classes : /\ mem[<<"id", c[1]>>] = j /\ mem[<<"size", c[1]>>] = SizeOf[j]
                               /\ c[2] % SizeOf[j] = 0
        BY <1>11, <2>2, Zenon DEF FrameInv
      <3> QED
        BY <1>7, <3>1, <3>2
    <2> QED
      BY <2>1, <2>2 DEF FrameInv
  <1>13. StartInv'
    BY <1>1, Zenon DEF StartInv, Creating, Starting
  <1>14. \A g \in Frames : Renewed(g)' /\ Renewed(g) /\ (Owned(g)' <=> Owned(g))
    BY <1>1, SMTT(30), Z3T(30) DEF Renewed, Owned
  <1>15. OwnerInv'
    <2>1. \A g \in Frames, j \in Classes : g \in owned[j] =>
            /\ \A i \in Classes : g \in owned[i] => i = j
            /\ \/ mem[<<"id", g>>] = j /\ mem[<<"size", g>>] = SizeOf[j]
               \/ setup.pc \in {"size", "id"} /\ f = g /\ k = j
      BY <1>1, Zenon DEF OwnerInv
    <2>2. \A g \in Frames, j \in Classes : g \in owned[j] =>
            \/ mem'[<<"id", g>>] = j /\ mem'[<<"size", g>>] = SizeOf[j]
            \/ setup'.pc \in {"size", "id"} /\ setup'.frame = g /\ setup'.class = j
      BY <1>1, <1>3, <1>7, <1>8, <2>1, SMTT(30), Z3T(30)
    <2>3. \A c \in Cells : /\ c \in linked' <=> Renewed(c[1])' /\ HasItem(mem', c)
                           /\ Renewed(c[1])' /\ (HasItem(mem', c) \/ HasItem(dur', c)) => Owned(c[1])'
      BY <1>1, <1>11, <1>14, Zenon DEF OwnerInv
    <2>4. \A g \in Frames, j \in Classes : g \in owned'[j] =>
            /\ Renewed(g)'
            /\ \A i \in Classes : g \in owned'[i] => i = j
            /\ \/ mem'[<<"id", g>>] = j /\ mem'[<<"size", g>>] = SizeOf[j]
               \/ setup'.pc \in {"size", "id"} /\ setup'.frame = g /\ setup'.class = j
            /\ pool'.pc # "run" => Linked(mem', g) # {}
      <3>1. owned' = owned /\ pool'.pc = "run"
        BY <1>1, Zenon
      <3> QED
        BY <1>14, <2>1, <2>2, <3>1, ZenonT(30)
    <2>5. /\ slots' \cap linked' = {} /\ pool'.pc = "run"
          /\ \A c \in Cells :
               c \in slots' \cup linked' <=> \E j \in Classes : c[1] \in owned'[j] /\ c[2] % SizeOf[j] = 0
      BY <1>1, SMTT(30), Z3T(30) DEF OwnerInv
    <2> QED
      BY <2>3, <2>4, <2>5, Zenon DEF OwnerInv
  <1>16. PageInv'
    <2>1. /\ setup'.pc = "idle" \/ (setup'.pc = "id" /\ setup'.frame = f /\ setup'.class = k)
          /\ setup.pc # "split"
      BY <1>1, <1>8 DEF NoSetup
    <2>2. Range(free) \subseteq Frames
      BY SMTT(30), Z3T(30) DEF PTypeOK, Range
    <2>3. /\ IsInjective(free)
          /\ \A g \in Range(free) : ~Owned(g)'
          /\ \A g \in Frames : Owned(g)' \/ g \in Range(free)
      BY <1>1, <1>14, <2>1, <2>2, Zenon DEF PageInv
    <2> QED
      BY <1>1, <1>3, <1>8, <1>11, <2>1, <2>3, SMTT(30), Z3T(30) DEF PageInv
  <1> QED
    BY <1>9, <1>10, <1>12, <1>13, <1>15, <1>16, Zenon
-----------------------------------------------------------------------------
(* Every step of the pool keeps the invariant.                             *)
LEMMA PoolStep ==
  ASSUME Configured, PoolInv, [PNext]_pVars
  PROVE  PoolInv'
  <1>1. CASE PNext
    BY <1>1, CreateStep, CheckStep, RecoverStep, RenewStep, PrefillStep, TakeStep, SplitStep, UseStep,
       LinkStep, FlushStep, TickStep, EvictStep, CrashStep, SMTT(30), Z3T(30) DEF PNext
  <1>2. CASE UNCHANGED pVars
    BY <1>2, StutterStep, Zenon DEF pVars, PoolInv, PTypeOK
  <1> QED
    BY <1>1, <1>2, Zenon

(* What the invariant says of a crash.                                     *)
LEMMA InvReadable ==
  ASSUME Configured, PoolInv
  PROVE  CrashReadable
  <1>1. PoolRecovers
    BY Zenon DEF PoolInv, HeaderInv, PoolRecovers, Running, At
  <1>2. FramesReadable
    <2>1. \A f \in Frames : dur[<<"id", f>>] # 0 => dur[<<"size", f>>] # 0
      BY Zenon DEF PoolInv, FrameInv
    <2>2. ASSUME NEW f \in Frames, NEW c \in Linked(dur, f)
          PROVE  dur[<<"id", f>>] # 0 /\ c \in ChunksOf(dur, f)
      <3>1. c \in Cells /\ c[1] = f /\ HasItem(dur, c)
        BY Zenon DEF Linked, HasItem
      <3>2. PICK k \in Classes : dur[<<"id", f>>] = k /\ dur[<<"size", f>>] = SizeOf[k] /\ c[2] % SizeOf[k] = 0
        BY <3>1, Zenon DEF PoolInv, FrameInv
      <3> QED
        BY <3>1, <3>2, Zenon DEF ChunksOf, Configured
    <2> QED
      BY <2>1, <2>2, Zenon DEF FramesReadable
  <1> QED
    BY <1>1, <1>2, Zenon DEF CrashReadable

(* What the invariant says of a running server.                            *)
LEMMA InvExact ==
  ASSUME Configured, PoolInv
  PROVE  RecoveryExact
  <1> SUFFICES ASSUME pool.pc = "run"
               PROVE  /\ IsInjective(free)
                      /\ \A f \in Frames :
                           \/ f \in PagePool /\ \A k \in Classes : f \notin owned[k]
                           \/ f \notin PagePool /\ \E k \in Classes : \A j \in Classes : f \in owned[j] <=> j = k
                      /\ slots \cap linked = {}
                      /\ slots \cup linked = UNION {{c \in Cells : c[1] \in owned[k] /\ c[2] % SizeOf[k] = 0} : k \in Classes}
                      /\ linked = UNION {Linked(mem, f) : f \in Frames}
    BY DEF RecoveryExact, Running, At
  <1> PTypeOK /\ OwnerInv /\ PageInv
    BY Zenon DEF PoolInv
  <1>1. ASSUME NEW f \in Frames
        PROVE  \/ f \in PagePool /\ \A k \in Classes : f \notin owned[k]
               \/ f \notin PagePool /\ \E k \in Classes : \A j \in Classes : f \in owned[j] <=> j = k
    <2>1. CASE Owned(f)
      <3>1. PICK k \in Classes : f \in owned[k]
        BY <2>1 DEF Owned
      <3>2. \A j \in Classes : f \in owned[j] => j = k
        BY <3>1, Zenon DEF OwnerInv
      <3>3. f \notin PagePool
        BY <2>1, Zenon DEF PageInv, PagePool
      <3> QED
        BY <3>1, <3>2, <3>3, Zenon
    <2>2. CASE ~Owned(f)
      BY <2>2, Zenon DEF PageInv, PagePool, Owned
    <2> QED
      BY <2>1, <2>2, Zenon
  <1>2. slots \cup linked = UNION {{c \in Cells : c[1] \in owned[k] /\ c[2] % SizeOf[k] = 0} : k \in Classes}
    <2>1. \A c \in Cells : c \in slots \cup linked <=> \E k \in Classes : c[1] \in owned[k] /\ c[2] % SizeOf[k] = 0
      BY Zenon DEF OwnerInv
    <2> QED
      BY <2>1, SMTT(30), Z3T(30) DEF PTypeOK
  <1>3. linked = UNION {Linked(mem, f) : f \in Frames}
    <2>1. \A c \in Cells : c[1] \in Frames /\ (c \in linked <=> HasItem(mem, c))
      BY DEF OwnerInv, Renewed, Cells
    <2> QED
      BY <2>1 DEF PTypeOK, Linked, HasItem
  <1>4. IsInjective(free) /\ slots \cap linked = {}
    BY Zenon DEF OwnerInv, PageInv
  <1> QED
    BY <1>1, <1>2, <1>3, <1>4, Zenon

(* Whatever the server does and wherever it crashes, the header left on    *)
(* the medium is accepted with the time of the last flush_all, and every   *)
(* frame left there can be walked (pslab_pre_recover, pslab_do_recover).   *)
THEOREM CrashReadableHolds == PSpec => []CrashReadable
  <1>1. PInit => PoolInv
    BY PoolInit, PoolAssumption, Zenon
  <1>2. PoolInv /\ [PNext]_pVars => PoolInv'
    BY PoolStep, PoolAssumption
  <1>3. PoolInv => CrashReadable
    BY InvReadable, PoolAssumption
  <1> QED
    BY <1>1, <1>2, <1>3, PTL DEF PSpec

(* After any number of crashes and recoveries a running server has every   *)
(* frame once, in a class or in the page pool, and every chunk of a class  *)
(* once, in the hash table exactly if its item is linked                   *)
(* (pslab_do_recover, slabs_prefill_global_from_pmem, do_slabs_newslab).   *)
THEOREM RecoveryExactHolds == PSpec => []RecoveryExact
  <1>1. PInit => PoolInv
    BY PoolInit, PoolAssumption, Zenon
  <1>2. PoolInv /\ [PNext]_pVars => PoolInv'
    BY PoolStep, PoolAssumption
  <1>3. PoolInv => RecoveryExact
    BY InvExact, PoolAssumption
  <1> QED
    BY <1>1, <1>2, <1>3, PTL DEF PSpec
============================================================================
