------------------------------- MODULE Clevel -------------------------------
(***************************************************************************)
(* clevel_hash of experiments/ClevelHashing: a hash table without locks.   *)
(* It is a chain of levels, each twice as large as the one below; a key    *)
(* has two buckets in every level.  A slot holds a pointer to an entry and *)
(* is changed by compare-and-swap, and so is meta, the pointer to a record *)
(* of the first (top) level, the last (bottom) one and is_resizing.  A     *)
(* thread works on the record it read and looks whether meta still points  *)
(* to it when it is done.  An insert that finds no room appends a level;   *)
(* one more thread then moves the entries of the bottom level to the top   *)
(* one, bucket by bucket, and drops the bottom level.                      *)
(*                                                                         *)
(* Levels are numbered from the bottom: up of level l is l + 1, once that  *)
(* has been appended.  Entries are numbered, and entry[e] is the key of    *)
(* entry e: the tag in a pointer, a part of the hash of its key, only      *)
(* saves comparisons.  A slot is read once where the code tests it.        *)
(***************************************************************************)
EXTENDS Integers, Sequences, FiniteSets, SequencesExt, Bitwise

CONSTANTS Threads,     \* the threads that call the table
          Resizer,     \* the thread that runs resize
          Keys,        \* 1..n; entry k, of key k, is there from the start
          Hash,        \* key -> its hash
          Tag,         \* key -> hash_of_tag
          assoc_num,   \* slots of a bucket
          HashPower,   \* 2^HashPower buckets in the first level at the start
          Mixes,       \* where a behaviour begins, start: address -> key and
                       \* levels, and the calls <<operation, key, n>> it makes
          MaxLevels,   \* bound: levels
          MaxMetas     \* bound: records that meta has pointed to

NULL == 0
NONE == <<0, 0, 0>>
Cap(l) == 2^(HashPower - 2 + l)
Addresses == {<<l, b, j>> : l \in 1..MaxLevels, b \in 0..(Cap(MaxLevels) - 1), j \in 1..assoc_num}
Slots == {a \in Addresses : a[2] < Cap(a[1])}

VARIABLES slot,      \* address -> entry
          slotVer,   \* address -> entries the medium may hold there
          levels,    \* levels that are linked
          linked,    \* levels whose link is on the medium
          meta,      \* the record meta points to; id tells the pointers apart
          metaVer,   \* records the pointer on the medium may point to
          bucket,    \* expand_bucket
          entry,     \* entry -> its key
          retired,   \* entries given back to the allocator
          th,        \* thread -> what it is doing
          mix,       \* the calls of this behaviour
          left,      \* those not made yet
          held,      \* keys in the table for sure: an insert has returned,
                     \* and no erase has begun since
          gone,      \* keys that are not: no insert has begun since the
                     \* start, or since an erase has returned
          cur        \* key -> entries that may be its current one

memory == <<slot, levels, meta, bucket, retired>>
medium == <<slotVer, linked, metaVer>>
ghost == <<mix, left, held, gone, cur>>
hVars == <<memory, medium, entry, th, ghost>>

-----------------------------------------------------------------------------
first_index(k, cap) == Hash[k] % (cap \div 2)
second_index(k, cap) == ((first_index(k, cap) ^^ Tag[k]) % (cap \div 2)) + (cap \div 2)

(* The slots of a key in a level, in the order they are visited.           *)
Row == [l \in 1..MaxLevels, k \in Keys |->
          [n \in 1..(2 * assoc_num) |->
             IF n <= assoc_num THEN <<l, first_index(k, Cap(l)), n>>
             ELSE <<l, second_index(k, Cap(l)), n - assoc_num>>]]
Left(a) == a[2] < Cap(a[1]) \div 2

Width == 2 * assoc_num
Levels(m) == m.first - m.last + 1

(* Visited bottom to top, and top to bottom: the n-th slot.                *)
Upward(m, k, n) == Row[m.last + ((n - 1) \div Width), k][((n - 1) % Width) + 1]
Downward(m, k, n) == Row[m.first - ((n - 1) \div Width), k][((n - 1) % Width) + 1]

Holds(x, k) == x # NULL /\ entry[x] = k

-----------------------------------------------------------------------------
(* A thread: its call, the key and the entry made for it; m, the record it *)
(* works on; n, how far it has looked; at, the slot it has chosen, and     *)
(* what it found there; also and e1, a second slot and its entry; the     *)
(* flags check_duplicate and succ_update; expand_bucket_old; new_capacity. *)
Idle == [pc |-> "idle", op |-> "none", k |-> 0, e |-> NULL, m |-> [id |-> 0], n |-> 0,
         at |-> NONE, found |-> NULL, also |-> NONE, e1 |-> NULL, check_duplicate |-> TRUE,
         succ |-> FALSE, old |-> 0, cap |-> 0, over |-> {}, was |-> "any"]

At(t, s) == th[t].pc = s
Goto(t, s) == th' = [th EXCEPT ![t].pc = s]
Busy(k, calls) == \E t \in Threads : th[t].op \in calls /\ th[t].k = k
Writers == {"insert", "update"}

(* A successful compare-and-swap, or a store: the medium holds the old     *)
(* value or the new one until the slot is persisted.                       *)
Put(a, x) ==
  /\ slot' = [slot EXCEPT ![a] = x]
  /\ slotVer' = [slotVer EXCEPT ![a] = @ \cup {x}]
Flush(a) == slotVer' = [slotVer EXCEPT ![a] = {slot[a]}]

Publish(m) ==
  /\ meta' = m
  /\ metaVer' = metaVer \cup {m}
PersistMeta == metaVer' = {meta}

Calm == UNCHANGED <<entry, ghost>>
Quiet == UNCHANGED <<memory, medium>> /\ Calm
OnlySlot == UNCHANGED <<levels, meta, bucket, retired, linked, metaVer>> /\ Calm
OnlyMedium == UNCHANGED memory /\ Calm

-----------------------------------------------------------------------------
(* A call begins; insert and update allocate their entry first.  An erase  *)
(* does not overlap an insert or an update of its key.                     *)
Begin(t) ==
  /\ At(t, "idle")
  /\ \E c \in left :
       LET op == c[1]  k == c[2]  e == Len(entry) + 1
       IN /\ left' = left \ {c}
          /\ ~Busy(k, CASE op = "erase" -> Writers [] op \in Writers -> {"erase"} [] OTHER -> {})
          /\ entry' = IF op \in Writers THEN Append(entry, k) ELSE entry
          /\ th' = [u \in DOMAIN th |->
               IF u = t THEN [Idle EXCEPT !.pc = "meta", !.op = op, !.k = k,
                                          !.e = IF op \in Writers THEN e ELSE NULL,
                                          !.was = CASE k \in held -> "in" [] k \in gone -> "out" [] OTHER -> "any",
                                          !.over = {x \in cur[k] : \A v \in Threads : th[v].e # x}]
               ELSE IF th[u].k = k /\ op \in {"insert", "erase"} THEN [th[u] EXCEPT !.was = "any"]
               ELSE th[u]]
          /\ cur' = [cur EXCEPT ![k] = IF op \in Writers THEN @ \cup {e} ELSE @]
          /\ held' = IF op = "erase" THEN held \ {k} ELSE held
          /\ gone' = IF op = "insert" THEN gone \ {k} ELSE gone
  /\ UNCHANGED <<memory, medium, mix>>

Scanning(r) == [r EXCEPT !.n = 1, !.at = NONE, !.found = NULL, !.also = NONE, !.e1 = NULL, !.pc = "scan"]

(* meta is read; a call that will store also persists it.                  *)
ReadMeta(t) ==
  /\ At(t, "meta")
  /\ th' = [th EXCEPT ![t] = [Scanning([@ EXCEPT !.m = meta]) EXCEPT
                                !.pc = IF th[t].op = "update" THEN "bucket" ELSE "scan"]]
  /\ IF th[t].op \in Writers THEN PersistMeta ELSE UNCHANGED metaVer
  /\ UNCHANGED <<slotVer, linked>> /\ OnlyMedium

(* expand_bucket_old of an update.                                         *)
ReadBucket(t) ==
  /\ At(t, "bucket")
  /\ th' = [th EXCEPT ![t].old = bucket, ![t].pc = "scan"]
  /\ Quiet

-----------------------------------------------------------------------------
(* find, find_empty_slot, and the loops of search and erase: slot by slot. *)
Visited(r) == IF r.check_duplicate THEN Upward(r.m, r.k, r.n) ELSE Downward(r.m, r.k, r.n)

(* find_empty_slot stops at the first level with a vacancy.                *)
Advance(r) ==
  IF r.n = Width * Levels(r.m) \/ (~r.check_duplicate /\ r.n % Width = 0 /\ r.at # NONE)
  THEN [r EXCEPT !.pc = "check"] ELSE [r EXCEPT !.n = @ + 1, !.pc = "scan"]

(* The vacancy to use: the first of a bucket, of the less loaded bucket    *)
(* of a level, of the last level visited.                                  *)
Better(a, b) == b = NONE \/ a[1] # b[1] \/ (Left(b) /\ ~Left(a) /\ a[3] < b[3])

Hit(r) == r.check_duplicate /\ Holds(slot[Visited(r)], r.k)

Pass(t) ==
  /\ At(t, "scan") /\ ~Hit(th[t])
  /\ LET a == Visited(th[t])
     IN th' = [th EXCEPT ![t] = Advance(
          IF slot[a] = NULL /\ th[t].op = "insert" /\ Better(a, th[t].at) THEN [@ EXCEPT !.at = a] ELSE @)]
  /\ Quiet

(* search and insert end; insert gives its entry back.                     *)
Present(t) ==
  /\ At(t, "scan") /\ Hit(th[t]) /\ th[t].op \in {"search", "insert"}
  /\ th' = [th EXCEPT ![t].found = slot[Visited(th[t])], ![t].pc = "return"]
  /\ retired' = IF th[t].op = "insert" THEN retired \cup {th[t].e} ELSE retired
  /\ UNCHANGED <<slot, levels, meta, bucket, medium>> /\ Calm

(* update looks on for a second slot with its key.                         *)
Single(t) ==
  /\ At(t, "scan") /\ Hit(th[t]) /\ th[t].op = "update" /\ th[t].found = NULL
  /\ th' = [th EXCEPT ![t] = Advance([@ EXCEPT !.found = slot[Visited(th[t])], !.at = Visited(th[t])])]
  /\ Quiet

-----------------------------------------------------------------------------
(* A second slot with the key.  If it has the same entry the first one is  *)
(* in a lower level, which an assertion says; else one of the entries is   *)
(* superseded.  del_dup empties the first slot if the second one is as it  *)
(* was, and the search starts again.                                       *)
Twice(t) ==
  /\ At(t, "scan") /\ Hit(th[t]) /\ th[t].op = "update" /\ th[t].found # NULL
  /\ LET a == Visited(th[t])
     IN th' = [th EXCEPT ![t].also = a,
                         ![t].e1 = slot[a],
                         ![t].pc = IF slot[a] = th[t].found /\ a[1] = th[t].at[1] THEN "abort" ELSE "dup"]
  /\ Quiet

Unchanged(t) ==
  /\ At(t, "dup")
  /\ th' = [th EXCEPT ![t] = IF slot[th[t].also] = th[t].e1 THEN [@ EXCEPT !.pc = "drop"] ELSE Scanning(@)]
  /\ Quiet

del_dup(t) ==
  /\ At(t, "drop")
  /\ IF slot[th[t].at] = th[t].found THEN Put(th[t].at, NULL) /\ Goto(t, "dropped")
     ELSE UNCHANGED <<slot, slotVer>> /\ th' = [th EXCEPT ![t] = Scanning(@)]
  /\ OnlySlot

Dropped(t) ==
  /\ At(t, "dropped")
  /\ Flush(th[t].at)
  /\ retired' = IF th[t].found # th[t].e1 THEN retired \cup {th[t].found} ELSE retired
  /\ th' = [th EXCEPT ![t] = Scanning(@)]
  /\ UNCHANGED <<slot, levels, meta, bucket, linked, metaVer>> /\ Calm

(* erase empties every slot it finds its key in; whether it succeeds, or   *)
(* what expand_bucket is, makes no difference to how it goes on.           *)
Seen(t) ==
  /\ At(t, "scan") /\ Hit(th[t]) /\ th[t].op = "erase"
  /\ th' = [th EXCEPT ![t].found = slot[Visited(th[t])], ![t].at = Visited(th[t]), ![t].pc = "empty"]
  /\ Quiet

Empty(t) ==
  /\ At(t, "empty")
  /\ IF slot[th[t].at] = th[t].found THEN Put(th[t].at, NULL) /\ Goto(t, "emptied")
     ELSE UNCHANGED <<slot, slotVer>> /\ th' = [th EXCEPT ![t] = Advance(@)]
  /\ OnlySlot

Emptied(t) ==
  /\ At(t, "emptied")
  /\ Flush(th[t].at)
  /\ retired' = retired \cup {th[t].found}
  /\ th' = [th EXCEPT ![t] = Advance(@)]
  /\ UNCHANGED <<slot, levels, meta, bucket, linked, metaVer>> /\ Calm

-----------------------------------------------------------------------------
(* Context checking: the search starts again if meta has changed.          *)
Changed(t) ==
  /\ At(t, "check") /\ th[t].m # meta
  /\ IF th[t].op \in Writers
     THEN PersistMeta /\ th' = [th EXCEPT ![t] = Scanning([@ EXCEPT !.m = meta])]
     ELSE UNCHANGED metaVer /\ Goto(t, "meta")
  /\ UNCHANGED <<slotVer, linked>> /\ OnlyMedium

(* An insert goes to the slot it found, unless that is in a level that is  *)
(* being moved; an update to the slot that holds its key.                  *)
Decide(r) ==
  CASE r.op \in {"search", "erase"} -> "return"
    [] r.op = "insert" -> IF r.at # NONE /\ (r.at[1] # r.m.last \/ ~r.m.resizing) THEN "cas" ELSE "expand"
    [] r.op = "update" -> IF r.found = NULL \/ (r.succ /\ r.found = r.e) THEN "return" ELSE "cas"

Confirmed(t) ==
  /\ At(t, "check") /\ th[t].m = meta
  /\ Goto(t, Decide(th[t]))
  /\ retired' = IF th[t].op = "update" /\ th[t].found = NULL /\ ~th[t].succ THEN retired \cup {th[t].e} ELSE retired
  /\ UNCHANGED <<slot, levels, meta, bucket, medium>> /\ Calm

(* The slot is swapped from what was found in it, or the call starts over. *)
Swap(t) ==
  /\ At(t, "cas")
  /\ IF slot[th[t].at] = th[t].found
     THEN Put(th[t].at, th[t].e) /\ Goto(t, IF th[t].op = "insert" THEN "late" ELSE "persist")
     ELSE UNCHANGED <<slot, slotVer>> /\ Goto(t, "meta")
  /\ OnlySlot

(* Mutant of Late: the insert is not done again.                           *)
Late_Once(t) ==
  /\ At(t, "late")
  /\ th' = [th EXCEPT ![t].succ = th[t].at[1] >= meta.last, ![t].pc = "persist"]
  /\ Quiet

(* An insert into a level that is now being moved is done again, without a *)
(* look at the entries.  It is not if the level has been moved altogether, *)
(* and its entry is lost then; succ tells that it has not.                 *)
Late(t) ==
  /\ At(t, "late")
  /\ IF ~th[t].m.resizing /\ meta.resizing /\ th[t].at[1] = th[t].m.last
     THEN PersistMeta /\ th' = [th EXCEPT ![t].check_duplicate = FALSE, ![t].pc = "meta"]
     ELSE UNCHANGED metaVer /\ th' = [th EXCEPT ![t].succ = th[t].at[1] >= meta.last, ![t].pc = "persist"]
  /\ UNCHANGED <<slotVer, linked>> /\ OnlyMedium

PersistSlot(t) ==
  /\ At(t, "persist")
  /\ Flush(th[t].at)
  /\ Goto(t, IF th[t].op = "insert" THEN "return" ELSE "context")
  /\ UNCHANGED <<linked, metaVer>> /\ OnlyMedium

(* An update whose entry may have been moved before it was swapped is done *)
(* again.                                                                  *)
Redo(r) == [r EXCEPT !.succ = TRUE, !.pc = "meta"]

Context(t) ==
  /\ At(t, "context")
  /\ th' = [th EXCEPT ![t] = IF th[t].m # meta THEN Redo(@)
                             ELSE [@ EXCEPT !.pc = IF th[t].at[1] = th[t].m.last THEN "moving" ELSE "return"]]
  /\ Quiet

Moving(t) ==
  /\ At(t, "moving")
  /\ th' = [th EXCEPT ![t] = IF th[t].at[2] \in th[t].old..bucket THEN Redo(@) ELSE [@ EXCEPT !.pc = "return"]]
  /\ Quiet

(* What a call that returns has shown.                                     *)
Returns(t) ==
  /\ At(t, "return")
  /\ th' = [th EXCEPT ![t] = Idle]
  /\ LET r == th[t]
         inserted == r.op = "insert" /\ r.found = NULL /\ r.succ
     IN /\ held' = IF inserted THEN held \cup {r.k} ELSE held
        /\ gone' = IF r.op = "erase" THEN gone \cup {r.k} ELSE gone
        /\ cur' = [cur EXCEPT ![r.k] = CASE r.e \in retired -> @ \ {r.e}
                                         [] r.op = "update" -> @ \ r.over
                                         [] r.op = "erase" -> @ \ r.over
                                         [] OTHER -> @]
  /\ UNCHANGED <<memory, medium, entry, mix, left>>

-----------------------------------------------------------------------------
(* expand, called by an insert that finds no room and by the resizer: a    *)
(* level is appended to the first one, and meta set to a record with it.   *)
Expanded(t) == IF t = Resizer THEN "retry" ELSE "meta"

Linked(l) == linked' = IF l > linked THEN l ELSE linked

expand(t) ==
  /\ At(t, "expand")
  /\ IF levels = th[t].m.first
     THEN UNCHANGED linked /\ th' = [th EXCEPT ![t].cap = 2 * Cap(th[t].m.first), ![t].pc = "append"]
     ELSE Linked(th[t].m.first + 1) /\ Goto(t, "help")
  /\ UNCHANGED <<slotVer, metaVer>> /\ OnlyMedium

AppendLevel(t) ==
  /\ At(t, "append") /\ levels < MaxLevels
  /\ levels' = IF levels = th[t].m.first THEN levels + 1 ELSE levels
  /\ Goto(t, "link")
  /\ UNCHANGED <<slot, meta, bucket, retired, medium>> /\ Calm

Link(t) ==
  /\ At(t, "link")
  /\ Linked(th[t].m.first + 1)
  /\ Goto(t, "publish")
  /\ UNCHANGED <<slotVer, metaVer>> /\ OnlyMedium

(* A thread that finds the level appended helps to set meta; the record it *)
(* makes first has the same levels.                                        *)
Help(t) ==
  /\ At(t, "help")
  /\ th' = [th EXCEPT ![t] = IF meta = th[t].m THEN [@ EXCEPT !.cap = Cap(th[t].m.first), !.pc = "publish"]
                             ELSE [@ EXCEPT !.pc = Expanded(t)]]
  /\ Quiet

Update(t) ==
  /\ At(t, "publish") /\ meta.id < MaxMetas
  /\ LET m == th[t].m
     IN IF meta = m
        THEN /\ Publish([id |-> m.id + 1, resizing |-> TRUE, last |-> m.last,
                         first |-> IF Cap(m.first) >= th[t].cap THEN m.first ELSE m.first + 1])
             /\ Goto(t, "published")
        ELSE UNCHANGED <<meta, metaVer>> /\ Goto(t, "reread")
  /\ UNCHANGED <<slot, levels, bucket, retired, slotVer, linked>> /\ Calm

Published(t) ==
  /\ At(t, "published")
  /\ PersistMeta
  /\ Goto(t, Expanded(t))
  /\ UNCHANGED <<slotVer, linked>> /\ OnlyMedium

Reread(t) ==
  /\ At(t, "reread")
  /\ th' = [th EXCEPT ![t].m = meta,
                      ![t].pc = IF Cap(meta.first) >= th[t].cap /\ meta.resizing THEN Expanded(t) ELSE "publish"]
  /\ Quiet

-----------------------------------------------------------------------------
(* resize: as long as there are more than two levels, the next bucket of   *)
(* the last level is emptied.                                              *)
Wake ==
  /\ At(Resizer, "sleep")
  /\ PersistMeta
  /\ Goto(Resizer, IF Levels(meta) = 2 THEN "sleep" ELSE "retry")
  /\ UNCHANGED <<slotVer, linked>> /\ OnlyMedium

Rehash ==
  /\ At(Resizer, "retry")
  /\ PersistMeta
  /\ th' = [th EXCEPT ![Resizer] = [Idle EXCEPT !.m = meta, !.n = 1, !.pc = "source"]]
  /\ UNCHANGED <<slotVer, linked>> /\ OnlyMedium

NextSlot(r) == [r EXCEPT !.n = @ + 1, !.pc = IF r.n = assoc_num THEN "advance" ELSE "source"]

Source ==
  /\ At(Resizer, "source")
  /\ LET r == th[Resizer]
         a == <<r.m.last, bucket, r.n>>
     IN th' = [th EXCEPT ![Resizer] =
          IF slot[a] = NULL THEN NextSlot(r) ELSE [r EXCEPT !.at = a, !.found = slot[a], !.cap = 1, !.pc = "copy"]]
  /\ Quiet

(* The two buckets of the first level are tried in turns.                  *)
Target(r) == 
  Row[r.m.first, entry[r.found]][IF r.cap % 2 = 1 THEN (r.cap + 1) \div 2 ELSE assoc_num + (r.cap \div 2)]

CopyUp ==
  /\ At(Resizer, "copy")
  /\ LET r == th[Resizer]
     IN IF slot[Target(r)] = NULL
        THEN Put(Target(r), r.found) /\ th' = [th EXCEPT ![Resizer].also = Target(r), ![Resizer].pc = "copied"]
        ELSE /\ UNCHANGED <<slot, slotVer>>
             /\ th' = [th EXCEPT ![Resizer].cap = @ + 1, ![Resizer].pc = IF r.cap = Width THEN "expand" ELSE "copy"]
  /\ OnlySlot

(* Mutant of Copied: the copy is not persisted.                            *)
Copied_Unflushed ==
  /\ At(Resizer, "copied")
  /\ Goto(Resizer, "clear")
  /\ Quiet

Copied ==
  /\ At(Resizer, "copied")
  /\ Flush(th[Resizer].also)
  /\ Goto(Resizer, "clear")
  /\ UNCHANGED <<linked, metaVer>> /\ OnlyMedium

(* The slot is emptied by a store, whatever it holds by now.               *)
Clear ==
  /\ At(Resizer, "clear")
  /\ Put(th[Resizer].at, NULL)
  /\ Goto(Resizer, "cleared")
  /\ OnlySlot

Cleared ==
  /\ At(Resizer, "cleared")
  /\ Flush(th[Resizer].at)
  /\ th' = [th EXCEPT ![Resizer] = NextSlot([@ EXCEPT !.at = NONE, !.also = NONE, !.found = NULL, !.cap = 0])]
  /\ UNCHANGED <<linked, metaVer>> /\ OnlyMedium

NextBucket ==
  /\ At(Resizer, "advance")
  /\ bucket' = bucket + 1
  /\ Goto(Resizer, IF bucket' = Cap(th[Resizer].m.last) THEN "retire" ELSE "sleep")
  /\ UNCHANGED <<slot, levels, meta, retired, medium>> /\ Calm

(* The emptied level is dropped.                                           *)
Retire ==
  /\ At(Resizer, "retire") /\ meta.id < MaxMetas
  /\ LET m == th[Resizer].m
     IN IF meta = m
        THEN /\ Publish([id |-> m.id + 1, first |-> m.first, last |-> m.last + 1, resizing |-> m.first - m.last # 2])
             /\ Goto(Resizer, "reset")
        ELSE UNCHANGED <<meta, metaVer>> /\ Goto(Resizer, "refresh")
  /\ UNCHANGED <<slot, levels, bucket, retired, slotVer, linked>> /\ Calm

Refresh ==
  /\ At(Resizer, "refresh")
  /\ PersistMeta
  /\ th' = [th EXCEPT ![Resizer].m = meta, ![Resizer].pc = "retire"]
  /\ UNCHANGED <<slotVer, linked>> /\ OnlyMedium

Reset ==
  /\ At(Resizer, "reset")
  /\ PersistMeta
  /\ bucket' = 0
  /\ th' = [th EXCEPT ![Resizer] = [Idle EXCEPT !.pc = "sleep"]]
  /\ UNCHANGED <<slot, levels, meta, retired, slotVer, linked>> /\ Calm

-----------------------------------------------------------------------------
Expansion(t) == expand(t) \/ AppendLevel(t) \/ Link(t) \/ Help(t) \/ Update(t) \/ Published(t) \/ Reread(t)

Works(t) ==
  \/ Begin(t) \/ ReadMeta(t) \/ ReadBucket(t) \/ Pass(t) \/ Present(t) \/ Single(t) \/ Twice(t)
  \/ Unchanged(t) \/ del_dup(t) \/ Dropped(t) \/ Seen(t) \/ Empty(t) \/ Emptied(t)
  \/ Changed(t) \/ Confirmed(t) \/ Swap(t) \/ Late(t) \/ PersistSlot(t) \/ Context(t) \/ Moving(t)
  \/ Returns(t) \/ Expansion(t)

Resize ==
  \/ Wake \/ Rehash \/ Source \/ CopyUp \/ Copied \/ Clear \/ Cleared \/ NextBucket
  \/ Retire \/ Refresh \/ Reset \/ Expansion(Resizer)

(* A thread stops at a bound.                                              *)
Bounded ==
  /\ \E t \in DOMAIN th :
       \/ At(t, "append") /\ levels = MaxLevels
       \/ (At(t, "publish") \/ At(t, "retire")) /\ meta.id = MaxMetas
  /\ UNCHANGED hVars

HNext == Resize \/ (\E t \in Threads : Works(t)) \/ Bounded

(* The constructor's two levels, and the entries inserted before.          *)
HInit ==
  /\ mix \in Mixes
  /\ entry = [k \in Keys |-> k]
  /\ slot = [a \in Slots |-> IF a \in DOMAIN mix.start THEN mix.start[a] ELSE NULL]
  /\ slotVer = [a \in Slots |-> {slot[a]}]
  /\ levels = mix.levels /\ linked = levels
  /\ meta = [id |-> 1, first |-> levels, last |-> 1, resizing |-> levels > 2]
  /\ metaVer = {meta}
  /\ bucket = 0 /\ retired = {} /\ left = mix.calls
  /\ th = [t \in Threads \cup {Resizer} |-> [Idle EXCEPT !.pc = IF t = Resizer THEN "sleep" ELSE "idle"]]
  /\ held = Range(mix.start) /\ gone = Keys \ Range(mix.start)
  /\ cur = [k \in Keys |-> {k} \cap held]

HSpec == HInit /\ [][HNext]_hVars

-----------------------------------------------------------------------------
Places(m, k) == {Upward(m, k, n) : n \in 1..(Width * Levels(m))}

(* Every key whose insert has returned is in the table, and no key that    *)
(* was never inserted or has been erased.                                  *)
TableHoldsKeys ==
  /\ \A k \in held : \E a \in Places(meta, k) : Holds(slot[a], k)
  /\ \A k \in gone : \A a \in Places(meta, k) : ~Holds(slot[a], k)

(* A search finds a key that is in the table from before it begins until   *)
(* it returns, whatever is moved meanwhile, and none that is not.          *)
SearchIsCurrent ==
  \A t \in Threads : At(t, "return") /\ th[t].op = "search" =>
    /\ th[t].was = "in" => th[t].found # NULL
    /\ th[t].was = "out" => th[t].found = NULL

(* In a table that is not resized the slots of a key that no call is       *)
(* changing have its current entries, none of them given back.             *)
EntriesAreCurrent ==
  levels = 2 =>
    \A k \in Keys : Busy(k, Writers) \/
      \A a \in Places(meta, k) : Holds(slot[a], k) => slot[a] \in cur[k] \ retired

(* Calls that overlap each other and the resizer leave the table with the  *)
(* keys it should have.  An insert that swaps its entry into a level which *)
(* is dropped before it looks at is_resizing is left out: see Late.        *)
KeysKept == TableHoldsKeys /\ SearchIsCurrent /\ EntriesAreCurrent

(* A key that is updated while a level is moved.                           *)
Disputed(k) == levels > 2 /\ \E c \in mix.calls : c[1] = "update" /\ c[2] = k

(* No crash loses a key whose insert has returned, or brings one back that *)
(* was erased: for every record that meta may point to on the medium, the  *)
(* levels are linked there, and a slot of the key holds it in every        *)
(* version the medium may have.                                            *)
CrashKeepsEntries ==
  \A m \in metaVer :
    /\ m.first <= linked
    /\ \A k \in held : Disputed(k) \/ \E a \in Places(m, k) : \A x \in slotVer[a] : Holds(x, k)
    /\ \A k \in gone : Busy(k, {"erase"}) \/ \A a \in Places(m, k) : \A x \in slotVer[a] : ~Holds(x, k)
=============================================================================
