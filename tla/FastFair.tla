------------------------------ MODULE FastFair ------------------------------
(***************************************************************************)
(* The FAST and FAIR B+-tree of fastFair/src/btree.h.  A page is a header  *)
(* and records of a key and a pointer, in the order of the keys and ended  *)
(* by a null pointer.  A writer shifts the records one word at a time      *)
(* under the lock of the page, so that the page can be read, and be found  *)
(* after a crash, between any two of its stores; a record whose pointer    *)
(* equals that of its left neighbour is not there.  Inner pages are read   *)
(* without a lock.  A store stays in the cache: the medium holds each      *)
(* cache line in one of the versions it had since it was last flushed.     *)
(* is_deleted is left out: only the page rebalancing, which btree_delete   *)
(* does not call, sets it; so are the direction bit's effects on inner     *)
(* pages, from which nothing is removed.                                   *)
(***************************************************************************)
EXTENDS Integers, Sequences, FiniteSets, SequencesExt

CONSTANTS Threads,
          cardinality,   \* records of a page
          Starts,        \* the records that start a cache line
          Inserted,      \* the keys that calls insert
          Searched,      \* the keys that calls search and delete
          Bounds,        \* the min and max of range searches
          Mixes,         \* the sets of operations that run together
          Overlap,       \* bound: the trees of Init in which calls overlap
          MaxPages,      \* bound: pages ever created
          MaxOps         \* bound: calls in all

NULL == 0
Records == 0..(cardinality - 1)

(* The words of a page.                                                    *)
leftmost_ptr == 0
level == 1
switch_counter == 2
last_index == 3
sibling_ptr == 4
key(i) == 5 + 2 * i
ptr(i) == 6 + 2 * i
Cells == 0..(4 + 2 * cardinality)
LONG_MAX == 1000
IS_FORWARD(c) == c % 2 = 0

(* The cache lines: the header's, and one more from each start.            *)
LineOf(i) == Cardinality({s \in Starts : s <= i})
CellLine(c) == IF c < 5 THEN 0 ELSE LineOf((c - 5) \div 2)
Lines == 0..Cardinality(Starts)
Part(b, l) == [c \in {x \in Cells : CellLine(x) = l} |-> b[c]]

Pages == 101..(100 + MaxPages)
AllKeys == Inserted \cup Searched \cup {10, 20, 30, 40, 50, 60}

VARIABLES pg,        \* page -> its words, as threads read them
          ver,       \* page -> line -> the versions that may be on the medium
          made,      \* pages created
          root, rootVer,
          wlock,     \* page -> the thread that holds its lock for writing, or NULL
          th,        \* thread -> what it is doing
          abs,       \* key -> its value, NULL if absent
          seen,      \* thread -> key -> the values it had during the call
          tree, mix, ops

mem == <<pg, ver, made, root, rootVer>>
vars == <<mem, wlock, th, abs, seen, tree, mix, ops>>

Idle == [pc |-> "idle", op |-> "none", k0 |-> 0, k |-> 0, v |-> 0, lvl |-> 0, p |-> 0, i |-> 0,
         psc |-> 0, t |-> 0, todo |-> <<>>, next |-> "idle", new |-> 0, hit |-> FALSE, max |-> 0, buf |-> {}]

(* header::constructor and page::constructor                               *)
Blank(l) == [c \in Cells |-> CASE c = level -> l
                               [] c = last_index -> -1
                               [] c > 4 /\ c % 2 = 1 -> LONG_MAX
                               [] OTHER -> 0]

(* A page filled with the records of a sequence.                           *)
Filled(l, left, sib, recs) ==
  [c \in Cells |->
     IF c > 4 /\ (c - 5) \div 2 < Len(recs) THEN recs[((c - 5) \div 2) + 1][2 - (c % 2)]
     ELSE CASE c = leftmost_ptr -> left
            [] c = sibling_ptr -> sib
            [] c = last_index -> Len(recs) - 1
            [] OTHER -> Blank(l)[c]]

-----------------------------------------------------------------------------
(* What linear_search finds in a page that does not change meanwhile.      *)
FirstNull(b, from) == CHOOSE j \in from..(cardinality - 1) :
                        b[ptr(j)] = NULL /\ \A x \in from..(j - 1) : b[ptr(x)] # NULL
Least(xs) == CHOOSE x \in xs : \A y \in xs : x <= y
Greatest(xs) == CHOOSE x \in xs : \A y \in xs : x >= y

Downwards(b, c, nulls) == IF nulls # {} THEN Greatest(nulls) ELSE FirstNull(b, 0)

count(b) ==
  LET c == b[last_index] + 1
  IN IF b[ptr(c)] = NULL THEN c
     ELSE IF IS_FORWARD(b[switch_counter]) THEN FirstNull(b, c)
     ELSE Downwards(b, c, {j \in 0..c : b[ptr(j)] = NULL})

Size(b) == IF IS_FORWARD(b[switch_counter]) THEN FirstNull(b, 1) ELSE count(b)
Valid(b, i) == b[ptr(i)] # (IF i = 0 THEN NULL ELSE b[ptr(i - 1)])
Matches(b, k) == {i \in 0..(Size(b) - 1) : b[key(i)] = k /\ Valid(b, i)}

(* On a leaf: the value, else the sibling if the key may be there.         *)
LeafSearch(m, p, k) ==
  LET b == m[p]
      s == b[sibling_ptr]
      at == Matches(b, k)
  IN IF at # {} THEN b[ptr(IF IS_FORWARD(b[switch_counter]) THEN Least(at) ELSE Greatest(at))]
     ELSE IF s # NULL /\ k >= m[s][key(0)] THEN s
     ELSE NULL

(* On an inner page that does not change: the child.                       *)
Child(b, k) ==
  LET n == FirstNull(b, 1)
      right == {i \in 1..(n - 1) : k < b[key(i)] /\ b[ptr(i - 1)] # b[ptr(i)]}
  IN IF k < b[key(0)] /\ b[leftmost_ptr] # b[ptr(0)] THEN b[leftmost_ptr]
     ELSE IF right # {} THEN b[ptr(Least(right) - 1)]
     ELSE b[ptr(n - 1)]

Descend(m, p, k) ==
  LET s == m[p][sibling_ptr]
  IN IF s # NULL /\ k >= m[s][key(0)] THEN s ELSE Child(m[p], k)

(* btree_search in a memory that does not change.                          *)
Search(m, r, k) ==
  LET leaf[n \in 0..MaxPages, p \in Pages] ==
        LET t == LeafSearch(m, p, k)
        IN IF t = m[p][sibling_ptr] /\ t # NULL /\ n > 0 THEN leaf[n - 1, t] ELSE t
      go[n \in 0..(2 * MaxPages), p \in Pages] ==
        IF m[p][leftmost_ptr] = NULL THEN leaf[MaxPages, p]
        ELSE IF n = 0 THEN NULL ELSE go[n - 1, Descend(m, p, k)]
  IN go[2 * MaxPages, r]

-----------------------------------------------------------------------------
(* The stores and flushes of a writer, as a sequence for it to carry out.  *)
St(p, c, v) == <<<<"store", p, c, v>>>>
Fl(p, l) == <<<<"flush", p, l, 0>>>>
FlushIf(cond, p, l) == IF cond THEN Fl(p, l) ELSE <<>>

(* Mutant of Shift: a line that is left behind is not flushed.             *)
Shift_Unflushed(p, b, i) == St(p, ptr(i + 1), b[ptr(i)]) \o St(p, key(i + 1), b[key(i)])

(* insert_key into page p, whose words are b and which has n records.      *)
Shift(p, b, i) ==
  St(p, ptr(i + 1), b[ptr(i)]) \o St(p, key(i + 1), b[key(i)]) \o FlushIf(i + 1 \in Starts, p, LineOf(i + 1))

Place(p, b, s, k, v) ==
  St(p, ptr(s), IF s = 0 THEN b[leftmost_ptr] ELSE b[ptr(s - 1)]) \o St(p, key(s), k)
    \o St(p, ptr(s), v) \o Fl(p, LineOf(s))

InsertInto(p, b, n, s, k, v) ==
  St(p, ptr(n + 1), b[ptr(n)]) \o FlushIf(n + 1 \in Starts, p, LineOf(n + 1))
    \o FlattenSeq([x \in 1..(n - s) |-> Shift(p, b, n - x)])
    \o Place(p, b, s, k, v)

Turn(p, b) == IF IS_FORWARD(b[switch_counter]) THEN <<>> ELSE St(p, switch_counter, (b[switch_counter] + 1) % 256)

insert_key(p, b, n, k, v) ==
  Turn(p, b)
    \o (IF n = 0
        THEN St(p, key(0), k) \o St(p, ptr(0), v) \o St(p, ptr(1), NULL) \o Fl(p, 0)
        ELSE InsertInto(p, b, n, Cardinality({i \in 0..(n - 1) : b[key(i)] <= k}), k, v))
    \o St(p, last_index, n)

(* The split of page store: records m and after go to the new page q, then *)
(* the page is linked to it and cut off.                                   *)
Half(n) == n \div 2
Rec(b, i) == <<b[key(i)], b[ptr(i)]>>

RightHalf(b, m, n) ==
  IF b[leftmost_ptr] = NULL
  THEN Filled(b[level], NULL, b[sibling_ptr], [x \in 1..(n - m) |-> Rec(b, m + x - 1)])
  ELSE Filled(b[level], b[ptr(m)], b[sibling_ptr], [x \in 1..(n - m - 1) |-> Rec(b, m + x)])

Cut(p, b, q, m) ==
  St(p, sibling_ptr, q) \o Fl(p, 0)
    \o St(p, switch_counter, (b[switch_counter] + (IF IS_FORWARD(b[switch_counter]) THEN 2 ELSE 1)) % 256)
    \o St(p, ptr(m), NULL) \o Fl(p, LineOf(m))
    \o St(p, last_index, m - 1) \o Fl(p, 0)

(* The words of the page once it is cut.                                   *)
AfterCut(b, m) == [b EXCEPT ![ptr(m)] = NULL, ![last_index] = m - 1,
                            ![switch_counter] = IF IS_FORWARD(@) THEN @ + 2 ELSE @ + 1]

SplitInsert(p, b, q, right, m, k, v) ==
  Cut(p, b, q, m) \o
  (IF k < b[key(m)] THEN insert_key(p, AfterCut(b, m), m, k, v)
                    ELSE insert_key(q, right, right[last_index] + 1, k, v))

(* remove_key: the record is given its left neighbour's pointer, then the  *)
(* ones after it are moved down.                                           *)
MoveDown(p, b, i) ==
  St(p, key(i), b[key(i + 1)]) \o St(p, ptr(i), b[ptr(i + 1)]) \o FlushIf(i \in Starts, p, LineOf(i))

RemoveRecord(p, b, s, n) ==
  St(p, ptr(s), IF s = 0 THEN b[leftmost_ptr] ELSE b[ptr(s - 1)])
    \o FlattenSeq([x \in 1..(n - s) |-> MoveDown(p, b, s + x - 1)])
    \o St(p, last_index, b[last_index] - 1)

RemoveFrom(p, b, at) == IF at = {} THEN <<>> ELSE RemoveRecord(p, b, Least(at), FirstNull(b, 0))

remove_key(p, b, k) ==
  (IF IS_FORWARD(b[switch_counter]) THEN St(p, switch_counter, (b[switch_counter] + 1) % 256) ELSE <<>>)
    \o RemoveFrom(p, b, {i \in 0..(FirstNull(b, 0) - 1) : b[key(i)] = k})

-----------------------------------------------------------------------------
At(t, s) == th[t].pc = s
Goto(t, s) == th' = [th EXCEPT ![t].pc = s]
Calm == UNCHANGED <<mem, wlock, abs, seen, tree, mix, ops>>

(* Where a thread goes that has reached page p on its way to level l.      *)
Arrive(op, l, p) ==
  IF pg[p][level] > l THEN "search"
  ELSE CASE op = "insert" -> "lock"
         [] op = "range" -> "scan"
         [] OTHER -> "leaf"

StartAt(r, p) == [r EXCEPT !.p = p, !.pc = Arrive(r.op, r.lvl, p), !.i = 0, !.t = 0, !.psc = 0]

InFlight(k) == \E t \in Threads : th[t].op \in {"insert", "delete"} /\ th[t].k0 = k

Begin(t) ==
  /\ At(t, "idle") /\ ops < MaxOps
  /\ tree \in Overlap \/ \A u \in Threads : At(u, "idle")
  /\ \E op \in mix :
       \/ /\ op = "insert"
          /\ \E k \in Inserted : /\ abs[k] = NULL /\ ~InFlight(k)
                                 /\ th' = [th EXCEPT ![t] = StartAt([Idle EXCEPT !.op = op, !.k0 = k, !.k = k, !.v = k], root)]
       \/ /\ op \in {"search", "delete"}
          /\ \E k \in Searched : th' = [th EXCEPT ![t] = StartAt([Idle EXCEPT !.op = op, !.k0 = k, !.k = k], root)]
       \/ /\ op = "range"
          /\ \E r \in {x \in Bounds \X Bounds : x[1] < x[2]} : th' = [th EXCEPT ![t] = StartAt([Idle EXCEPT !.op = op, !.k = r[1], !.max = r[2]], root)]
  /\ seen' = [seen EXCEPT ![t] = [k \in AllKeys |-> {abs[k]}]]
  /\ ops' = ops + 1
  /\ UNCHANGED <<mem, wlock, abs, tree, mix>>

Return(t) ==
  /\ At(t, "return")
  /\ th' = [th EXCEPT ![t] = Idle]
  /\ seen' = [seen EXCEPT ![t] = [k \in AllKeys |-> {}]]
  /\ UNCHANGED <<mem, wlock, abs, tree, mix, ops>>

(* linear_search on an inner page, one read at a time.                     *)
Here(t) == pg[th[t].p]

SearchPage(t) ==
  /\ At(t, "search")
  /\ th' = [th EXCEPT ![t].psc = Here(t)[switch_counter], ![t].i = 0, ![t].t = 0, ![t].pc = "key"]
  /\ Calm

ReadPtr(t) ==
  /\ At(t, "ptr")
  /\ Goto(t, IF Here(t)[ptr(th[t].i)] # NULL THEN "key" ELSE "last")
  /\ Calm

ReadKey(t) ==
  /\ At(t, "key")
  /\ IF th[t].k < Here(t)[key(th[t].i)] THEN Goto(t, "left")
     ELSE th' = [th EXCEPT ![t].i = @ + 1, ![t].pc = "ptr"]
  /\ Calm

ReadLeft(t) ==
  /\ At(t, "left")
  /\ th' = [th EXCEPT ![t].pc = "same",
                      ![t].t = Here(t)[IF th[t].i = 0 THEN leftmost_ptr ELSE ptr(th[t].i - 1)]]
  /\ Calm

ReadSame(t) ==
  /\ At(t, "same")
  /\ IF Here(t)[ptr(th[t].i)] # th[t].t THEN Goto(t, "again")
     ELSE th' = [th EXCEPT ![t].i = @ + 1, ![t].t = 0, ![t].pc = "ptr"]
  /\ Calm

ReadLast(t) ==
  /\ At(t, "last")
  /\ th' = [th EXCEPT ![t].t = Here(t)[ptr(th[t].i - 1)], ![t].pc = "again"]
  /\ Calm

(* The page is searched again if it was cut meanwhile.                     *)
Again(t) ==
  /\ At(t, "again")
  /\ Goto(t, IF Here(t)[switch_counter] = th[t].psc THEN "sibling" ELSE "search")
  /\ Calm

(* The key may have moved to the sibling.                                  *)
ToChild(t) == th' = [th EXCEPT ![t] = StartAt(@, IF @.t # NULL THEN @.t ELSE Here(t)[leftmost_ptr])]

Sibling(t) ==
  /\ At(t, "sibling")
  /\ IF Here(t)[sibling_ptr] = NULL THEN ToChild(t)
     ELSE th' = [th EXCEPT ![t].new = Here(t)[sibling_ptr], ![t].pc = "sibling_key"]
  /\ Calm

SiblingKey(t) ==
  /\ At(t, "sibling_key")
  /\ IF th[t].k >= pg[th[t].new][key(0)] THEN th' = [th EXCEPT ![t] = StartAt(@, @.new)] ELSE ToChild(t)
  /\ Calm

(* linear_search on a leaf, under its lock for reading.                    *)
Leaf(t) ==
  /\ At(t, "leaf") /\ wlock[th[t].p] = NULL
  /\ th' = [th EXCEPT ![t].t = LeafSearch(pg, th[t].p, th[t].k), ![t].pc = "compare"]
  /\ Calm

(* Mutant of Compare: the sibling is taken for the value.                  *)
Compare_Stops(t) ==
  /\ At(t, "compare")
  /\ Goto(t, IF th[t].t # NULL /\ th[t].op = "delete" THEN "remove" ELSE "return")
  /\ Calm

(* btree_search and btree_delete compare what they got with the sibling,   *)
(* after the lock is released.                                             *)
Compare(t) ==
  /\ At(t, "compare")
  /\ LET r == th[t].t
     IN IF r # NULL /\ r = Here(t)[sibling_ptr] THEN th' = [th EXCEPT ![t].p = r, ![t].pc = "leaf"]
        ELSE Goto(t, IF r # NULL /\ th[t].op = "delete" THEN "remove" ELSE "return")
  /\ Calm

(* linear_search_range, leaf by leaf.                                      *)
InRange(b, min, max) == {i \in 0..(Size(b) - 1) : b[key(i)] > min /\ b[key(i)] < max /\ Valid(b, i)}
Beyond(b, max) == {i \in 0..(Size(b) - 1) : b[key(i)] >= max}
Taken(b, min, max) ==
  {b[ptr(i)] : i \in IF IS_FORWARD(b[switch_counter])
                     THEN {j \in InRange(b, min, max) : \A x \in Beyond(b, max) : j < x}
                     ELSE {j \in InRange(b, min, max) : \A x \in Beyond(b, max) : j > x}}

Scan(t) ==
  /\ At(t, "scan") /\ wlock[th[t].p] = NULL
  /\ th' = [th EXCEPT ![t].buf = @ \cup Taken(Here(t), th[t].k, th[t].max),
                      ![t].pc = IF Beyond(Here(t), th[t].max) # {} THEN "return" ELSE "next_leaf"]
  /\ Calm

NextLeaf(t) ==
  /\ At(t, "next_leaf")
  /\ IF Here(t)[sibling_ptr] = NULL THEN Goto(t, "return")
     ELSE th' = [th EXCEPT ![t].p = Here(t)[sibling_ptr], ![t].pc = "scan"]
  /\ Calm

-----------------------------------------------------------------------------
(* page::store: lock, go right if the key belongs there, insert or split.  *)
Lock(t) ==
  /\ At(t, "lock") /\ wlock[th[t].p] = NULL
  /\ wlock' = [wlock EXCEPT ![th[t].p] = t]
  /\ Goto(t, "store")
  /\ UNCHANGED <<mem, abs, seen, tree, mix, ops>>

GoRight(t) ==
  /\ At(t, "store")
  /\ LET s == Here(t)[sibling_ptr]
     IN /\ s # NULL /\ th[t].k > pg[s][key(0)]
        /\ th' = [th EXCEPT ![t].p = s, ![t].pc = "lock"]
  /\ wlock' = [wlock EXCEPT ![th[t].p] = NULL]
  /\ UNCHANGED <<mem, abs, seen, tree, mix, ops>>

Stays(t) == Here(t)[sibling_ptr] # NULL => th[t].k <= pg[Here(t)[sibling_ptr]][key(0)]

Insert(t) ==
  /\ At(t, "store") /\ Stays(t) /\ count(Here(t)) < cardinality - 1
  /\ th' = [th EXCEPT ![t].todo = insert_key(th[t].p, Here(t), count(Here(t)), th[t].k, th[t].v),
                      ![t].pc = "write", ![t].next = "unlock"]
  /\ Calm

(* The new page is filled and flushed before anyone can reach it.          *)
NewPage(b) ==
  /\ made < MaxPages
  /\ pg' = [pg EXCEPT ![101 + made] = b]
  /\ ver' = [ver EXCEPT ![101 + made] = [l \in Lines |-> {Part(b, l)}]]
  /\ made' = made + 1

SplitAt(t, b, m, right) ==
  /\ NewPage(right)
  /\ th' = [th EXCEPT ![t].todo = SplitInsert(th[t].p, b, 101 + made, right, m, th[t].k, th[t].v),
                      ![t].new = 101 + made, ![t].i = b[key(m)],
                      ![t].pc = "write", ![t].next = "grow"]

Split(t) ==
  /\ At(t, "store") /\ Stays(t) /\ count(Here(t)) >= cardinality - 1
  /\ SplitAt(t, Here(t), Half(count(Here(t))), RightHalf(Here(t), Half(count(Here(t))), count(Here(t))))
  /\ UNCHANGED <<root, rootVer, wlock, abs, seen, tree, mix, ops>>

(* The key of the call is in the tree, or out of it, from here on.         *)
TakesEffect(k, v) ==
  /\ abs' = [abs EXCEPT ![k] = v]
  /\ seen' = [t \in Threads |-> IF At(t, "idle") THEN seen[t] ELSE [seen[t] EXCEPT ![k] = @ \cup {v}]]

(* One store or flush.  An insert takes effect with its last store to the  *)
(* leaf.                                                                   *)
Write(t) ==
  /\ At(t, "write") /\ th[t].todo # <<>>
  /\ LET do == Head(th[t].todo)
         b == [pg[do[2]] EXCEPT ![do[3]] = do[4]]
     IN \/ /\ do[1] = "store"
           /\ pg' = [pg EXCEPT ![do[2]] = b]
           /\ ver' = [ver EXCEPT ![do[2]][CellLine(do[3])] = @ \cup {Part(b, CellLine(do[3]))}]
        \/ /\ do[1] = "flush"
           /\ ver' = [ver EXCEPT ![do[2]][do[3]] = {Part(pg[do[2]], do[3])}]
           /\ UNCHANGED pg
  /\ th' = [th EXCEPT ![t].todo = Tail(@), ![t].pc = IF Len(th[t].todo) = 1 THEN th[t].next ELSE "write"]
  /\ IF Len(th[t].todo) = 1 /\ th[t].op = "insert" /\ th[t].lvl = 0
     THEN TakesEffect(th[t].k0, th[t].k0) ELSE UNCHANGED <<abs, seen>>
  /\ UNCHANGED <<made, root, rootVer, wlock, tree, mix, ops>>

(* After a split: a new root above the old one, or an entry in the parent. *)
Grow(t) ==
  /\ At(t, "grow")
  /\ \/ /\ root = th[t].p
        /\ NewPage(Filled(Here(t)[level] + 1, root, NULL, <<<<th[t].i, th[t].new>>>>))
        /\ th' = [th EXCEPT ![t].pc = "set_root", ![t].new = 101 + made]
     \/ /\ root # th[t].p
        /\ Goto(t, "unlock")
        /\ UNCHANGED <<pg, ver, made>>
  /\ UNCHANGED <<root, rootVer, wlock, abs, seen, tree, mix, ops>>

setNewRoot(t) ==
  /\ At(t, "set_root")
  /\ root' = th[t].new
  /\ rootVer' = rootVer \cup {root'}
  /\ Goto(t, "flush_root")
  /\ UNCHANGED <<pg, ver, made, wlock, abs, seen, tree, mix, ops>>

FlushRoot(t) ==
  /\ At(t, "flush_root")
  /\ rootVer' = {root}
  /\ th' = [th EXCEPT ![t].pc = "unlock", ![t].new = 0]
  /\ UNCHANGED <<pg, ver, made, root, wlock, abs, seen, tree, mix, ops>>

(* Mutant of Unlock: the lock of a page that was split is kept.            *)
Unlock_Keeps(t) ==
  /\ At(t, "unlock")
  /\ wlock' = IF th[t].next = "grow" THEN wlock ELSE [wlock EXCEPT ![th[t].p] = NULL]
  /\ Goto(t, "return")
  /\ UNCHANGED <<mem, abs, seen, tree, mix, ops>>

(* The lock is released; after a split below the root, the separator goes  *)
(* to the parent (btree_insert_internal).                                  *)
Unlock(t) ==
  /\ At(t, "unlock")
  /\ wlock' = [wlock EXCEPT ![th[t].p] = NULL]
  /\ IF th[t].next = "grow" /\ th[t].new # 0
     THEN th' = [th EXCEPT ![t].pc = "internal", ![t].k = th[t].i, ![t].v = th[t].new, ![t].lvl = @ + 1,
                           ![t].next = "idle", ![t].new = 0]
     ELSE Goto(t, "return")
  /\ UNCHANGED <<mem, abs, seen, tree, mix, ops>>

btree_insert_internal(t) ==
  /\ At(t, "internal")
  /\ IF th[t].lvl > pg[root][level] THEN Goto(t, "return")
     ELSE th' = [th EXCEPT ![t] = StartAt(@, root)]
  /\ Calm

(* page::remove, and btree_delete again if the key was no longer there.    *)
RemoveKey(t) ==
  /\ At(t, "remove") /\ wlock[th[t].p] = NULL
  /\ wlock' = [wlock EXCEPT ![th[t].p] = t]
  /\ LET todo == remove_key(th[t].p, Here(t), th[t].k)
     IN th' = [th EXCEPT ![t].todo = todo, ![t].pc = IF todo = <<>> THEN "removed" ELSE "write",
                         ![t].next = "removed",
                         ![t].hit = \E i \in 0..(FirstNull(Here(t), 0) - 1) : Here(t)[key(i)] = th[t].k]
  /\ UNCHANGED <<mem, abs, seen, tree, mix, ops>>

Removed(t) ==
  /\ At(t, "removed")
  /\ wlock' = [wlock EXCEPT ![th[t].p] = NULL]
  /\ IF th[t].hit THEN TakesEffect(th[t].k0, NULL) /\ Goto(t, "return")
     ELSE /\ th' = [th EXCEPT ![t] = StartAt([Idle EXCEPT !.op = "delete", !.k0 = th[t].k0, !.k = th[t].k0], root)]
          /\ UNCHANGED <<abs, seen>>
  /\ UNCHANGED <<mem, tree, mix, ops>>

-----------------------------------------------------------------------------
Step(t) ==
  \/ SearchPage(t) \/ ReadPtr(t) \/ ReadKey(t) \/ ReadLeft(t) \/ ReadSame(t) \/ ReadLast(t)
  \/ Again(t) \/ Sibling(t) \/ SiblingKey(t) \/ Leaf(t) \/ Compare(t) \/ Scan(t) \/ NextLeaf(t)
  \/ Lock(t) \/ GoRight(t) \/ Insert(t) \/ Split(t) \/ Write(t) \/ Grow(t) \/ setNewRoot(t)
  \/ FlushRoot(t) \/ Unlock(t) \/ btree_insert_internal(t) \/ RemoveKey(t) \/ Removed(t) \/ Return(t)

Next == \E t \in Threads : Begin(t) \/ Step(t)

(* Three trees: 10, 20, 30 in one leaf; 30, 40, 10, 20, 50 in two; 10 to   *)
(* 60 in four, the last of them full as is the root.                       *)
Recs(ks) == [x \in 1..Len(ks) |-> <<ks[x], ks[x]>>]
CutPage(sib, ks) == [Filled(0, NULL, sib, Recs(ks)) EXCEPT ![switch_counter] = 2]
Trees ==
  <<<<Filled(0, NULL, NULL, Recs(<<10, 20, 30>>))>>,
   <<CutPage(102, <<10, 20>>), Filled(0, NULL, NULL, Recs(<<30, 40, 50>>)),
     Filled(1, 101, NULL, <<<<30, 102>>>>)>>,
   <<CutPage(102, <<10>>), CutPage(103, <<20>>), CutPage(104, <<30>>),
     Filled(0, NULL, NULL, Recs(<<40, 50, 60>>)),
     Filled(1, 101, NULL, <<<<20, 102>>, <<30, 103>>, <<40, 104>>>>)>>>>

Init ==
  /\ tree \in DOMAIN Trees
  /\ made = Len(Trees[tree])
  /\ pg = [p \in Pages |-> IF p - 100 <= made THEN Trees[tree][p - 100] ELSE Blank(0)]
  /\ root = 100 + made
  /\ ver = [p \in Pages |-> [l \in Lines |-> {Part(pg[p], l)}]]
  /\ rootVer = {root}
  /\ wlock = [p \in Pages |-> NULL]
  /\ th = [t \in Threads |-> Idle]
  /\ abs = [k \in AllKeys |-> Search(pg, root, k)]
  /\ seen = [t \in Threads |-> [k \in AllKeys |-> {}]]
  /\ mix \in Mixes
  /\ ops = 0

Spec == Init /\ [][Next]_vars /\ \A t \in Threads : WF_vars(Step(t))

-----------------------------------------------------------------------------
(* A search returns a value its key had at some moment of the call.        *)
SearchIsCurrent ==
  \A t \in Threads : At(t, "return") /\ th[t].op = "search" => th[t].t \in seen[t][th[t].k]

(* A range search misses no key of the range that was there throughout,    *)
(* and returns none that was never there.                                  *)
RangeIsComplete ==
  \A t \in Threads : At(t, "return") /\ th[t].op = "range" =>
    /\ \A k \in AllKeys : k > th[t].k /\ k < th[t].max /\ NULL \notin seen[t][k] => k \in th[t].buf
    /\ \A k \in th[t].buf : k \in seen[t][k]

(* Readers take no lock, and see the tree as it was at some moment.        *)
ReadsAreCurrent == SearchIsCurrent /\ RangeIsComplete

(* The memories a crash may leave.                                         *)
Open(p) == {l \in Lines : Cardinality(ver[p][l]) > 1}
Images(p) ==
  {[c \in Cells |-> IF CellLine(c) \in Open(p) THEN f[CellLine(c)][c] ELSE pg[p][c]] :
     f \in {g \in [Open(p) -> UNION {ver[p][l] : l \in Open(p)}] : \A l \in Open(p) : g[l] \in ver[p][l]}}

Torn == {p \in Pages : Open(p) # {}}
Memories ==
  {[p \in Pages |-> IF p \in Torn THEN f[p] ELSE pg[p]] :
     f \in {g \in [Torn -> UNION {Images(p) : p \in Torn}] : \A p \in Torn : g[p] \in Images(p)}}

(* In every memory a crash may leave when nothing is deleted, a search     *)
(* finds every key that is in the tree, and none that is not, but for the  *)
(* keys of inserts that have not returned.                                 *)
CrashKeepsKeys ==
  "delete" \notin mix =>
    \A m \in Memories, r \in rootVer, k \in AllKeys :
      Search(m, r, k) \in {abs[k]} \cup (IF InFlight(k) THEN {k} ELSE {})

(* Every call returns.                                                     *)
CallsReturn == \A t \in Threads : ~At(t, "idle") ~> At(t, "idle")
=============================================================================
