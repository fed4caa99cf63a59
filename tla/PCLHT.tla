------------------------------- MODULE PCLHT --------------------------------
(***************************************************************************)
(* P-CLHT: the persistent cache-line hash table of clht_lb_res.c.  A table *)
(* is a row of buckets, a bucket one cache line of Entries slots and a     *)
(* pointer to the next one of its chain; the lock of a chain is in its     *)
(* first bucket.  A thread is at one point of one function at a time, and  *)
(* a step is one access to shared memory, or several to lines no one else  *)
(* may touch at that point.  A line is on the medium in one of the         *)
(* versions it had since it was last flushed; a movnt64 goes past the      *)
(* caches, so that another thread sees it when it is on the medium.        *)
(* Memory that is released is not used again.                              *)
(***************************************************************************)
EXTENDS Integers, Sequences, FiniteSets, SequencesExt

CONSTANTS Threads, Keys, Vals,
          Called,          \* the keys calls are made with
          Entries,         \* ENTRIES_PER_BUCKET
          InitBuckets,     \* num_buckets of clht_create
          PercFullHalve, RatioHalve, OccupAfterRes,   \* CLHT_PERC_FULL_HALVE...
          MaxBuckets,      \* bound: buckets ever created
          MaxOps,          \* bound: calls in all
          MaxResizes,      \* bound: resizes; a further one is skipped
          MaxCrashes       \* bound: crashes

LOCK_FREE == 0
LOCK_UPDATE == 1
LOCK_RESIZE == 2

VARIABLES bkt,        \* bucket -> [slots, next], what threads read
          line,       \* bucket -> the versions that may be on the medium
          lock,       \* bucket -> its lock
          made,       \* buckets created
          tab,        \* the tables, in the order of their creation
          stats,      \* table -> versions of its second line on the medium
          ht,         \* h->ht
          resizeLock, statusLock,
          th,         \* thread -> what it is doing
          abs,        \* key -> its value, 0 if absent
          seen,       \* thread -> the values its key had during its call
          ops, resizes, crashes

tables == <<bkt, line, made, tab, stats>>
vars == <<tables, lock, ht, resizeLock, statusLock, th, abs, seen, ops, resizes, crashes>>

Ids == 1..MaxBuckets
Free == [slots |-> [j \in 1..Entries |-> <<0, 0>>], next |-> 0]
Idle == [pc |-> "idle", op |-> "get", k |-> 0, v |-> 0, tb |-> 0, cur |-> 0, j |-> 1,
         bin |-> 0, by |-> 0, up |-> TRUE, grow |-> FALSE, new |-> 0, res |-> 0]

(* The fields of the second line of a table that survive in it.            *)
Second(tb) == [expands |-> tb.expands, helper |-> tb.helper, done |-> tb.done]

(* clht_hashtable_create                                                   *)
NewTable(first, n) ==
  [first |-> first, n |-> n, tmp |-> 0, new |-> 0, expands |-> 0,
   threshold |-> IF n = 0 THEN 1 ELSE n, helper |-> 1, done |-> 0]

Init ==
  /\ bkt = [i \in Ids |-> Free]
  /\ line = [i \in Ids |-> {Free}]
  /\ lock = [i \in Ids |-> LOCK_FREE]
  /\ made = InitBuckets
  /\ tab = <<NewTable(1, InitBuckets)>>
  /\ stats = <<{Second(NewTable(1, InitBuckets))}>>
  /\ ht = 1
  /\ resizeLock = FALSE /\ statusLock = FALSE
  /\ th = [t \in Threads |-> Idle]
  /\ abs = [k \in Keys |-> 0]
  /\ seen = [t \in Threads |-> {}]
  /\ ops = 0 /\ resizes = 0 /\ crashes = 0

(* clht_hash: key & (num_buckets - 1)                                      *)
clht_hash(n, k) == k % n
Bin(tb, k) == tab[tb].first + clht_hash(tab[tb].n, k)

(* The buckets of a chain, and its slots, in the memory m.                 *)
Chain(m, id) == LET c[i \in Ids] == IF m[i].next = 0 THEN <<i>> ELSE <<i>> \o c[m[i].next] IN c[id]
SlotsOf(m, id) == LET s[i \in Ids] == IF m[i].next = 0 THEN m[i].slots ELSE m[i].slots \o s[m[i].next] IN s[id]
Hits(s, k) == {x \in DOMAIN s : s[x][1] = k}
First(xs) == CHOOSE x \in xs : \A y \in xs : x <= y
ValueIn(s, k) == IF Hits(s, k) = {} THEN 0 ELSE s[First(Hits(s, k))][2]
Lookup(m, tb, k) == ValueIn(SlotsOf(m, Bin(tb, k)), k)

(* The buckets of a table.                                                 *)
Reachable(m, tb) == UNION {Range(Chain(m, tb.first + b)) : b \in 0..(tb.n - 1)}

(* The bucket and the place in it of slot x of a chain.                    *)
BucketOf(id, x) == Chain(bkt, id)[((x - 1) \div Entries) + 1]
PlaceOf(x) == ((x - 1) % Entries) + 1

-----------------------------------------------------------------------------
At(t, p) == th[t].pc = p
Goto(t, p) == th' = [th EXCEPT ![t].pc = p]
Result(t, r) == th' = [th EXCEPT ![t].pc = "ret", ![t].res = r, ![t].cur = 0, ![t].j = 1]

(* A store to a bucket adds a version of its line.                         *)
Write(id, b) ==
  /\ bkt' = [bkt EXCEPT ![id] = b]
  /\ line' = [line EXCEPT ![id] = @ \cup {b}]

(* movnt64 of one word and its fence: the word is in every version.        *)
MovntKey(id, j, k) ==
  /\ bkt' = [bkt EXCEPT ![id].slots[j][1] = k]
  /\ line' = [line EXCEPT ![id] = {[b EXCEPT !.slots[j][1] = k] : b \in @}]

MovntNext(id, next) ==
  /\ bkt' = [bkt EXCEPT ![id].next = next]
  /\ line' = [line EXCEPT ![id] = {[b EXCEPT !.next = next] : b \in @}]

(* clflush and the fence behind it.                                        *)
Flush(id) == line' = [line EXCEPT ![id] = {bkt[id]}]

(* A store to the second line of a table.                                  *)
WriteTable(i, r) ==
  /\ tab' = [tab EXCEPT ![i] = r]
  /\ stats' = [stats EXCEPT ![i] = @ \cup {Second(r)}]

(* The key takes effect with value v: the linearization point.             *)
TakesEffect(k, v) ==
  /\ abs' = [abs EXCEPT ![k] = v]
  /\ seen' = [u \in Threads |-> IF ~At(u, "idle") /\ th[u].k = k THEN seen[u] \cup {v} ELSE seen[u]]

Begin(t) ==
  /\ At(t, "idle") /\ ops < MaxOps
  /\ \E k \in Called, v \in Vals :
       \E start \in {[Idle EXCEPT !.op = "get", !.pc = "get_val"],
                     [Idle EXCEPT !.op = "put", !.pc = "exists", !.v = v],
                     [Idle EXCEPT !.op = "remove", !.pc = "exists"]} :
         /\ th' = [th EXCEPT ![t] = [start EXCEPT !.k = k, !.tb = ht, !.cur = Bin(ht, k)]]
         /\ seen' = [seen EXCEPT ![t] = {abs[k]}]
  /\ ops' = ops + 1
  /\ UNCHANGED <<tables, lock, ht, resizeLock, statusLock, abs, resizes, crashes>>

Respond(t) ==
  /\ At(t, "ret")
  /\ th' = [th EXCEPT ![t] = Idle]
  /\ seen' = [seen EXCEPT ![t] = {}]
  /\ UNCHANGED <<tables, lock, ht, resizeLock, statusLock, abs, ops, resizes, crashes>>

Silent == UNCHANGED <<tables, lock, ht, resizeLock, statusLock, abs, seen, ops, resizes, crashes>>
Rest == UNCHANGED <<lock, ht, resizeLock, statusLock, ops, resizes, crashes>>

(* clht_get reads a value, then its key, then the value again.             *)
Slot(t) == bkt[th[t].cur].slots[th[t].j]

GetVal(t) ==
  /\ At(t, "get_val")
  /\ th' = [th EXCEPT ![t].res = Slot(t)[2], ![t].pc = "get_key"]
  /\ Silent

GetKey(t) ==
  /\ At(t, "get_key")
  /\ \/ Slot(t)[1] = th[t].k /\ Goto(t, "get_again")
     \/ /\ Slot(t)[1] # th[t].k /\ th[t].j < Entries
        /\ th' = [th EXCEPT ![t].j = @ + 1, ![t].pc = "get_val"]
     \/ /\ Slot(t)[1] # th[t].k /\ th[t].j = Entries /\ bkt[th[t].cur].next # 0
        /\ th' = [th EXCEPT ![t].j = 1, ![t].cur = bkt[@].next, ![t].pc = "get_val"]
     \/ /\ Slot(t)[1] # th[t].k /\ th[t].j = Entries /\ bkt[th[t].cur].next = 0
        /\ Result(t, 0)
  /\ Silent

(* Mutant of GetAgain: the value is not read again.                        *)
GetAgain_Once(t) ==
  /\ At(t, "get_again")
  /\ Result(t, th[t].res)
  /\ Silent

GetAgain(t) ==
  /\ At(t, "get_again")
  /\ Result(t, IF Slot(t)[2] = th[t].res THEN th[t].res ELSE 0)
  /\ Silent

(* bucket_exists, before the lock is taken.                                *)
Exists(t) ==
  /\ At(t, "exists")
  /\ LET here == Hits(bkt[th[t].cur].slots, th[t].k) # {}
         more == bkt[th[t].cur].next
     IN \/ here /\ th[t].op = "put" /\ Result(t, 0)
        \/ here /\ th[t].op = "remove" /\ th' = [th EXCEPT ![t].pc = "acquire"]
        \/ ~here /\ more # 0 /\ th' = [th EXCEPT ![t].cur = more]
        \/ ~here /\ more = 0 /\ th[t].op = "put" /\ Goto(t, "acquire")
        \/ ~here /\ more = 0 /\ th[t].op = "remove" /\ Result(t, 0)
  /\ Silent

(* lock_acq_chk_resize: spins while another update holds the chain.        *)
Acquire(t) ==
  /\ At(t, "acquire")
  /\ \/ /\ lock[Bin(th[t].tb, th[t].k)] = LOCK_FREE
        /\ lock' = [lock EXCEPT ![Bin(th[t].tb, th[t].k)] = LOCK_UPDATE]
        /\ Goto(t, "locked")
     \/ /\ lock[Bin(th[t].tb, th[t].k)] = LOCK_RESIZE
        /\ Goto(t, "help")
        /\ UNCHANGED lock
  /\ UNCHANGED <<tables, ht, resizeLock, statusLock, abs, seen, ops, resizes, crashes>>

(* ht_resize_help: the first thread to come helps, from the last bin down. *)
Help(t) ==
  /\ At(t, "help")
  /\ LET i == th[t].tb
     IN /\ WriteTable(i, [tab[i] EXCEPT !.helper = @ - 1])
        /\ th' = [th EXCEPT ![t].pc = IF tab[i].helper > 0 THEN "help_lock" ELSE "await",
                            ![t].bin = tab[i].n - 1, ![t].j = 1, ![t].cur = 0, ![t].new = tab[i].tmp]
  /\ UNCHANGED <<bkt, line, made, abs, seen>> /\ Rest

(* lock_acq_resize: spins while an update holds the chain, and gives up    *)
(* if another thread is moving it.                                         *)
LockToMove(t, from, moving, givenUp) ==
  /\ At(t, from)
  /\ LET head == tab[th[t].tb].first + th[t].bin
     IN \/ /\ lock[head] = LOCK_FREE
           /\ lock' = [lock EXCEPT ![head] = LOCK_RESIZE]
           /\ Goto(t, moving)
        \/ /\ lock[head] = LOCK_RESIZE
           /\ Goto(t, givenUp)
           /\ UNCHANGED lock
  /\ UNCHANGED <<tables, ht, resizeLock, statusLock, abs, seen, ops, resizes, crashes>>

HelpLock(t) == LockToMove(t, "help_lock", "help_move", "help_done")

(* clht_put_seq: the first empty slot of the bin, or a new bucket.  The    *)
(* bins that two threads move go to different bins of a larger table.      *)
PutSeq(kv, i, bin, empty) ==
  IF empty # {}
  THEN /\ Write(BucketOf(bin, First(empty)),
                [bkt[BucketOf(bin, First(empty))] EXCEPT !.slots[PlaceOf(First(empty))] = kv])
       /\ UNCHANGED <<made, tab, stats>>
  ELSE /\ made < MaxBuckets
       /\ bkt' = [bkt EXCEPT ![Last(Chain(bkt, bin))].next = made + 1, ![made + 1].slots[1] = kv]
       /\ line' = [x \in Ids |-> line[x] \cup {bkt'[x]}]
       /\ made' = made + 1
       /\ WriteTable(i, [tab[i] EXCEPT !.expands = @ + 1])

clht_put_seq(kv, i) ==
  PutSeq(kv, i, Bin(i, kv[1]), Hits(SlotsOf(bkt, Bin(i, kv[1])), 0))

(* bucket_cpy puts the entries of a chain into the new table, one by one.  *)
MoveEntry(t, from, s) ==
  /\ At(t, from) /\ th[t].j <= Len(s)
  /\ IF s[th[t].j][1] = 0 THEN UNCHANGED tables ELSE clht_put_seq(s[th[t].j], th[t].new)
  /\ th' = [th EXCEPT ![t].j = @ + 1]

MoveFrom(t) == SlotsOf(bkt, tab[th[t].tb].first + th[t].bin)

HelpMove(t) ==
  /\ At(t, "help_move")
  /\ \/ MoveEntry(t, "help_move", MoveFrom(t))
     \/ /\ th[t].j > Len(MoveFrom(t))
        /\ th' = [th EXCEPT ![t].bin = @ - 1, ![t].j = 1,
                            ![t].pc = IF th[t].bin = 0 THEN "help_done" ELSE "help_lock"]
        /\ UNCHANGED tables
  /\ UNCHANGED <<abs, seen>> /\ Rest

(* Mutant of HelpDone: helper_done is not set.                             *)
HelpDone_Unsaid(t) ==
  /\ At(t, "help_done")
  /\ Goto(t, "await")
  /\ Silent

HelpDone(t) ==
  /\ At(t, "help_done")
  /\ WriteTable(th[t].tb, [tab[th[t].tb] EXCEPT !.done = 1])
  /\ Goto(t, "await")
  /\ UNCHANGED <<bkt, line, made, abs, seen>> /\ Rest

(* The thread waits for the new table and starts over with it.             *)
Await(t) ==
  /\ At(t, "await")
  /\ tab[th[t].tb].new # 0
  /\ th' = [th EXCEPT ![t].pc = "acquire", ![t].tb = ht]
  /\ Silent

(* Under the lock: clht_put looks for the key and for an empty slot,       *)
(* clht_remove for the key.                                                *)
Locked(t) ==
  /\ At(t, "locked")
  /\ LET head == Bin(th[t].tb, th[t].k)
         s == SlotsOf(bkt, head)
         hit == Hits(s, th[t].k)
         empty == Hits(s, 0)
         Take(xs, p) == th' = [th EXCEPT ![t].cur = BucketOf(head, First(xs)), ![t].j = PlaceOf(First(xs)),
                                         ![t].pc = p, ![t].res = ValueIn(s, th[t].k)]
     IN \/ th[t].op = "put" /\ hit # {} /\ th' = [th EXCEPT ![t].pc = "unlock", ![t].res = 0]
        \/ th[t].op = "put" /\ hit = {} /\ empty # {} /\ Take(empty, "put_val")
        \/ /\ th[t].op = "put" /\ hit = {} /\ empty = {}
           /\ th' = [th EXCEPT ![t].cur = Last(Chain(bkt, head)), ![t].pc = "put_bucket"]
        \/ th[t].op = "remove" /\ hit # {} /\ Take(hit, "remove_key")
        \/ th[t].op = "remove" /\ hit = {} /\ th' = [th EXCEPT ![t].pc = "unlock", ![t].res = 0]
  /\ Silent

PutVal(t) ==
  /\ At(t, "put_val")
  /\ Write(th[t].cur, [bkt[th[t].cur] EXCEPT !.slots[th[t].j][2] = th[t].v])
  /\ Goto(t, "put_flush")
  /\ UNCHANGED <<made, tab, stats, abs, seen>> /\ Rest

PutFlush(t) ==
  /\ At(t, "put_flush")
  /\ Flush(th[t].cur)
  /\ Goto(t, "put_key")
  /\ UNCHANGED <<bkt, made, tab, stats, abs, seen>> /\ Rest

PutKey(t) ==
  /\ At(t, "put_key")
  /\ MovntKey(th[t].cur, th[t].j, th[t].k)
  /\ TakesEffect(th[t].k, th[t].v)
  /\ th' = [th EXCEPT ![t].pc = "unlock", ![t].res = 1]
  /\ UNCHANGED <<made, tab, stats>> /\ Rest

(* clht_bucket_create_stats, the entry, and the flush of the new bucket.   *)
PutBucket(t) ==
  /\ At(t, "put_bucket") /\ made < MaxBuckets
  /\ LET b == [Free EXCEPT !.slots[1] = <<th[t].k, th[t].v>>]
         e == tab[th[t].tb].expands + 1
     IN /\ bkt' = [bkt EXCEPT ![made + 1] = b]
        /\ line' = [line EXCEPT ![made + 1] = {b}]
        /\ WriteTable(th[t].tb, [tab[th[t].tb] EXCEPT !.expands = e])
        /\ th' = [th EXCEPT ![t].pc = "put_link", ![t].new = made + 1,
                            ![t].grow = e >= tab[th[t].tb].threshold]
  /\ made' = made + 1
  /\ UNCHANGED <<abs, seen>> /\ Rest

PutLink(t) ==
  /\ At(t, "put_link")
  /\ MovntNext(th[t].cur, th[t].new)
  /\ TakesEffect(th[t].k, th[t].v)
  /\ th' = [th EXCEPT ![t].pc = "unlock", ![t].res = 1]
  /\ UNCHANGED <<made, tab, stats>> /\ Rest

RemoveKey(t) ==
  /\ At(t, "remove_key")
  /\ MovntKey(th[t].cur, th[t].j, 0)
  /\ TakesEffect(th[t].k, 0)
  /\ Goto(t, "unlock")
  /\ UNCHANGED <<made, tab, stats>> /\ Rest

Unlock(t) ==
  /\ At(t, "unlock")
  /\ lock' = [lock EXCEPT ![Bin(th[t].tb, th[t].k)] = LOCK_FREE]
  /\ Goto(t, IF th[t].grow THEN "status" ELSE "ret")
  /\ UNCHANGED <<tables, ht, resizeLock, statusLock, abs, seen, ops, resizes, crashes>>

-----------------------------------------------------------------------------
Count(s) == Cardinality({x \in DOMAIN s : s[x][1] # 0})
Power(x) == IF x <= 1 THEN 1 ELSE CHOOSE p \in {2^i : i \in 0..6} : p >= x /\ p < 2 * x

(* ht_status(h, 1, 0): the table shrinks if it is nearly empty, grows      *)
(* otherwise; the status lock is taken whether it is held or not.          *)
ht_status(t) ==
  /\ At(t, "status")
  /\ statusLock' = TRUE
  /\ LET tb == tab[ht]
         size == Count(FlattenSeq([b \in 1..tb.n |-> SlotsOf(bkt, tb.first + b - 1)]))
         inc == Power((100 * size) \div (tb.n * Entries * OccupAfterRes))
         up == ~(size > 0 /\ 100 * size < PercFullHalve * tb.n * Entries)
     IN th' = [th EXCEPT ![t].pc = "resize", ![t].up = up,
                         ![t].by = IF inc = 1 THEN 2 ELSE inc]
  /\ UNCHANGED <<tables, lock, ht, resizeLock, abs, seen, ops, resizes, crashes>>

(* ht_resize_pes reads h->ht before it takes the lock.                     *)
Resize(t) ==
  /\ At(t, "resize")
  /\ th' = [th EXCEPT ![t].pc = "resize_lock", ![t].tb = ht]
  /\ Silent

ResizeLock(t) ==
  /\ At(t, "resize_lock")
  /\ IF resizeLock \/ resizes = MaxResizes
     THEN Goto(t, "status_done") /\ UNCHANGED <<resizeLock, resizes>>
     ELSE Goto(t, "create") /\ resizeLock' = TRUE /\ resizes' = resizes + 1
  /\ UNCHANGED <<tables, lock, ht, statusLock, abs, seen, ops, crashes>>

Create(t) ==
  /\ At(t, "create")
  /\ LET old == tab[th[t].tb]
         n == IF th[t].up THEN th[t].by * old.n ELSE old.n \div RatioHalve
         new == NewTable(made + 1, n)
     IN /\ made + n <= MaxBuckets
        /\ made' = made + n
        /\ tab' = Append([tab EXCEPT ![th[t].tb].tmp = Len(tab) + 1,
                                     ![th[t].tb].helper = IF th[t].up THEN @ ELSE 0], new)
        /\ stats' = Append(stats, {Second(new)})
  /\ th' = [th EXCEPT ![t].pc = "move_lock", ![t].bin = 0, ![t].j = 1, ![t].cur = 0, ![t].new = Len(tab) + 1]
  /\ UNCHANGED <<bkt, line, abs, seen>> /\ Rest

MoveLock(t) == LockToMove(t, "move_lock", "move", "helped")

MoveBin(t) ==
  /\ At(t, "move")
  /\ \/ MoveEntry(t, "move", MoveFrom(t))
     \/ /\ th[t].j > Len(MoveFrom(t))
        /\ th' = [th EXCEPT ![t].bin = @ + 1, ![t].j = 1,
                            ![t].pc = IF th[t].bin + 1 = tab[th[t].tb].n THEN "helped" ELSE "move_lock"]
        /\ UNCHANGED tables
  /\ UNCHANGED <<abs, seen>> /\ Rest

(* If there is a helper it must be done.                                   *)
Helped(t) ==
  /\ At(t, "helped")
  /\ th[t].up /\ tab[th[t].tb].helper # 1 => tab[th[t].tb].done = 1
  /\ Goto(t, "flush_new")
  /\ Silent

(* Mutant of FlushNew: only the first buckets of the chains are flushed.   *)
FlushNew_Heads(t) ==
  /\ At(t, "flush_new")
  /\ LET i == th[t].new
     IN /\ line' = [x \in Ids |-> IF x \in tab[i].first..(tab[i].first + tab[i].n - 1) THEN {bkt[x]} ELSE line[x]]
        /\ stats' = [stats EXCEPT ![i] = {Second(tab[i])}]
        /\ th' = [th EXCEPT ![t].pc = "swap", ![t].grow = tab[i].expands >= tab[i].threshold]
  /\ UNCHANGED <<bkt, made, tab, abs, seen>> /\ Rest

(* mfence, clflush and clflush_next_check of the whole new table.          *)
FlushNew(t) ==
  /\ At(t, "flush_new")
  /\ LET i == th[t].new
     IN /\ line' = [x \in Ids |-> IF x \in Reachable(bkt, tab[i]) THEN {bkt[x]} ELSE line[x]]
        /\ stats' = [stats EXCEPT ![i] = {Second(tab[i])}]
        /\ th' = [th EXCEPT ![t].pc = "swap", ![t].grow = tab[i].expands >= tab[i].threshold]
  /\ UNCHANGED <<bkt, made, tab, abs, seen>> /\ Rest

(* movnt64 of h->ht.                                                       *)
Swap(t) ==
  /\ At(t, "swap")
  /\ ht' = th[t].new
  /\ Goto(t, "publish")
  /\ UNCHANGED <<tables, lock, resizeLock, statusLock, abs, seen, ops, resizes, crashes>>

Publish(t) ==
  /\ At(t, "publish")
  /\ tab' = [tab EXCEPT ![th[t].tb].new = th[t].new]
  /\ Goto(t, "resize_done")
  /\ UNCHANGED <<bkt, line, made, stats, abs, seen>> /\ Rest

ResizeDone(t) ==
  /\ At(t, "resize_done")
  /\ resizeLock' = FALSE
  /\ Goto(t, IF th[t].grow THEN "status" ELSE "status_done")
  /\ UNCHANGED <<tables, lock, ht, statusLock, abs, seen, ops, resizes, crashes>>

StatusDone(t) ==
  /\ At(t, "status_done")
  /\ statusLock' = FALSE
  /\ Goto(t, "ret")
  /\ UNCHANGED <<tables, lock, ht, resizeLock, abs, seen, ops, resizes, crashes>>

-----------------------------------------------------------------------------
(* The buckets that may be found in table i, by any version of their lines.*)
MayReach(i) ==
  LET r[n \in 0..MaxBuckets] ==
        IF n = 0 THEN tab[i].first..(tab[i].first + tab[i].n - 1)
        ELSE r[n - 1] \cup ({v.next : v \in UNION {line[x] : x \in r[n - 1]}} \ {0})
  IN r[MaxBuckets]

(* The memories that may be found.                                         *)
Found(i) ==
  LET open == {x \in MayReach(i) : Cardinality(line[x]) > 1}
  IN {[x \in Ids |-> IF x \in open THEN f[x] ELSE bkt[x]] :
        f \in {g \in [open -> UNION {line[x] : x \in open}] : \A x \in open : g[x] \in line[x]}}

(* Power is lost, and each line is found in one of its versions.  What is  *)
(* not reachable is never used again.  clht_lock_initialization frees the  *)
(* locks, and no others of the words that threads share.                   *)
Recover(m, s) ==
  /\ bkt' = [x \in Ids |-> IF x \in Reachable(m, tab[ht]) THEN m[x] ELSE Free]
  /\ line' = [x \in Ids |-> {bkt'[x]}]
  /\ tab' = [tab EXCEPT ![ht].expands = s.expands, ![ht].helper = s.helper, ![ht].done = s.done]
  /\ stats' = [stats EXCEPT ![ht] = {s}]

clht_lock_initialization ==
  /\ lock' = [x \in Ids |-> LOCK_FREE]
  /\ resizeLock' = FALSE /\ statusLock' = FALSE

Crash ==
  /\ crashes < MaxCrashes
  /\ \E m \in Found(ht) : \E s \in stats[ht] : Recover(m, s)
  /\ clht_lock_initialization
  /\ th' = [t \in Threads |-> Idle]
  /\ seen' = [t \in Threads |-> {}]
  /\ crashes' = crashes + 1
  /\ UNCHANGED <<made, ht, abs, ops, resizes>>

Step(t) ==
  \/ GetVal(t) \/ GetKey(t) \/ GetAgain(t)
  \/ Exists(t) \/ Acquire(t) \/ Help(t) \/ HelpLock(t) \/ HelpMove(t) \/ HelpDone(t) \/ Await(t)
  \/ Locked(t) \/ PutVal(t) \/ PutFlush(t) \/ PutKey(t) \/ PutBucket(t) \/ PutLink(t)
  \/ RemoveKey(t) \/ Unlock(t)
  \/ ht_status(t) \/ Resize(t) \/ ResizeLock(t) \/ Create(t) \/ MoveLock(t) \/ MoveBin(t)
  \/ Helped(t) \/ FlushNew(t) \/ Swap(t) \/ Publish(t) \/ ResizeDone(t)
  \/ StatusDone(t) \/ Respond(t)

Next == (\E t \in Threads : Begin(t) \/ Step(t)) \/ Crash

Spec == Init /\ [][Next]_vars /\ \A t \in Threads : WF_vars(Step(t))

-----------------------------------------------------------------------------
(* The table a new call would use always holds the map: no entry is lost   *)
(* or doubled by an update, by a resize and its helper, or by a crash once *)
(* its call has returned.                                                  *)
TableHoldsMap ==
  \A k \in Keys : /\ Lookup(bkt, ht, k) = abs[k]
                  /\ Cardinality(Hits(SlotsOf(bkt, Bin(ht, k)), k)) <= 1

(* What a call returns was true at some moment of the call: a get returns  *)
(* a value the key had, a put fails only if the key was there, a remove    *)
(* returns the value it took away.                                         *)
ResultsAreCurrent ==
  \A t \in Threads : At(t, "ret") =>
    CASE th[t].op = "get" -> th[t].res \in seen[t]
      [] th[t].op = "put" -> IF th[t].res = 1 THEN th[t].v \in seen[t] ELSE \E v \in seen[t] : v # 0
      [] th[t].op = "remove" -> IF th[t].res = 0 THEN 0 \in seen[t] ELSE {0, th[t].res} \subseteq seen[t]

(* Every call returns, unless power is lost.                               *)
CallsReturn ==
  \A t \in Threads : (~At(t, "idle") /\ crashes = 0) ~> (At(t, "idle") \/ crashes > 0)
=============================================================================
