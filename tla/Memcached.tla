----------------------------- MODULE Memcached -----------------------------
(***************************************************************************)
(* The threads of memcached that share its memory: connections run by the  *)
(* workers, the LRU maintainer, the LRU crawler and the slab mover.  A     *)
(* region under one item lock is a step; whoever keeps an item, LRU or     *)
(* slabs lock longer is shown holding it.                                  *)
(***************************************************************************)
EXTENDS Items, FiniteSets

CONSTANTS Conns,
          Wanted,              \* the keys clients name
          Preloaded,           \* keys stored before the threads start
          MaxMoves, MaxCrawls, MaxGets,
          Tries,               \* rounds of do_item_alloc_pull (10)
          PullTries,           \* items lru_pull_tail looks at (5)
          BusyLoops,           \* bound on slab_rebal.busy_loops
          CrawlSets,           \* the sets of lists a crawl is started on
          Shifts,              \* the background threads that run together, whether items may
                               \* expire meanwhile, which commands clients send and how many
          Together,            \* whether items expire while the mover deletes busy ones
          SLAB_MOVE_MAX_LOOPS,
          hot_lru_pct, warm_lru_pct

VARIABLES heap,
          item_lock,       \* key -> thread that holds the lock of its hash
          lru_lock,        \* LRU -> thread that holds its lock
          slabs_lock,      \* the thread that holds it while it waits for another lock
          conn,            \* connection -> its command
          pull,            \* thread -> its call of lru_pull_tail
          lru,             \* the LRU maintainer
          crawl,           \* the LRU crawler
          rebal,           \* slab_rebal
          left             \* commands, moves and crawls still to come

locks == <<item_lock, lru_lock, slabs_lock>>
mVars == <<heap, item_lock, lru_lock, slabs_lock, conn, pull, lru, crawl, rebal, left>>

Lru == "lru maintainer"
Mover == "slab mover"
NoOne == "no one"
Pullers == Conns \cup {Lru}

NoConn == [pc |-> "idle", cmd |-> Null, key |-> Null, it |-> Null, old |-> Null, new |-> Null, n |-> 0, casid |-> 0,
           list |-> <<>>]
NoPull == [lru |-> Null, evict |-> FALSE, crawl |-> FALSE, search |-> Null, tries |-> 0, it |-> Null,
           to |-> Null, removed |-> 0, key |-> Null, pc |-> "off"]
NoCrawl == [it |-> Null, key |-> Null, lru |-> Null]
NoRebal == [signal |-> 0, d |-> 0, page |-> Null, pos |-> 1, busy |-> FALSE, loops |-> 0, it |-> Null,
            new |-> Null, pc |-> "off"]

MInit ==
  /\ heap = Loaded(Preloaded)
  /\ item_lock = [k \in Keys |-> NoOne] /\ lru_lock = [l \in LRUs |-> NoOne] /\ slabs_lock = NoOne
  /\ conn = [c \in Conns |-> NoConn]
  /\ pull = [t \in Pullers |-> NoPull]
  /\ lru = [pc |-> "idle", todo |-> <<>>, size |-> 0]
  /\ crawl = NoCrawl
  /\ rebal = NoRebal
  /\ \E shift \in Shifts : left = shift @@ [moves |-> MaxMoves, crawls |-> MaxCrawls]

LruFree == \A l \in LRUs : lru_lock[l] = NoOne
MayUse(k) == item_lock[k] = NoOne /\ LruFree /\ slabs_lock = NoOne

(* The value a command stores, and how many digits a counter has.          *)
Text == -1                \* a value that is no number
Written(cmd) == IF cmd \in {"append", "prepend"} THEN <<Text>> ELSE <<1>>
Digits(v) == IF v < 2 THEN 1 ELSE 2
Wraps == 4                \* 2^64

-----------------------------------------------------------------------------
(* lru_pull_tail: walks from the tail of one list with its lock held.      *)

StartsPull(t, l, evict, blocks) ==
  /\ lru_lock[l] = NoOne
  /\ lru_lock' = [lru_lock EXCEPT ![l] = t]
  /\ pull' = [pull EXCEPT ![t] = [NoPull EXCEPT !.pc = "walk", !.lru = l, !.evict = evict, !.crawl = blocks,
                !.tries = PullTries, !.search = IF heap.lru[l] = <<>> THEN Null ELSE Last(heap.lru[l])]]

Next_it(t) == PrevOf(heap.lru[pull[t].lru], pull[t].search)
KeyAt(t) == heap.chunk[pull[t].search].key

GoesOn(t, removed) ==
  pull' = [pull EXCEPT ![t] = [@ EXCEPT !.pc = "walk", !.search = Next_it(t), !.tries = @ - 1,
                                        !.removed = @ + removed]]

(* The walk stops at this item: its lock stays held, the list's is freed.  *)
Settles(t, to, removed) ==
  /\ pull' = [pull EXCEPT ![t] = [@ EXCEPT !.pc = "settle", !.it = pull[t].search, !.to = to,
                                           !.removed = @ + removed, !.key = KeyAt(t)]]
  /\ lru_lock' = [lru_lock EXCEPT ![pull[t].lru] = NoOne]
  /\ item_lock' = [item_lock EXCEPT ![KeyAt(t)] = t]

Walking(t) == pull[t].pc = "walk" /\ pull[t].tries > 0 /\ pull[t].search # Null
At(t) == pull[t].search
Flagged(t, f) == f \in heap.chunk[At(t)].flags

Others == <<slabs_lock, conn, lru, crawl, rebal, left>>

(* The end of the list or of the tries.                                    *)
PullNothing(t) ==
  /\ pull[t].pc = "walk" /\ (pull[t].tries = 0 \/ pull[t].search = Null)
  /\ lru_lock' = [lru_lock EXCEPT ![pull[t].lru] = NoOne]
  /\ pull' = [pull EXCEPT ![t].pc = "done"]
  /\ UNCHANGED <<heap, item_lock, Others>>

PullCrawler(t) ==
  /\ Walking(t) /\ At(t) = Crawler
  /\ IF pull[t].crawl
     THEN /\ lru_lock' = [lru_lock EXCEPT ![pull[t].lru] = NoOne]
          /\ pull' = [pull EXCEPT ![t] = [@ EXCEPT !.pc = "done", !.removed = 0]]
     ELSE /\ pull' = [pull EXCEPT ![t].search = Next_it(t)]
          /\ UNCHANGED lru_lock
  /\ UNCHANGED <<heap, item_lock, Others>>

PullLocked(t) ==
  /\ Walking(t) /\ At(t) # Crawler /\ item_lock[KeyAt(t)] # NoOne
  /\ GoesOn(t, 0)
  /\ UNCHANGED <<heap, locks, conn, lru, crawl, rebal, left>>

Taken(t) == Walking(t) /\ At(t) # Crawler /\ item_lock[KeyAt(t)] = NoOne

(* An expired or flushed item is unlinked; freeing it takes slabs_lock     *)
(* inside the lock of the list.                                            *)
PullDead(t) ==
  /\ Taken(t) /\ Dead(heap, At(t))
  /\ heap' = do_item_unlink(refcount_incr(heap, At(t)), At(t))
  /\ item_lock' = [item_lock EXCEPT ![KeyAt(t)] = t]
  /\ pull' = [pull EXCEPT ![t] = [@ EXCEPT !.pc = "reclaim", !.it = pull[t].search, !.key = KeyAt(t),
                                           !.search = Next_it(t)]]
  /\ UNCHANGED <<lru_lock, Others>>

PullReclaim(t) ==
  /\ pull[t].pc = "reclaim" /\ slabs_lock = NoOne
  /\ heap' = do_item_remove(heap, pull[t].it)
  /\ item_lock' = [item_lock EXCEPT ![pull[t].key] = NoOne]
  /\ pull' = [pull EXCEPT ![t] = [@ EXCEPT !.pc = "walk", !.it = Null, !.key = Null, !.tries = @ - 1,
                                           !.removed = @ + 1]]
  /\ UNCHANGED <<lru_lock, Others>>

(* The share of its class a list may have, items being of one size.        *)
Requested == Cardinality({c \in Chunks : "SLABBED" \notin heap.chunk[c].flags})
OverLimit(l) ==
  LET size == Len(SelectSeq(heap.lru[l], LAMBDA x : x # Crawler))
  IN  size * 100 > Requested * (IF l = "HOT" THEN hot_lru_pct ELSE warm_lru_pct)

(* An active item goes up; an inactive one over the limit, or older than   *)
(* the age allowed, goes to COLD.                                          *)
PullHotWarm(t) ==
  LET c == At(t)  l == pull[t].lru  inactive == [heap EXCEPT !.chunk[c].flags = @ \ {"ACTIVE"}] IN
  /\ Taken(t) /\ ~Dead(heap, c) /\ l \in {"HOT", "WARM"}
  /\ \E aged \in BOOLEAN :
       CASE Flagged(t, "ACTIVE") /\ l = "WARM" ->
              /\ heap' = IF aged THEN do_item_link_q(do_item_unlink_q(inactive, c), c) ELSE inactive
              /\ GoesOn(t, 1)
              /\ UNCHANGED <<item_lock, lru_lock>>
         [] Flagged(t, "ACTIVE") /\ l = "HOT" ->
              /\ heap' = refcount_incr(do_item_unlink_q(inactive, c), c)
              /\ Settles(t, "WARM", 1)
         [] ~Flagged(t, "ACTIVE") /\ (OverLimit(l) \/ aged) ->
              /\ heap' = refcount_incr(do_item_unlink_q(heap, c), c)
              /\ Settles(t, "COLD", 1)
         [] OTHER ->
              /\ heap' = refcount_incr(heap, c)
              /\ Settles(t, Null, 0)
  /\ UNCHANGED Others

PullCold(t) ==
  LET c == At(t) IN
  /\ Taken(t) /\ ~Dead(heap, c) /\ pull[t].lru = "COLD"
  /\ CASE pull[t].evict ->
            /\ heap' = do_item_unlink(refcount_incr(heap, c), c)
            /\ Settles(t, Null, 1)
       [] ~pull[t].evict /\ Flagged(t, "ACTIVE") ->
            /\ heap' = refcount_incr([do_item_unlink_q(heap, c) EXCEPT !.chunk[c].flags = @ \ {"ACTIVE"}], c)
            /\ Settles(t, "WARM", 1)
       [] OTHER ->
            /\ heap' = refcount_incr(heap, c)
            /\ Settles(t, Null, 0)
  /\ UNCHANGED Others

(* With the list's lock free again the item goes on its new list, and the  *)
(* walk's reference and lock are given back.                               *)
PullSettles(t) ==
  LET c == pull[t].it IN
  /\ pull[t].pc = "settle" /\ LruFree /\ slabs_lock = NoOne
  /\ heap' = do_item_remove(IF pull[t].to = Null THEN heap
                            ELSE do_item_link_q([heap EXCEPT !.chunk[c].lru = pull[t].to], c), c)
  /\ item_lock' = [item_lock EXCEPT ![pull[t].key] = NoOne]
  /\ pull' = [pull EXCEPT ![t] = [@ EXCEPT !.pc = "done", !.it = Null, !.key = Null]]
  /\ UNCHANGED <<lru_lock, Others>>

lru_pull_tail(t) ==
  \/ PullNothing(t) \/ PullCrawler(t) \/ PullLocked(t) \/ PullDead(t) \/ PullReclaim(t)
  \/ PullHotWarm(t) \/ PullCold(t) \/ PullSettles(t)

-----------------------------------------------------------------------------
(* Commands.  A connection that reads a value or writes a reply keeps its  *)
(* references and no lock.                                                 *)

Quiet == <<pull, lru, crawl, rebal>>
Goes(c, pc) == conn' = [conn EXCEPT ![c].pc = pc]
Ends(c) == conn' = [conn EXCEPT ![c] = NoConn]

Arrives(c, cmd) ==
  /\ conn[c].pc = "idle" /\ cmd \in left.cmds /\ left.commands > 0
  /\ left' = [left EXCEPT !.commands = @ - 1]

(* The command line of set, add, replace, append, prepend or cas; the id   *)
(* of a cas is the one the client last read.                               *)
process_update_command(c, cmd, k) ==
  /\ cmd \in {"set", "add", "replace", "append", "prepend", "cas"}
  /\ Arrives(c, cmd)
  /\ conn' = [conn EXCEPT ![c] = [@ EXCEPT !.pc = "alloc", !.cmd = cmd, !.key = k,
                !.casid = IF cmd = "cas" /\ assoc_find(heap, k) # Null
                          THEN heap.chunk[assoc_find(heap, k)].cas ELSE 0]]
  /\ UNCHANGED <<heap, locks, Quiet>>

(* do_item_alloc_pull: a chunk, or a round of making room for one.         *)
Growing(c) == conn[c].old # Null

slabs_alloc(c) ==
  LET got == do_slabs_alloc(heap, Cls, TRUE) IN
  /\ conn[c].pc = "alloc" /\ conn[c].n < Tries /\ slabs_lock = NoOne
  /\ IF got.it = Null THEN heap' = heap /\ Goes(c, "evict")
     ELSE IF Growing(c)
     THEN heap' = got.heap /\ conn' = [conn EXCEPT ![c] = [@ EXCEPT !.pc = "copy", !.new = got.it]]
     ELSE /\ \E expires \in {"never"} \cup (IF left.dying THEN {"later"} ELSE {}) :
               heap' = NewItem(got.heap, got.it, conn[c].key, Written(conn[c].cmd), 1, expires)
          /\ conn' = [conn EXCEPT ![c] = [@ EXCEPT !.pc = "nread", !.it = got.it]]
  /\ UNCHANGED <<locks, Quiet, left>>

MakeRoom(c) ==
  /\ pull[c].pc = "off" /\ conn[c].pc \in {"evict", "demote"}
  /\ StartsPull(c, IF conn[c].pc = "evict" THEN "COLD" ELSE "HOT", conn[c].pc = "evict", FALSE)
  /\ UNCHANGED <<heap, item_lock, slabs_lock, conn, lru, crawl, rebal, left>>

(* Nothing to evict from COLD: something may move there from HOT.          *)
RoomMade(c) ==
  /\ pull[c].pc = "done"
  /\ pull' = [pull EXCEPT ![c] = NoPull]
  /\ conn' = [conn EXCEPT ![c] =
       IF conn[c].pc = "evict" /\ pull[c].removed = 0 THEN [@ EXCEPT !.pc = "demote"]
       ELSE [@ EXCEPT !.pc = "alloc", !.n = @ + 1]]
  /\ UNCHANGED <<heap, locks, lru, crawl, rebal, left>>

(* Out of memory: a set removes the old value; append and incr give back   *)
(* the item they hold locked.                                              *)
NoMemory(c) ==
  /\ conn[c].pc = "alloc" /\ conn[c].n = Tries
  /\ IF Growing(c)
     THEN /\ LruFree /\ slabs_lock = NoOne
          /\ heap' = do_item_remove(heap, conn[c].old)
          /\ item_lock' = [item_lock EXCEPT ![conn[c].key] = NoOne]
          /\ IF conn[c].it = Null THEN Ends(c)
             ELSE conn' = [conn EXCEPT ![c] = [@ EXCEPT !.pc = "stored", !.old = Null]]
     ELSE /\ IF conn[c].cmd = "set" THEN Goes(c, "delete") ELSE Ends(c)
          /\ UNCHANGED <<heap, item_lock>>
  /\ UNCHANGED <<lru_lock, slabs_lock, Quiet, left>>

(* complete_nread_ascii with a bad data chunk, or the client has gone.     *)
NotStored(c) ==
  /\ conn[c].pc = "nread"
  /\ Goes(c, "stored")
  /\ UNCHANGED <<heap, locks, Quiet, left>>

do_store_item(c) ==
  LET cmd == conn[c].cmd  it == conn[c].it  old == assoc_find(heap, conn[c].key) IN
  /\ conn[c].pc = "nread" /\ MayUse(conn[c].key)
  /\ IF cmd \in {"append", "prepend"} /\ old # Null
     THEN /\ heap' = refcount_incr(heap, old)
          /\ item_lock' = [item_lock EXCEPT ![conn[c].key] = c]
          /\ conn' = [conn EXCEPT ![c] = [@ EXCEPT !.pc = "alloc", !.old = old, !.n = 0]]
     ELSE /\ heap' = CASE old = Null -> IF cmd \in {"set", "add"} THEN do_item_link(heap, it) ELSE heap
                      [] cmd = "add" /\ old # Null -> do_item_update(heap, old)
                      [] cmd = "cas" /\ old # Null ->
                           IF conn[c].casid = heap.chunk[old].cas THEN Replaced(heap, it, old) ELSE heap
                      [] OTHER -> Replaced(heap, it, old)
          /\ Goes(c, "stored")
          /\ UNCHANGED item_lock
  /\ UNCHANGED <<lru_lock, slabs_lock, Quiet, left>>

(* The second half of append, prepend and incr: the new item has its chunk *)
(* and takes the place of the old one.                                     *)
Grown(c) ==
  LET v == heap.chunk[conn[c].old].val
      x == Written(conn[c].cmd)
  IN  CASE conn[c].cmd = "append" -> v \o x
        [] conn[c].cmd = "prepend" -> x \o v
        [] OTHER -> <<(v[1] + 1) % Wraps>>

Grow(c) ==
  LET new == conn[c].new  old == conn[c].old
      h == do_item_replace(NewItem(heap, new, conn[c].key, Grown(c), IF conn[c].cmd = "incr" THEN Digits(Grown(c)[1]) ELSE Len(Grown(c)),
                                   heap.chunk[old].expires), old, new)
  IN  /\ conn[c].pc = "copy" /\ LruFree /\ slabs_lock = NoOne
      /\ heap' = do_item_remove(do_item_remove(
                    IF conn[c].cmd = "incr" THEN [h EXCEPT !.chunk[old].cas = h.chunk[new].cas] ELSE h, new), old)
      /\ item_lock' = [item_lock EXCEPT ![conn[c].key] = NoOne]
      /\ IF conn[c].it = Null THEN Ends(c)
         ELSE conn' = [conn EXCEPT ![c] = [@ EXCEPT !.pc = "stored", !.old = Null, !.new = Null]]
      /\ UNCHANGED <<lru_lock, slabs_lock, Quiet, left>>

(* item_remove of the item the connection works with.                      *)
item_remove(c) ==
  /\ conn[c].pc = "stored" /\ MayUse(conn[c].key)
  /\ heap' = do_item_remove(heap, conn[c].it)
  /\ Ends(c)
  /\ UNCHANGED <<locks, Quiet, left>>

(* One key of a get; the reply is written from the items themselves.       *)
process_get_command(c, k) ==
  LET it == assoc_find(heap, k) IN
  /\ \/ Arrives(c, "get")
     \/ conn[c].pc = "reply" /\ Len(conn[c].list) < MaxGets /\ UNCHANGED left
  /\ MayUse(k)
  /\ heap' = do_item_get(heap, k, TRUE)
  /\ conn' = IF it = Null THEN conn
             ELSE [conn EXCEPT ![c] = [@ EXCEPT !.pc = "reply",
                     !.list = Append(@, [it |-> it, key |-> k, val |-> heap.chunk[it].val])]]
  /\ UNCHANGED <<locks, Quiet>>

(* The reply has been sent, or the client has gone.                        *)
conn_release_items(c) ==
  LET held == Head(conn[c].list) IN
  /\ conn[c].pc \in {"reply", "release"} /\ MayUse(held.key)
  /\ heap' = do_item_remove(heap, held.it)
  /\ IF Len(conn[c].list) = 1 THEN Ends(c)
     ELSE conn' = [conn EXCEPT ![c] = [@ EXCEPT !.pc = "release", !.list = Tail(@)]]
  /\ UNCHANGED <<locks, Quiet, left>>

process_touch_command(c, k) ==
  LET it == assoc_find(heap, k) IN
  /\ Arrives(c, "touch") /\ MayUse(k)
  /\ heap' = do_item_touch(heap, k, "later")
  /\ conn' = IF it = Null THEN conn ELSE [conn EXCEPT ![c] = [@ EXCEPT !.pc = "stored", !.key = k, !.it = it]]
  /\ UNCHANGED <<locks, Quiet>>

(* delete, and set when there was no memory: a reference first, then the   *)
(* item is unlinked under its lock taken a second time.                    *)
process_delete_command(c, k) ==
  LET it == assoc_find(heap, k) IN
  /\ \/ Arrives(c, "delete")
     \/ conn[c].pc = "delete" /\ conn[c].key = k /\ UNCHANGED left
  /\ MayUse(k)
  /\ heap' = do_item_get(heap, k, FALSE)
  /\ conn' = [conn EXCEPT ![c] = IF it = Null THEN NoConn
                                 ELSE [@ EXCEPT !.pc = "unlink", !.key = k, !.it = it]]
  /\ UNCHANGED <<locks, Quiet>>

item_unlink(c) ==
  /\ conn[c].pc = "unlink" /\ MayUse(conn[c].key)
  /\ heap' = do_item_unlink(heap, conn[c].it)
  /\ Goes(c, "stored")
  /\ UNCHANGED <<locks, Quiet, left>>

(* Mutant of InPlace: readers of the item are not looked at.               *)
InPlace_Shared(h, it, v) == Digits(v) <= h.chunk[it].len

(* A number that fits is written in place if nobody else holds the item.   *)
InPlace(h, it, v) == Digits(v) <= h.chunk[it].len /\ h.chunk[it].ref = 2

do_add_delta(c, k) ==
  LET it == assoc_find(heap, k)
      v == (heap.chunk[it].val[1] + 1) % Wraps
      h == refcount_incr(heap, it)
  IN
  /\ Arrives(c, "incr") /\ MayUse(k)
  /\ IF it = Null THEN UNCHANGED <<heap, item_lock, conn>>
     ELSE IF Text \in ToSet(heap.chunk[it].val) THEN UNCHANGED <<heap, item_lock, conn>>
     ELSE IF InPlace(h, it, v)
     THEN /\ heap' = do_item_remove(do_item_update([h EXCEPT !.cas_id = @ + 1,
                        !.chunk[it] = [@ EXCEPT !.val = <<v>>, !.cas = h.cas_id + 1]], it), it)
          /\ UNCHANGED <<item_lock, conn>>
     ELSE /\ heap' = h
          /\ item_lock' = [item_lock EXCEPT ![k] = c]
          /\ conn' = [conn EXCEPT ![c] = [@ EXCEPT !.pc = "alloc", !.cmd = "incr", !.key = k, !.old = it]]
  /\ UNCHANGED <<lru_lock, slabs_lock, Quiet>>

flush_all(c) ==
  /\ Arrives(c, "flush_all") /\ left.dying
  /\ heap' = [heap EXCEPT !.cas_id = @ + 1, !.oldest_cas = heap.cas_id + 1]
  /\ UNCHANGED <<locks, conn, Quiet>>

(* The clock passes the time an item expires at.                           *)
Clock ==
  /\ left.dying
  /\ \E it \in Chunks :
       /\ heap.chunk[it].expires = "later"
       /\ heap' = [heap EXCEPT !.chunk[it].expires = "past"]
  /\ UNCHANGED <<locks, conn, Quiet, left>>

Connection(c) ==
  \/ \E k \in Wanted, cmd \in left.cmds : process_update_command(c, cmd, k)
  \/ slabs_alloc(c) \/ MakeRoom(c) \/ RoomMade(c) \/ NoMemory(c)
  \/ NotStored(c) \/ do_store_item(c) \/ Grow(c) \/ item_remove(c) \/ item_unlink(c)
  \/ conn_release_items(c) \/ flush_all(c) \/ lru_pull_tail(c)
  \/ \E k \in Wanted : \/ process_get_command(c, k) \/ process_touch_command(c, k)
                        \/ process_delete_command(c, k) \/ do_add_delta(c, k)

-----------------------------------------------------------------------------
(* The LRU maintainer: bumps that came from COLD, then HOT, WARM and COLD. *)

lru_maintainer_bumps ==
  \/ /\ lru.pc = "idle" /\ ~bipbuf_is_empty(heap.bump)
     /\ lru' = [pc |-> "bump", todo |-> bipbuf_peek_all(heap.bump), size |-> Len(bipbuf_peek_all(heap.bump))]
     /\ UNCHANGED <<heap, locks, conn, pull, crawl, rebal, left>>
  \/ LET it == Head(lru.todo) IN
     /\ lru.pc = "bump" /\ lru.todo # <<>> /\ MayUse(heap.chunk[it].key)
     /\ heap' = do_item_remove(do_item_update(heap, it), it)
     /\ lru' = [lru EXCEPT !.todo = Tail(@)]
     /\ UNCHANGED <<locks, conn, pull, crawl, rebal, left>>
  \/ /\ lru.pc = "bump" /\ lru.todo = <<>>
     /\ heap' = [heap EXCEPT !.bump = bipbuf_poll(@, lru.size)]
     /\ lru' = [lru EXCEPT !.pc = "idle", !.size = 0]
     /\ UNCHANGED <<locks, conn, pull, crawl, rebal, left>>

lru_maintainer_juggle ==
  \/ /\ lru.pc = "idle" /\ pull[Lru].pc = "off"
     /\ StartsPull(Lru, "HOT", FALSE, TRUE)
     /\ lru' = [lru EXCEPT !.pc = "hot"]
     /\ UNCHANGED <<heap, item_lock, slabs_lock, conn, crawl, rebal, left>>
  \/ /\ lru.pc \in {"warm", "cold"} /\ pull[Lru].pc = "off"
     /\ StartsPull(Lru, IF lru.pc = "warm" THEN "WARM" ELSE "COLD", FALSE, TRUE)
     /\ UNCHANGED <<heap, item_lock, slabs_lock, conn, lru, crawl, rebal, left>>
  \/ /\ pull[Lru].pc = "done"
     /\ lru' = [lru EXCEPT !.pc = CASE @ = "hot" /\ pull[Lru].removed = 0 -> "warm"
                                    [] @ = "cold" -> "idle"
                                    [] OTHER -> "cold"]
     /\ pull' = [pull EXCEPT ![Lru] = NoPull]
     /\ UNCHANGED <<heap, locks, conn, crawl, rebal, left>>

lru_maintainer_thread == Lru \in left.awake /\ (lru_maintainer_bumps \/ lru_maintainer_juggle \/ lru_pull_tail(Lru))

-----------------------------------------------------------------------------
(* The LRU crawler: a pseudo-item walks each list from its tail and dead   *)
(* items it passes are reclaimed.                                          *)

Crawled == {l \in LRUs : Crawler \in ToSet(heap.lru[l])}

lru_crawler_start ==
  /\ left.crawls > 0 /\ Crawler \in left.awake /\ LruFree
  /\ left' = [left EXCEPT !.crawls = @ - 1]
  /\ \E ids \in CrawlSets :
       heap' = [heap EXCEPT !.lru = [l \in LRUs |-> IF l \in ids \ Crawled THEN do_item_linktail_q(heap, l).lru[l]
                                                   ELSE @[l]]]
  /\ UNCHANGED <<locks, conn, Quiet>>

item_crawler_thread(l) ==
  LET i == PlaceOf(heap.lru[l], Crawler)
      h == do_item_crawl_q(heap, l)
      c == heap.lru[l][i - 1]
      k == heap.chunk[c].key
  IN
  /\ l \in Crawled /\ crawl.it = Null /\ lru_lock[l] = NoOne
  /\ IF i > 1 /\ (item_lock[k] = NoOne /\ heap.chunk[c].ref = 1 /\ Dead(heap, c))
     THEN /\ heap' = do_item_unlink(refcount_incr(h, c), c)
          /\ lru_lock' = [lru_lock EXCEPT ![l] = Crawler]
          /\ item_lock' = [item_lock EXCEPT ![k] = Crawler]
          /\ crawl' = [it |-> c, key |-> k, lru |-> l]
     ELSE heap' = h /\ UNCHANGED <<item_lock, lru_lock, crawl>>
  /\ UNCHANGED <<slabs_lock, conn, pull, lru, rebal, left>>

crawler_expired_eval ==
  /\ crawl.it # Null /\ slabs_lock = NoOne
  /\ heap' = do_item_remove(heap, crawl.it)
  /\ item_lock' = [item_lock EXCEPT ![crawl.key] = NoOne]
  /\ lru_lock' = [lru_lock EXCEPT ![crawl.lru] = NoOne]
  /\ crawl' = NoCrawl
  /\ UNCHANGED <<slabs_lock, conn, pull, lru, rebal, left>>

-----------------------------------------------------------------------------
(* The slab mover: empties the oldest page of the class, chunk by chunk    *)
(* and as often as it takes, and hands the page over.                      *)

slabs_reassign ==
  /\ rebal.signal = 0 /\ left.moves > 0 /\ Mover \in left.awake /\ slabs_lock = NoOne /\ Len(heap.slab_list[Cls]) >= 2
  /\ left' = [left EXCEPT !.moves = @ - 1]
  /\ \E d \in {OtherCls, SLAB_GLOBAL_PAGE_POOL} : rebal' = [NoRebal EXCEPT !.signal = 1, !.d = d]
  /\ UNCHANGED <<heap, locks, conn, pull, lru, crawl>>

slab_rebalance_start ==
  /\ rebal.signal = 1 /\ slabs_lock = NoOne
  /\ rebal' = IF Len(heap.slab_list[Cls]) < 2 THEN NoRebal
              ELSE [rebal EXCEPT !.signal = 2, !.page = Head(heap.slab_list[Cls])]
  /\ UNCHANGED <<heap, locks, conn, pull, lru, crawl, left>>

Pos == PageChunks[rebal.page][rebal.pos]

(* The bound on busy_loops.  Deleting a busy item and reclaiming a dead     *)
(* one take slabs_lock and an LRU lock in opposite orders; unless Together *)
(* says so, a behaviour has one or the other.                              *)
MostLoops == IF left.dying /\ ~Together THEN 0 ELSE BusyLoops

(* Mutant of Advance: the last chunk of the page is not counted as busy.   *)
Advance_LastBusy(busy) ==
  LET last == rebal.pos = Len(PageChunks[rebal.page])  again == rebal.busy \/ (busy /\ ~last) IN
  rebal' = [rebal EXCEPT !.pc = IF last /\ ~again THEN "done" ELSE "off",
                         !.pos = IF ~last THEN @ + 1 ELSE IF again THEN 1 ELSE @,
                         !.busy = again /\ ~last,
                         !.loops = IF last /\ again /\ @ < MostLoops THEN @ + 1 ELSE @,
                         !.it = Null, !.new = Null]

(* The next chunk; after the last one another pass if any was busy.        *)
Advance(busy) ==
  LET last == rebal.pos = Len(PageChunks[rebal.page])  again == rebal.busy \/ busy IN
  rebal' = [rebal EXCEPT !.pc = IF last /\ ~again THEN "done" ELSE "off",
                         !.pos = IF ~last THEN @ + 1 ELSE IF again THEN 1 ELSE @,
                         !.busy = again /\ ~last,
                         !.loops = IF last /\ again /\ @ < MostLoops THEN @ + 1 ELSE @,
                         !.it = Null, !.new = Null]

Moving == rebal.signal = 2 /\ rebal.pc = "off"

(* Free chunks are cut out of the free list; busy ones wait for the next   *)
(* pass.                                                                   *)
MoveChunk ==
  LET f == heap.chunk[Pos].flags IN
  /\ Moving /\ slabs_lock = NoOne
  /\ \/ /\ f = {"SLABBED", "FETCHED"}
        /\ Advance(FALSE) /\ UNCHANGED <<heap, locks>>
     \/ /\ f # {"SLABBED", "FETCHED"} /\ "SLABBED" \in f
        /\ heap' = Cut(slab_rebalance_cut_free(heap, Pos), Pos)
        /\ Advance(FALSE) /\ UNCHANGED locks
     \/ /\ f \cap {"SLABBED", "LINKED"} = {}
        /\ Advance(TRUE) /\ UNCHANGED <<heap, locks>>
     \/ /\ "LINKED" \in f
        /\ \/ item_lock[heap.chunk[Pos].key] # NoOne
           \/ heap.chunk[Pos].ref > 1 /\ rebal.loops <= SLAB_MOVE_MAX_LOOPS
        /\ Advance(TRUE) /\ UNCHANGED <<heap, locks>>
  /\ UNCHANGED <<conn, pull, lru, crawl, left>>

LocksItem == item_lock' = [item_lock EXCEPT ![heap.chunk[Pos].key] = Mover]

(* A linked item nobody else uses: a chunk to copy it to, if it is worth   *)
(* it and there is one.  slabs_lock is given up, the item's lock is not.   *)
MoveItem ==
  LET got == slab_rebalance_alloc(heap, rebal.page) IN
  /\ Moving /\ slabs_lock = NoOne
  /\ "LINKED" \in heap.chunk[Pos].flags /\ item_lock[heap.chunk[Pos].key] = NoOne /\ heap.chunk[Pos].ref = 1
  /\ IF Dead(heap, Pos)
     THEN heap' = refcount_incr(heap, Pos) /\ rebal' = [rebal EXCEPT !.pc = "rescue", !.it = Pos]
     ELSE heap' = refcount_incr(got.heap, Pos) /\ rebal' = [rebal EXCEPT !.pc = "rescue", !.it = Pos, !.new = got.it]
  /\ LocksItem
  /\ UNCHANGED <<lru_lock, slabs_lock, conn, pull, lru, crawl, left>>

(* The copy takes the item's place, or the item is dropped.                *)
Rescue ==
  LET it == rebal.it  new == rebal.new
      copied == [heap EXCEPT !.chunk[new] = [heap.chunk[it] EXCEPT !.flags = @ \ {"LINKED"}, !.ref = 0]]
  IN
  /\ rebal.pc = "rescue" /\ LruFree /\ slabs_lock = NoOne
  /\ IF new # Null
     THEN heap' = Cut(do_item_replace(copied, it, new), it) /\ Advance(FALSE)
     ELSE heap' = do_slabs_free(do_item_unlink(heap, it), it, Cls) /\ Advance(TRUE)
  /\ item_lock' = [item_lock EXCEPT ![heap.chunk[it].key] = NoOne]
  /\ UNCHANGED <<lru_lock, slabs_lock, conn, pull, lru, crawl, left>>

(* An item that stayed busy for too long is unlinked: the lock of its list *)
(* is taken with slabs_lock held.                                          *)
DeleteBusy ==
  /\ Moving /\ slabs_lock = NoOne
  /\ "LINKED" \in heap.chunk[Pos].flags /\ item_lock[heap.chunk[Pos].key] = NoOne
  /\ heap.chunk[Pos].ref > 1 /\ rebal.loops > SLAB_MOVE_MAX_LOOPS
  /\ LocksItem /\ slabs_lock' = Mover
  /\ rebal' = [rebal EXCEPT !.pc = "delete", !.it = Pos]
  /\ UNCHANGED <<heap, lru_lock, conn, pull, lru, crawl, left>>

BusyDeleted ==
  /\ rebal.pc = "delete" /\ lru_lock[heap.chunk[rebal.it].lru] = NoOne
  /\ heap' = do_item_unlink(heap, rebal.it)
  /\ item_lock' = [item_lock EXCEPT ![heap.chunk[rebal.it].key] = NoOne] /\ slabs_lock' = NoOne
  /\ Advance(TRUE)
  /\ UNCHANGED <<lru_lock, conn, pull, lru, crawl, left>>

slab_rebalance_finish ==
  /\ rebal.pc = "done" /\ slabs_lock = NoOne
  /\ heap' = LET h == [heap EXCEPT !.slab_list[Cls] = Tail(@)] IN
             IF rebal.d = SLAB_GLOBAL_PAGE_POOL THEN [h EXCEPT !.slab_list[rebal.d] = Append(@, rebal.page)]
                                                ELSE AddPage(h, rebal.page, rebal.d)
  /\ rebal' = NoRebal
  /\ UNCHANGED <<locks, conn, pull, lru, crawl, left>>

slab_rebalance_thread ==
  \/ slab_rebalance_start \/ MoveChunk \/ MoveItem \/ Rescue \/ DeleteBusy \/ BusyDeleted \/ slab_rebalance_finish

MNext ==
  \/ \E c \in Conns : Connection(c)
  \/ lru_maintainer_thread
  \/ lru_crawler_start \/ crawler_expired_eval \/ \E l \in LRUs : item_crawler_thread(l)
  \/ slabs_reassign \/ slab_rebalance_thread
  \/ Clock

MemcachedSpec == MInit /\ [][MNext]_mVars

-----------------------------------------------------------------------------
(* Properties.                                                             *)

Count(S) == Cardinality(S)
One(b) == IF b THEN 1 ELSE 0

(* Bumps the maintainer has not come to yet.                               *)
Pending == SubSeq(InOrder(heap.bump), 1 + lru.size - Len(lru.todo), Len(InOrder(heap.bump)))

Holders(it) ==
    Count({c \in Conns : conn[c].it = it}) + Count({c \in Conns : conn[c].old = it})
  + Count({c \in Conns : conn[c].new = it})
  + Count({x \in Conns \X (1..MaxGets) : x[2] <= Len(conn[x[1]].list) /\ conn[x[1]].list[x[2]].it = it})
  + Count({i \in DOMAIN Pending : Pending[i] = it})
  + Count({t \in Pullers : pull[t].it = it})
  + One(crawl.it = it) + One(rebal.pc = "rescue" /\ it \in {rebal.it, rebal.new})

Flags(it) == heap.chunk[it].flags

(* A chunk in use has exactly the references its holders have, one of them *)
(* the table's, and nobody holds a free one (refcount_incr, refcount_decr, *)
(* do_item_remove).                                                        *)
RefsExact ==
  \A it \in Chunks :
    IF "SLABBED" \in Flags(it) THEN Holders(it) = 0
    ELSE heap.chunk[it].ref = One("LINKED" \in Flags(it)) + Holders(it)

(* An item is linked if and only if the table finds it under its key, and  *)
(* it is then once on the list it says, unless lru_pull_tail is moving it. *)
Linked == {it \in Chunks : "LINKED" \in Flags(it)}
InTransit == {pull[t].it : t \in {t \in Pullers : pull[t].pc = "settle" /\ pull[t].to # Null}}
OnList(l) == SelectSeq(heap.lru[l], LAMBDA x : x # Crawler)
LinksExact ==
  /\ \A k \in Keys : ToSet(heap.chain[k]) = {it \in Linked : heap.chunk[it].key = k} /\ Len(heap.chain[k]) <= 1
  /\ \A l \in LRUs : /\ IsInjective(OnList(l))
                     /\ ToSet(OnList(l)) = {it \in Linked \ InTransit : heap.chunk[it].lru = l}

(* The free list of a class has no chunk twice, as many as sl_curr says,   *)
(* and every free chunk of its pages but those the mover cut out.          *)
FreeExact ==
  \A id \in {Cls, OtherCls} :
    /\ heap.sl_curr[id] = Len(heap.slots[id]) /\ IsInjective(heap.slots[id])
    /\ ToSet(heap.slots[id]) =
         {it \in Chunks : /\ PageOf(it) \in ToSet(heap.slab_list[id])
                          /\ "SLABBED" \in Flags(it) /\ "FETCHED" \notin Flags(it)}

(* Reference counts, table, lists and free lists agree with each other at  *)
(* every step of every thread: no chunk is leaked, freed twice or reused   *)
(* while somebody reads it.                                                *)
MemoryExact == RefsExact /\ LinksExact /\ FreeExact

(* What a get replies from does not change while it is being sent: the     *)
(* chunk is not reused, moved or written in place.                         *)
RepliesStable ==
  \A c \in Conns : \A i \in DOMAIN conn[c].list :
    LET held == conn[c].list[i] IN
      heap.chunk[held.it].key = held.key /\ heap.chunk[held.it].val = held.val

(* A page leaves its class only when none of its chunks is in use or free. *)
PageEmptied ==
  [][\A p \in ToSet(heap.slab_list[Cls]) \ ToSet(heap'.slab_list[Cls]) :
       \A it \in ToSet(PageChunks[p]) : /\ it \notin Linked /\ Holders(it) = 0
                                        /\ it \notin ToSet(heap.slots[Cls])]_mVars

(* Whenever the value the table has for a key becomes another, its cas id  *)
(* is one no client can have seen.                                         *)
ValueOf(h, k) == IF assoc_find(h, k) = Null THEN Null ELSE h.chunk[assoc_find(h, k)].val
CasIsNew ==
  [][\A k \in Keys : /\ assoc_find(heap', k) # Null
                     /\ assoc_find(heap, k) = Null \/ ValueOf(heap', k) # ValueOf(heap, k)
                     => heap'.chunk[assoc_find(heap', k)].cas > heap.cas_id]_mVars

(* No thread holds slabs_lock and waits for the lock of a list whose       *)
(* holder waits for slabs_lock (slab_rebalance_move, lru_pull_tail).       *)
NoCircularWait ==
  ~ /\ rebal.pc = "delete"
    /\ \E t \in Pullers : pull[t].pc = "reclaim" /\ pull[t].lru = heap.chunk[rebal.it].lru
=============================================================================
