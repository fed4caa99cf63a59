------------------------------- MODULE Items -------------------------------
(***************************************************************************)
(* memcached's memory: slab pages cut into chunks, the free list of each   *)
(* class, the items in the hash table and on the LRU lists, and the        *)
(* functions that move a chunk between them.  Each is an operator from     *)
(* heap to heap; Memcached says which locks are held around it.            *)
(***************************************************************************)
EXTENDS Integers, SequencesExt, BipBuffer

CONSTANTS Keys,
          PageChunks,          \* page -> its chunks, in address order
          PmemPages,           \* the pages that lie in the pslab pool
          FirstPages,          \* the pages the item class has when the threads start
          FreshPages,          \* the pages malloc can still give below the memory limit
          PmemPool,            \* the pages of the pslab pool no class uses
          LRU_BUMP_BUF_SIZE

LRUs == {"HOT", "WARM", "COLD"}
Null == "null"
Crawler == "crawler"       \* the crawler's pseudo-item on a list

Cls == 1                   \* the slab class of the items
OtherCls == 2              \* a class pages are moved to
SLAB_GLOBAL_PAGE_POOL == 0
SLAB_GLOBAL_PAGE_POOL_PMEM == -1

Pages == DOMAIN PageChunks
Chunks == UNION {ToSet(PageChunks[p]) : p \in Pages}
PageOf(c) == CHOOSE p \in Pages : c \in ToSet(PageChunks[p])
pslab_contains(c) == PageOf(c) \in PmemPages

(* A chunk nobody uses; what is left of its last item is not told apart.   *)
FreeChunk(c) ==
  [flags |-> {"SLABBED"} \cup (IF pslab_contains(c) THEN {"PSLAB"} ELSE {}), ref |-> 0,
   key |-> Null, val |-> <<>>, len |-> 0, lru |-> Null, cas |-> 0, expires |-> "never"]

-----------------------------------------------------------------------------
(* slabs.c: free lists and pages.                                          *)

do_slabs_free(h, c, id) ==
  [h EXCEPT !.chunk[c] = FreeChunk(c), !.slots[id] = <<c>> \o @, !.sl_curr[id] = @ + 1]

split_slab_page_into_freelist(h, p, id) ==
  [h EXCEPT !.chunk = [c \in DOMAIN @ |-> IF PageOf(c) = p THEN FreeChunk(c) ELSE @[c]],
            !.slots[id] = Reverse(PageChunks[p]) \o @,
            !.sl_curr[id] = @ + Len(PageChunks[p])]

AddPage(h, p, id) ==
  split_slab_page_into_freelist([h EXCEPT !.slab_list[id] = Append(@, p)], p, id)

get_page_from_global_pool_by_id(h, pool) == [h EXCEPT !.slab_list[pool] = Front(@)]

(* From the pool of released pages, else from malloc, else (the policy     *)
(* being DRAM first) from the pslab pool.                                  *)
do_slabs_newslab(h, id) ==
  LET dram == h.slab_list[SLAB_GLOBAL_PAGE_POOL]
      pmem == h.slab_list[SLAB_GLOBAL_PAGE_POOL_PMEM]
  IN  IF dram # <<>> THEN AddPage(get_page_from_global_pool_by_id(h, SLAB_GLOBAL_PAGE_POOL), Last(dram), id)
      ELSE IF h.fresh # <<>> THEN AddPage([h EXCEPT !.fresh = Tail(@)], Head(h.fresh), id)
      ELSE IF pmem # <<>> THEN AddPage(get_page_from_global_pool_by_id(h, SLAB_GLOBAL_PAGE_POOL_PMEM), Last(pmem), id)
      ELSE h

TakeSlot(h, id) ==
  IF h.sl_curr[id] = 0 THEN [heap |-> h, it |-> Null]
  ELSE [heap |-> [h EXCEPT !.chunk[Head(h.slots[id])].flags = @ \ {"SLABBED"},
                           !.chunk[Head(h.slots[id])].ref = 1,
                           !.slots[id] = Tail(@), !.sl_curr[id] = @ - 1],
        it |-> Head(h.slots[id])]

do_slabs_alloc(h, id, newpage) ==
  TakeSlot(IF h.sl_curr[id] = 0 /\ newpage THEN do_slabs_newslab(h, id) ELSE h, id)

(* What the mover leaves of a chunk it is done with.                       *)
Cut(h, c) == [h EXCEPT !.chunk[c] = [FreeChunk(c) EXCEPT !.flags =
                {"SLABBED", "FETCHED"} \cup (h.chunk[c].flags \cap {"PSLAB"})]]

slab_rebalance_cut_free(h, c) ==
  [h EXCEPT !.slots[Cls] = SelectSeq(@, LAMBDA x : x # c), !.sl_curr[Cls] = @ - 1]

(* A chunk outside the page being moved; those inside it that come up on   *)
(* the way are taken out of circulation.                                   *)
Skipped(h, page) ==
  LET free == h.slots[Cls]
  IN  {i \in 1..Len(PageChunks[page]) : i <= Len(free) /\ \A j \in 1..i : PageOf(free[j]) = page}

slab_rebalance_alloc(h, page) ==
  LET out == ToSet(SubSeq(h.slots[Cls], 1, Cardinality(Skipped(h, page))))
      left == [h EXCEPT !.slots[Cls] = SelectSeq(@, LAMBDA c : c \notin out),
                        !.sl_curr[Cls] = @ - Cardinality(out),
                        !.chunk = [c \in DOMAIN @ |-> IF c \in out THEN Cut(h, c).chunk[c] ELSE @[c]]]
  IN  IF Cardinality(out) = Len(PageChunks[page]) THEN [heap |-> left, it |-> Null]
      ELSE do_slabs_alloc(left, Cls, FALSE)

-----------------------------------------------------------------------------
(* items.c: reference counts, the table and the lists.                     *)

refcount_incr(h, c) == [h EXCEPT !.chunk[c].ref = @ + 1]
refcount_decr(h, c) == [h EXCEPT !.chunk[c].ref = @ - 1]

do_item_remove(h, c) ==
  IF h.chunk[c].ref = 1 THEN do_slabs_free(h, c, Cls) ELSE refcount_decr(h, c)

do_item_link_q(h, c) == [h EXCEPT !.lru[h.chunk[c].lru] = <<c>> \o @]
do_item_unlink_q(h, c) == [h EXCEPT !.lru[h.chunk[c].lru] = SelectSeq(@, LAMBDA x : x # c)]

assoc_find(h, k) == IF h.chain[k] = <<>> THEN Null ELSE Head(h.chain[k])

(* Mutant of do_item_link: the item keeps the cas id it has.               *)
do_item_link_SameCas(h, c) ==
  do_item_link_q([h EXCEPT !.cas_id = @ + 1,
                           !.chunk[c] = [@ EXCEPT !.flags = @ \cup {"LINKED"}, !.ref = @ + 1],
                           !.chain[h.chunk[c].key] = <<c>> \o @], c)

(* A fresh cas id on every link.                                           *)
do_item_link(h, c) ==
  do_item_link_q([h EXCEPT !.cas_id = @ + 1,
                           !.chunk[c] = [@ EXCEPT !.flags = @ \cup {"LINKED"}, !.cas = h.cas_id + 1,
                                                  !.ref = @ + 1],
                           !.chain[h.chunk[c].key] = <<c>> \o @], c)

(* The table forgets the first item with the key.                          *)
do_item_unlink(h, c) ==
  IF "LINKED" \notin h.chunk[c].flags THEN h
  ELSE do_item_remove(
         do_item_unlink_q([h EXCEPT !.chunk[c].flags = @ \ {"LINKED"},
                                    !.chain[h.chunk[c].key] = IF @ = <<>> THEN @ ELSE Tail(@)], c), c)

do_item_replace(h, c, new) == do_item_link(do_item_unlink(h, c), new)

(* A store over an item the caller has looked up.                          *)
Replaced(h, c, old) == do_item_remove(do_item_replace(refcount_incr(h, old), old, c), old)

do_item_update(h, c) ==
  IF "LINKED" \notin h.chunk[c].flags THEN h
  ELSE do_item_link_q([do_item_unlink_q(h, c) EXCEPT
         !.chunk[c] = [@ EXCEPT !.lru = "WARM", !.flags = @ \ {"ACTIVE"}]], c)

(* Mutant of lru_bump_async: the bump takes no reference.                  *)
lru_bump_async_NoRef(h, c) ==
  IF bipbuf_request(h.bump, 1)
  THEN [h EXCEPT !.bump = bipbuf_offer(h.bump, <<c>>)]
  ELSE [h EXCEPT !.chunk[c].flags = @ \ {"ACTIVE"}]

(* The bump holds a reference of its own; a full buffer drops it.          *)
lru_bump_async(h, c) ==
  IF bipbuf_request(h.bump, 1)
  THEN [refcount_incr(h, c) EXCEPT !.bump = bipbuf_offer(h.bump, <<c>>)]
  ELSE [h EXCEPT !.chunk[c].flags = @ \ {"ACTIVE"}]

(* The first fetch marks the item, the second makes it active and moves it *)
(* up, at once or, from COLD, by way of the bump buffer.                   *)
Bumped(h, c) ==
  LET f == h.chunk[c].flags
      active == [h EXCEPT !.chunk[c].flags = @ \cup {"ACTIVE"}]
  IN  CASE "ACTIVE" \in f -> h
        [] "ACTIVE" \notin f /\ "FETCHED" \notin f -> [h EXCEPT !.chunk[c].flags = @ \cup {"FETCHED"}]
        [] OTHER -> IF h.chunk[c].lru # "COLD" THEN do_item_update(active, c)
                                               ELSE lru_bump_async(active, c)

do_item_get(h, k, do_update) ==
  LET c == assoc_find(h, k)
  IN  IF c = Null THEN h
      ELSE IF do_update THEN Bumped(refcount_incr(h, c), c) ELSE refcount_incr(h, c)

do_item_touch(h, k, expires) ==
  LET c == assoc_find(h, k)
  IN  IF c = Null THEN h ELSE [do_item_get(h, k, TRUE) EXCEPT !.chunk[c].expires = expires]

(* The header a new item gets: the flags are overwritten, the mark of the  *)
(* pslab pool with them.                                                   *)
NewItem(h, c, k, v, len, expires) ==
  [h EXCEPT !.chunk[c] = [@ EXCEPT !.flags = {}, !.key = k, !.val = v, !.len = len,
                                   !.lru = "HOT", !.expires = expires, !.cas = 0]]

item_is_flushed(h, c) == h.oldest_cas # 0 /\ h.chunk[c].cas # 0 /\ h.chunk[c].cas < h.oldest_cas

Dead(h, c) == h.chunk[c].expires = "past" \/ item_is_flushed(h, c)

do_item_linktail_q(h, l) == [h EXCEPT !.lru[l] = Append(@, Crawler)]

PlaceOf(s, c) == CHOOSE i \in DOMAIN s : s[i] = c

(* search->prev, one nearer to the head of the list.                       *)
PrevOf(s, c) == IF PlaceOf(s, c) = 1 THEN Null ELSE s[PlaceOf(s, c) - 1]

(* The pseudo-item passes the one before it and the crawler looks at that. *)
do_item_crawl_q(h, l) ==
  LET i == PlaceOf(h.lru[l], Crawler)
  IN  IF i = 1 THEN [h EXCEPT !.lru[l] = Tail(@)]
      ELSE [h EXCEPT !.lru[l] = [@ EXCEPT ![i] = h.lru[l][i - 1], ![i - 1] = Crawler]]

(* The memory when the threads start: the keys of the sequence have been   *)
(* stored in turn, and none was fetched since.                             *)
RECURSIVE Stored(_, _)
Stored(h, ks) ==
  IF ks = <<>> THEN h
  ELSE LET got == do_slabs_alloc(h, Cls, TRUE)
           it == got.it
           old == assoc_find(h, Head(ks))
           new == NewItem(got.heap, it, Head(ks), <<0>>, 1, "never")
       IN  Stored(do_item_remove(IF old = Null THEN do_item_link(new, it) ELSE Replaced(new, it, old), it),
                  Tail(ks))

RECURSIVE WithPages(_, _)
WithPages(h, ps) == IF ps = <<>> THEN h ELSE WithPages(AddPage(h, Head(ps), Cls), Tail(ps))

EmptyHeap ==
  [chunk |-> [c \in Chunks |-> FreeChunk(c)],
   chain |-> [k \in Keys |-> <<>>],
   lru |-> [l \in LRUs |-> <<>>],
   slots |-> [id \in {Cls, OtherCls} |-> <<>>],
   sl_curr |-> [id \in {Cls, OtherCls} |-> 0],
   slab_list |-> [id \in {Cls, OtherCls, SLAB_GLOBAL_PAGE_POOL, SLAB_GLOBAL_PAGE_POOL_PMEM} |->
                    IF id = SLAB_GLOBAL_PAGE_POOL_PMEM THEN PmemPool ELSE <<>>],
   fresh |-> FreshPages,
   bump |-> bipbuf_new(LRU_BUMP_BUF_SIZE),
   cas_id |-> 0, oldest_cas |-> 0]

Loaded(ks) == Stored(WithPages(EmptyHeap, FirstPages), ks)
=============================================================================
