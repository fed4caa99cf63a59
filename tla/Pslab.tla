------------------------------- MODULE Pslab -------------------------------
(***************************************************************************)
(* memcached's slab pool in persistent memory (pslab.c): its header with   *)
(* two slots for the time of the last flush_all, its frames, and recovery  *)
(* after a crash.  mem is what the program reads, dur what is on the       *)
(* medium; the cache may write any field back at any time.                 *)
(***************************************************************************)
EXTENDS Integers, Sequences, Functions

CONSTANTS FrameCount, Classes, SizeOf,   \* class -> its chunk size
          slab_page_size,                \* in units of the smallest chunk
          MaxTime, Budgets    \* crashes, stores and flushes allowed, with one another

(* What the server is configured with: a frame at least, and a class has a *)
(* number other than 0 and a chunk size.                                   *)
Configured ==
  /\ FrameCount \in Nat \ {0} /\ slab_page_size \in Nat
  /\ Classes \subseteq Nat \ {0} /\ SizeOf \in [Classes -> Nat \ {0}]

ASSUME PoolAssumption == Configured

VARIABLES mem, dur,
          pool,        \* [pc, at]: where starting up has come to
          owned,       \* class -> its pages (slabclass[].slab_list)
          free,        \* the global page pool of the pslab
          slots,       \* free chunks
          linked,      \* chunks linked in the hash table
          setup,       \* do_slabs_newslab_from_pmem, under slabs_lock
          flush,       \* pslab_update_flushtime
          clock,
          left         \* of the budget

pVars == <<mem, dur, pool, owned, free, slots, linked, setup, flush, clock, left>>

Frames == 1..FrameCount
Cells == Frames \X (0..slab_page_size - 1)
Fields == {<<"body">>, <<"valid">>} \cup {"checksum", "flush_time"} \X {1, 2}
            \cup {"id", "size"} \X Frames \cup {<<"item", c[1], c[2]>> : c \in Cells}
Item(c) == <<"item", c[1], c[2]>>

(* A chunk without an item; the marks only items have are left out.        *)
NoItem == [flags |-> {"PSLAB"}, time |-> 0]
(* The sum over the header is told apart for every body and flush time.    *)
Checksum(body, time) == <<body, time>>
Body == 1                    \* signature, version, sizes, process_started

Zeroed == [x \in Fields |-> CASE x[1] = "item" -> NoItem [] x[1] = "checksum" -> Checksum(0, 0) [] OTHER -> 0]

Store(x, v) == mem' = [mem EXCEPT ![x] = v]
Persist(xs) == dur' = [x \in Fields |-> IF x \in xs THEN mem[x] ELSE dur[x]]
StorePersist(x, v) == mem' = [mem EXCEPT ![x] = v] /\ dur' = [dur EXCEPT ![x] = v]

NoFlush == [pc |-> "idle", slot |-> 0, time |-> 0, done |-> 0]
NoSetup == [pc |-> "idle", frame |-> 0, class |-> 0]
NoPages == [k \in Classes |-> {}]

PInit ==
  /\ mem = Zeroed /\ dur = Zeroed
  /\ pool = [pc |-> "none", at |-> 0, created |-> FALSE]
  /\ owned = NoPages /\ free = <<>> /\ slots = {} /\ linked = {}
  /\ setup = NoSetup /\ flush = NoFlush
  /\ clock = 2 /\ left \in Budgets

volatile == <<owned, free, slots, linked, setup, flush>>
At(pc) == pool.pc = pc
GoOn(pc) == pool' = [pool EXCEPT !.pc = pc, !.at = 1]

-----------------------------------------------------------------------------
(* pslab_create; the walk over the frames, then the header, then valid.    *)

CreateHeader ==
  /\ At("none")
  /\ mem' = [Zeroed EXCEPT ![<<"body">>] = Body, ![<<"checksum", 1>>] = Checksum(Body, 0)]
  /\ GoOn("header") /\ UNCHANGED <<dur, volatile, clock, left>>

CreatePersist ==
  At("header") /\ Persist(Fields) /\ GoOn("valid") /\ UNCHANGED <<mem, volatile, clock, left>>

CreateValid ==
  /\ At("valid") /\ StorePersist(<<"valid">>, 1)
  /\ pool' = [pool EXCEPT !.pc = "prefill", !.at = 1, !.created = TRUE]
  /\ UNCHANGED <<volatile, clock, left>>

-----------------------------------------------------------------------------
(* Recovery: the header is checked, items flushed are unlinked, frames     *)
(* with items go back to their classes.                                    *)

pslab_checksum_check(m, i) == m[<<"checksum", i>>] = Checksum(m[<<"body">>], m[<<"flush_time", i>>])

(* A valid of 0 reads the bytes before the arrays, which do not add up.    *)
Accepted(m) ==
  m[<<"body">>] = Body /\ m[<<"valid">>] \in {1, 2} /\ pslab_checksum_check(m, m[<<"valid">>])

FlushTime(m) == m[<<"flush_time", m[<<"valid">>]>>]

pslab_pre_recover ==
  /\ At("crashed")
  /\ GoOn(IF Accepted(mem) THEN "walk" ELSE "refused")
  /\ flush' = IF Accepted(mem) THEN [NoFlush EXCEPT !.done = FlushTime(mem)] ELSE NoFlush
  /\ UNCHANGED <<mem, dur, owned, free, slots, linked, setup, clock, left>>

Linked(m, f) == {c \in Cells : c[1] = f /\ "LINKED" \in m[Item(c)].flags}
ChunksOf(m, f) == {c \in Cells : c[1] = f /\ c[2] % m[<<"size", f>>] = 0}

(* oldest_cas is 0 after a restart.                                        *)
item_is_flushed(it) == flush.done # 0 /\ flush.done <= clock /\ it.time <= flush.done

NextFrame(pc) == pool' = IF pool.at = FrameCount THEN [pool EXCEPT !.pc = pc, !.at = 1]
                                                 ELSE [pool EXCEPT !.at = @ + 1]

RecoverFrame ==
  LET f == pool.at
      gone == IF mem[<<"id", f>>] = 0 THEN {}
              ELSE {Item(c) : c \in {c \in ChunksOf(mem, f) \cap Linked(mem, f) : item_is_flushed(mem[Item(c)])}}
      cleared(m) == [x \in Fields |-> IF x \in gone THEN NoItem ELSE m[x]]
  IN  /\ At("walk") /\ NextFrame("renew")
      /\ mem' = cleared(mem) /\ dur' = cleared(dur)
      /\ UNCHANGED <<volatile, clock, left>>

RenewFrame ==
  LET f == pool.at
      kept == ChunksOf(mem, f) \cap Linked(mem, f)
  IN  /\ At("renew") /\ NextFrame("prefill")
      /\ IF mem[<<"id", f>>] = 0 \/ kept = {}
         THEN UNCHANGED <<owned, slots, linked>>
         ELSE /\ owned' = [owned EXCEPT ![mem[<<"id", f>>]] = @ \cup {f}]
              /\ linked' = linked \cup kept
              /\ slots' = slots \cup (ChunksOf(mem, f) \ kept)
      /\ UNCHANGED <<mem, dur, free, setup, flush, clock, left>>

(* Mutant of Offered: only a frame no class has had.                       *)
Offered_NeverUsed(m, f) == m[<<"id", f>>] = 0

(* pslab_get_free_slab: a frame no class uses or one without a linked item. *)
Offered(m, f) == m[<<"id", f>>] = 0 \/ Linked(m, f) = {}

(* It is called until there is none, and walks the frames in order.        *)
slabs_prefill_global_from_pmem ==
  /\ At("prefill") /\ NextFrame("run")
  /\ free' = IF Offered(mem, pool.at) THEN Append(free, pool.at) ELSE free
  /\ UNCHANGED <<mem, dur, owned, slots, linked, setup, flush, clock, left>>

-----------------------------------------------------------------------------
(* The server runs.  A page is set up under slabs_lock.                    *)

Running == At("run")
server == <<pool, clock, left>>
Set(pc) == setup' = [setup EXCEPT !.pc = pc]

(* The last page of the pool; zeros, drained.                              *)
TakePage(k) ==
  /\ Running /\ setup.pc = "idle" /\ free # <<>>
  /\ setup' = [pc |-> "split", frame |-> free[Len(free)], class |-> k]
  /\ free' = SubSeq(free, 1, Len(free) - 1)
  /\ LET zero(m) == [x \in Fields |-> IF x \in {Item(c) : c \in {c \in Cells : c[1] = free[Len(free)]}}
                                      THEN NoItem ELSE m[x]]
     IN  mem' = zero(mem) /\ dur' = zero(dur)
  /\ UNCHANGED <<owned, slots, linked, flush, server>>

NewChunks == {c \in Cells : c[1] = setup.frame /\ c[2] % SizeOf[setup.class] = 0}

SplitPage ==
  /\ setup.pc = "split" /\ Set("size")
  /\ slots' = slots \cup NewChunks
  /\ owned' = [owned EXCEPT ![setup.class] = @ \cup {setup.frame}]
  /\ UNCHANGED <<mem, dur, free, linked, flush, server>>

(* The two fields pslab_use_slab makes durable, in order.                  *)
(* Mutant of use_order: the id first.                                      *)
use_order_IdFirst == <<"id", "size">>

use_order == <<"size", "id">>

UseValue(field) == IF field = "id" THEN setup.class ELSE SizeOf[setup.class]

pslab_use_slab ==
  \/ /\ setup.pc = "size" /\ Set("id")
     /\ StorePersist(<<use_order[1], setup.frame>>, UseValue(use_order[1]))
     /\ UNCHANGED <<owned, free, slots, linked, flush, server>>
  \/ /\ setup.pc = "id" /\ setup' = NoSetup
     /\ StorePersist(<<use_order[2], setup.frame>>, UseValue(use_order[2]))
     /\ UNCHANGED <<owned, free, slots, linked, flush, server>>

(* do_item_alloc overwrites the flags, the mark PSLAB included, so that    *)
(* do_item_link finds nothing to persist.                                  *)
NewFlags(old) == {"CAS"}

do_item_link(c) ==
  /\ Running /\ setup.pc = "idle" /\ c \in slots /\ left.stores > 0
  /\ left' = [left EXCEPT !.stores = @ - 1]
  /\ slots' = slots \ {c} /\ linked' = linked \cup {c}
  /\ LET flags == NewFlags(mem[Item(c)].flags)
         it == [flags |-> flags \cup {"LINKED"}, time |-> clock]
     IN  IF "PSLAB" \in flags THEN StorePersist(Item(c), it)
                              ELSE Store(Item(c), it) /\ UNCHANGED dur
  /\ UNCHANGED <<owned, free, setup, flush, pool, clock>>

do_item_unlink(c) ==
  /\ Running /\ setup.pc = "idle" /\ c \in linked
  /\ linked' = linked \ {c} /\ slots' = slots \cup {c}
  /\ IF "PSLAB" \in mem[Item(c)].flags THEN StorePersist(Item(c), NoItem)
                                        ELSE Store(Item(c), NoItem) /\ UNCHANGED dur
  /\ UNCHANGED <<owned, free, setup, flush, server>>

(* flush_all; the slot not in use is written and drained before valid      *)
(* turns to it.                                                            *)
Step(pc) == flush' = [flush EXCEPT !.pc = pc]

FlushStart ==
  /\ Running /\ flush.pc = "idle" /\ left.flushes > 0
  /\ left' = [left EXCEPT !.flushes = @ - 1]
  /\ flush' = [flush EXCEPT !.pc = "time", !.slot = 3 - mem[<<"valid">>], !.time = clock - 1]
  /\ UNCHANGED <<mem, dur, owned, free, slots, linked, setup, pool, clock>>

flushRest == <<owned, free, slots, linked, setup, server>>

FlushWrite ==
  /\ flush.pc = "time" /\ Step("persist")
  /\ mem' = [mem EXCEPT ![<<"flush_time", flush.slot>>] = flush.time,
                        ![<<"checksum", flush.slot>>] = Checksum(Body, flush.time)]
  /\ UNCHANGED <<dur, flushRest>>

Drained == {"checksum", "flush_time"} \X {1, 2}

FlushPersist ==
  flush.pc = "persist" /\ Step("valid") /\ Persist(Drained) /\ UNCHANGED <<mem, flushRest>>

FlushValid ==
  /\ flush.pc = "valid" /\ flush' = [NoFlush EXCEPT !.done = flush.time]
  /\ StorePersist(<<"valid">>, flush.slot)
  /\ UNCHANGED flushRest

pslab_update_flushtime == FlushStart \/ FlushWrite \/ FlushPersist \/ FlushValid

Tick == Running /\ clock < MaxTime /\ clock' = clock + 1 /\ UNCHANGED <<mem, dur, volatile, pool, left>>

(* The cache writes a line back.                                           *)
Evict(x) ==
  mem[x] # dur[x] /\ dur' = [dur EXCEPT ![x] = mem[x]] /\ UNCHANGED <<mem, volatile, server>>

Crash ==
  /\ pool.pc \notin {"none", "crashed", "refused"} /\ left.crashes > 0
  /\ left' = [left EXCEPT !.crashes = @ - 1] /\ GoOn("crashed") /\ mem' = dur
  /\ owned' = NoPages /\ free' = <<>> /\ slots' = {} /\ linked' = {}
  /\ setup' = NoSetup /\ flush' = NoFlush
  /\ UNCHANGED <<dur, clock>>

PNext ==
  \/ CreateHeader \/ CreatePersist \/ CreateValid
  \/ pslab_pre_recover \/ RecoverFrame \/ RenewFrame \/ slabs_prefill_global_from_pmem
  \/ (\E k \in Classes : TakePage(k)) \/ SplitPage \/ pslab_use_slab
  \/ (\E c \in Cells : do_item_link(c) \/ do_item_unlink(c))
  \/ pslab_update_flushtime \/ Tick
  \/ (\E x \in Fields : Evict(x)) \/ Crash

PSpec == PInit /\ [][PNext]_pVars

-----------------------------------------------------------------------------
(* Properties.                                                             *)

(* Once pslab_create has returned, the header a crash leaves is accepted,  *)
(* with the time of the last flush_all or of the one in progress.          *)
PoolRecovers ==
  pool.created => /\ Accepted(dur)
                  /\ Running => FlushTime(dur) \in {flush.done} \cup (IF flush.pc = "idle" THEN {} ELSE {flush.time})

(* Recovery can walk every frame a crash leaves: one with an id has a      *)
(* size, and every linked item lies on a chunk of that size.               *)
FramesReadable ==
  \A f \in Frames :
    /\ dur[<<"id", f>>] # 0 => dur[<<"size", f>>] # 0
    /\ Linked(dur, f) # {} => dur[<<"id", f>>] # 0 /\ Linked(dur, f) \subseteq ChunksOf(dur, f)

(* What a crash at any moment leaves can be recovered.                     *)
CrashReadable == PoolRecovers /\ FramesReadable

(* The pages of the pool, with the one taken from it to be split.          *)
PagePool == Range(free) \cup (IF setup.pc = "split" THEN {setup.frame} ELSE {})

(* Whatever crashes came before, a running server has every frame once, in *)
(* one class or in the pool, and every chunk of a class once, in the table *)
(* or free.                                                                *)
RecoveryExact ==
  Running =>
    /\ IsInjective(free)
    /\ \A f \in Frames :
         \/ f \in PagePool /\ \A k \in Classes : f \notin owned[k]
         \/ f \notin PagePool /\ \E k \in Classes : \A j \in Classes : f \in owned[j] <=> j = k
    /\ slots \cap linked = {}
    /\ slots \cup linked = UNION {{c \in Cells : c[1] \in owned[k] /\ c[2] % SizeOf[k] = 0} : k \in Classes}
    /\ linked = UNION {Linked(mem, f) : f \in Frames}

(* An item whose store was answered is on the medium: README.pmem.rst says *)
(* the data in persistent memory is recovered after a crash.               *)
StoredSurvives == Running => \A c \in linked : "LINKED" \in dur[Item(c)].flags
-----------------------------------------------------------------------------
(* The inductive invariant of the proofs (PslabProofs).                    *)

Creating == {"none", "header", "valid"}
Starting == {"walk", "renew", "prefill"}

HasItem(m, c) == "LINKED" \in m[Item(c)].flags

IsMemory(m) ==
  /\ DOMAIN m = Fields
  /\ m[<<"valid">>] \in 0..2
  /\ \A i \in {1, 2} : m[<<"flush_time", i>>] \in Nat
  /\ \A f \in Frames : m[<<"id", f>>] \in Classes \cup {0} /\ m[<<"size", f>>] \in Nat

PTypeOK ==
  /\ IsMemory(mem) /\ IsMemory(dur)
  /\ pool \in [pc : Creating \cup Starting \cup {"crashed", "refused", "run"}, at : Nat, created : BOOLEAN]
  /\ pool.pc \in Starting => pool.at \in Frames
  /\ owned \in [Classes -> SUBSET Frames]
  /\ free \in Seq(Frames)
  /\ slots \in SUBSET Cells /\ linked \in SUBSET Cells
  /\ setup \in [pc : {"idle", "split", "size", "id"}, frame : Frames \cup {0}, class : Classes \cup {0}]
  /\ setup.pc # "idle" => setup.frame \in Frames /\ setup.class \in Classes
  /\ flush \in [pc : {"idle", "time", "persist", "valid"}, slot : 0..2, time : Nat, done : Nat]
  /\ clock \in Nat \ {0}

(* A slot of the header that adds up, with a time.                         *)
Holds(m, i, time) == m[<<"flush_time", i>>] = time /\ m[<<"checksum", i>>] = Checksum(Body, time)

(* The slot in use adds up on the medium as in memory, and the one a       *)
(* flush_all writes is complete before valid turns to it.                  *)
HeaderInv ==
  /\ pool.pc \in Creating \cup {"refused"} => ~pool.created
  /\ pool.pc \in Starting \cup {"run"} => pool.created
  /\ ~pool.created => mem[<<"valid">>] = 0 /\ dur[<<"valid">>] = 0
  /\ pool.pc \in {"header", "valid"} => mem[<<"body">>] = Body /\ Holds(mem, 1, 0)
  /\ pool.pc \in Creating => flush.done = 0
  /\ pool.created => /\ Accepted(mem) /\ Accepted(dur)
                     /\ mem[<<"valid">>] = dur[<<"valid">>] /\ FlushTime(mem) = FlushTime(dur)
  /\ pool.pc \in Starting \cup {"run"} => FlushTime(mem) = flush.done
  /\ flush.pc # "idle" => pool.pc = "run" /\ flush.slot = 3 - mem[<<"valid">>]
  /\ flush.pc \in {"persist", "valid"} => Holds(mem, flush.slot, flush.time)
  /\ flush.pc = "valid" => Holds(dur, flush.slot, flush.time)

(* A linked item, in memory or on the medium, lies on a chunk of the class *)
(* its frame is marked with; the marks are on the medium.                  *)
FrameInv ==
  /\ \A f \in Frames : /\ mem[<<"id", f>>] = dur[<<"id", f>>] /\ mem[<<"size", f>>] = dur[<<"size", f>>]
                       /\ mem[<<"id", f>>] # 0 => mem[<<"size", f>>] # 0
  /\ \A c \in Cells : HasItem(mem, c) \/ HasItem(dur, c) =>
       \E k \in Classes : /\ mem[<<"id", c[1]>>] = k /\ mem[<<"size", c[1]>>] = SizeOf[k]
                         /\ c[2] % SizeOf[k] = 0

Settled == \A x \in Fields : mem[x] = dur[x]

(* While the server starts, the medium is what it reads; it has nothing    *)
(* before it renews the frames, and the pages it offers are those walked   *)
(* over without an item.                                                   *)
StartInv ==
  /\ pool.pc = "none" => mem = Zeroed /\ dur = Zeroed
  /\ pool.pc \in Creating => \A c \in Cells : ~HasItem(mem, c) /\ ~HasItem(dur, c)
  /\ pool.pc \in Starting \cup {"valid", "crashed", "refused"} => Settled
  /\ pool.pc \notin Starting \cup {"run"} \/ pool.pc = "walk" => owned = NoPages /\ slots = {} /\ linked = {}
  /\ pool.pc \notin {"prefill", "run"} => free = <<>>
  /\ pool.pc = "prefill" => /\ IsInjective(free)
                            /\ \A f \in Frames : f \in Range(free) <=> f < pool.at /\ Offered(mem, f)
  /\ pool.pc # "run" => setup.pc = "idle"

Renewed(f) == pool.pc = "renew" => f < pool.at
Owned(f) == \E k \in Classes : f \in owned[k]

(* A renewed frame has an owner if it holds an item, and an owner's frame  *)
(* is marked with its class, but for the one being set up.                 *)
OwnerInv ==
  pool.pc \in {"renew", "prefill", "run"} =>
    /\ \A f \in Frames, k \in Classes : f \in owned[k] =>
         /\ Renewed(f)
         /\ \A j \in Classes : f \in owned[j] => j = k
         /\ \/ mem[<<"id", f>>] = k /\ mem[<<"size", f>>] = SizeOf[k]
            \/ setup.pc \in {"size", "id"} /\ setup.frame = f /\ setup.class = k
         /\ pool.pc # "run" => Linked(mem, f) # {}
    /\ slots \cap linked = {}
    /\ \A c \in Cells : c \in slots \cup linked <=> \E k \in Classes : c[1] \in owned[k] /\ c[2] % SizeOf[k] = 0
    /\ \A c \in Cells : c \in linked <=> Renewed(c[1]) /\ HasItem(mem, c)
    /\ \A c \in Cells : Renewed(c[1]) /\ (HasItem(mem, c) \/ HasItem(dur, c)) => Owned(c[1])

(* A frame is offered, set up or owned, and one being set up has no item.  *)
PageInv ==
  /\ pool.pc = "run" =>
       /\ IsInjective(free)
       /\ \A f \in Range(free) : ~Owned(f)
       /\ \A f \in Frames : Owned(f) \/ f \in Range(free) \/ (setup.pc = "split" /\ setup.frame = f)
       /\ setup.pc = "split" => setup.frame \notin Range(free) /\ ~Owned(setup.frame)
  /\ setup.pc # "idle" => \A c \in Cells : c[1] = setup.frame => ~HasItem(mem, c) /\ ~HasItem(dur, c)
  /\ setup.pc \in {"size", "id"} => setup.frame \in owned[setup.class]
  /\ setup.pc = "id" => mem[<<"size", setup.frame>>] = SizeOf[setup.class]

PoolInv == PTypeOK /\ HeaderInv /\ FrameInv /\ StartInv /\ OwnerInv /\ PageInv
=============================================================================
