------------------------------- MODULE PmemTx -------------------------------
(***************************************************************************)
(* A libpmemobj transaction over a pool of words, as transaction.hpp and   *)
(* the snapshotting types of libpmemobj++ (p<>, persistent_ptr, array) use *)
(* it.  The pool holds the words of two root objects and a few heap        *)
(* blocks; mem is what the program reads, dur what is on the medium.  A    *)
(* running operation is a sequence of calls, todo; the head is either one  *)
(* of the primitives below or a call of a container function, which its    *)
(* module replaces by the calls of that function's body.  The undo log,    *)
(* the allocator and the recovery of the pool are libpmemobj's, external   *)
(* to the repository, and are modelled from the guarantees its callers     *)
(* rely on.                                                                *)
(***************************************************************************)
EXTENDS Integers, Sequences, FiniteSets, SequencesExt

CONSTANTS Objects,    \* base addresses of the two root objects
          Words,      \* words of a root object
          Blocks,     \* base addresses of the heap blocks
          BlockWords  \* words of the largest block

VARIABLES mem,        \* address -> word, as the program reads it
          dur,        \* address -> word, as the medium holds it
          log,        \* the undo log: snapshotted address -> old word
          size,       \* block -> its words, 0 when it is free
          fresh,      \* blocks allocated by the running transaction
          freed,      \* blocks the running transaction frees at its commit
          todo,       \* the calls left of the running operation
          stage       \* pmemobj_tx_stage()

txVars == <<mem, dur, log, size, fresh, freed, todo, stage>>

Undefined == -1       \* an uninitialised word
Null == 0

Span(a, n) == {a + k : k \in 0..(n - 1)}
Address == UNION {Span(o, Words) : o \in Objects}
             \cup UNION {Span(b, BlockWords) : b \in Blocks}
CellsOf(bs) == UNION {Span(b, BlockWords) : b \in bs}

(* The words of a set of blocks read as uninitialised.                     *)
Wiped(m, bs) == [a \in Address |-> IF a \in CellsOf(bs) THEN Undefined ELSE m[a]]

TxInit ==
  /\ mem = [a \in Address |-> Undefined]
  /\ dur = mem
  /\ log = <<>>
  /\ size = [b \in Blocks |-> 0]
  /\ fresh = {} /\ freed = {}
  /\ todo = <<>>
  /\ stage = "none"

Call == Head(todo)
Running(f) == stage = "work" /\ todo # <<>> /\ Call[1] = f
Return == todo' = Tail(todo)

(* A call is replaced by the calls of its body.                            *)
Expand(body) ==
  /\ todo' = body \o Tail(todo)
  /\ UNCHANGED <<mem, dur, log, size, fresh, freed, stage>>

(* pmemobj_tx_add_range: words snapshotted already, and words of a block   *)
(* this transaction allocated, need no entry.                              *)
Snapshot ==
  /\ Running("snapshot")
  /\ LET new == (Call[2] \cap Address) \ (DOMAIN log \cup CellsOf(fresh))
     IN log' = [a \in new \cup DOMAIN log |-> IF a \in new THEN mem[a] ELSE log[a]]
  /\ Return
  /\ UNCHANGED <<mem, dur, size, fresh, freed, stage>>

(* Assignment through p<> or persistent_ptr: snapshot, then store.         *)
Assign ==
  /\ Running("assign")
  /\ Expand(<< <<"snapshot", {Call[2]}>>, <<"store", Call[2], Call[3]>> >>)

Store ==
  /\ Running("store")
  /\ mem' = [mem EXCEPT ![Call[2]] = Call[3]]
  /\ Return
  /\ UNCHANGED <<dur, log, size, fresh, freed, stage>>

(* Store of *first: a source at or above the lowest object is an address   *)
(* of the pool and is read now, a smaller one is a value.                  *)
Value(e) == IF e \in Address THEN mem[e] ELSE e

Copy ==
  /\ Running("copy")
  /\ mem' = [mem EXCEPT ![Call[2]] = Value(Call[3])]
  /\ Return
  /\ UNCHANGED <<dur, log, size, fresh, freed, stage>>

Persist ==
  /\ Running("persist")
  /\ dur' = [a \in Address |-> IF a \in Call[2] THEN mem[a] ELSE dur[a]]
  /\ Return
  /\ UNCHANGED <<mem, log, size, fresh, freed, stage>>

(* pmemobj_tx_alloc, and the assignment of its result to a persistent_ptr. *)
TxAlloc ==
  /\ Running("tx_alloc")
  /\ \E b \in Blocks :
       /\ size[b] = 0 /\ \A c \in Blocks : size[c] = 0 => b <= c
       /\ size' = [size EXCEPT ![b] = Call[2]]
       /\ fresh' = fresh \cup {b}
       /\ todo' = << <<"assign", Call[3], b>> >> \o Tail(todo)
  /\ UNCHANGED <<mem, dur, log, freed, stage>>

(* pmemobj_tx_free: a block of this transaction is released at once, any   *)
(* other one at the commit.                                                *)
TxFree ==
  /\ Running("tx_free")
  /\ LET b == Call[2]
     IN CASE b = Null -> UNCHANGED <<mem, dur, size, fresh, freed>>
          [] b \in fresh -> /\ size' = [size EXCEPT ![b] = 0]
                            /\ fresh' = fresh \ {b}
                            /\ mem' = Wiped(mem, {b})
                            /\ dur' = Wiped(dur, {b})
                            /\ UNCHANGED freed
          [] OTHER -> freed' = freed \cup {b} /\ UNCHANGED <<mem, dur, size, fresh>>
  /\ Return
  /\ UNCHANGED <<log, stage>>

(* transaction::run opens a transaction; one that is open already is       *)
(* joined, and the outermost one decides the outcome.                      *)
Run(body) ==
  /\ stage \in {"none", "work"}
  /\ todo = <<>>
  /\ todo' = body
  /\ stage' = "work"
  /\ UNCHANGED <<mem, dur, log, size, fresh, freed>>

Close == log' = <<>> /\ fresh' = {} /\ freed' = {} /\ todo' = <<>>

(* pmemobj_tx_commit: the snapshotted ranges and the allocated blocks are  *)
(* flushed, nothing else is; then the frees take effect.                   *)
Commit ==
  /\ stage = "work" /\ todo = <<>>
  /\ stage' = "oncommit"
  /\ mem' = Wiped(mem, freed)
  /\ dur' = Wiped([a \in Address |-> IF a \in DOMAIN log \cup CellsOf(fresh)
                                     THEN mem[a] ELSE dur[a]], freed)
  /\ size' = [b \in Blocks |-> IF b \in freed THEN 0 ELSE size[b]]
  /\ Close

Undone(m) ==
  Wiped([a \in Address |-> IF a \in DOMAIN log THEN log[a] ELSE m[a]], fresh)

RollBack ==
  /\ stage' = "onabort"
  /\ size' = [b \in Blocks |-> IF b \in fresh THEN 0 ELSE size[b]]
  /\ Close

(* An exception leaves the body of transaction::run, which aborts the      *)
(* transaction: a snapshot, an allocation or a free that fails throws, and *)
(* so may the caller's own code once the operation returned.               *)
Abort ==
  /\ stage = "work"
  /\ todo # <<>> => Call[1] \in {"snapshot", "tx_alloc", "tx_free"}
  /\ RollBack
  /\ mem' = Undone(mem)
  /\ dur' = Wiped([a \in Address |-> IF a \in DOMAIN log THEN log[a] ELSE dur[a]], fresh)

(* Power is lost and the pool reopened: a word stored and not flushed may  *)
(* have left the cache or not; recovery then applies the undo log.         *)
Crash ==
  /\ stage = "work"
  /\ RollBack
  /\ \E out \in SUBSET {a \in Address \ (DOMAIN log \cup CellsOf(fresh)) : mem[a] # dur[a]} :
       mem' = Undone([a \in Address |-> IF a \in out THEN mem[a] ELSE dur[a]])
  /\ dur' = mem'

Done ==
  /\ stage \in {"oncommit", "onabort"}
  /\ stage' = "none"
  /\ UNCHANGED <<mem, dur, log, size, fresh, freed, todo>>

TxStep == Snapshot \/ Assign \/ Store \/ Copy \/ Persist \/ TxAlloc \/ TxFree
TxEnd == Commit \/ Abort \/ Crash \/ Done
=============================================================================
