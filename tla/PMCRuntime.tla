------------------------------ MODULE PMCRuntime ------------------------------
(***************************************************************************)
(* The tracing runtime linked into an instrumented program                 *)
(* (src/Transform/PM/pm.cpp).  Threads call its functions; every function   *)
(* takes the one mutex mtx, prints its lines with my_printf and updates    *)
(* the runtime's tables before it releases the mutex.  The allocator       *)
(* wrappers call malloc before they take the mutex and free after they     *)
(* release it.                                                             *)
(*                                                                         *)
(* A printed line is a triple <<kind, a, b>>; line numbers, columns and    *)
(* scope names are left out.  A line of output.txt is the text that was in *)
(* the static buffer when it was written, and the tag of the thread that   *)
(* wrote it.  The buffered text carries, beside the line, the thread that  *)
(* composed it (field by): the program does not print it, the properties   *)
(* compare it with the tag.                                                *)
(***************************************************************************)
EXTENDS Integers, Sequences, FiniteSets

CONSTANTS
  Threads,    \* the threads of the traced program
  Main,       \* the thread that runs main
  Nobody,     \* the value of mtx when it is free
  Ids,        \* the unique instruction ids the pass assigns
  Funcs,      \* the functions of the program
  Top,        \* addresses are 0 .. Top-1
  MaxSize,    \* bound: the largest block or access
  MaxCalls,   \* bound: how many runtime calls each thread makes
  FileFails,  \* fopen of output.txt may fail
  Ops         \* the functions of the runtime this program calls

(* Plain lines: functions that print one line and change no table. *)
LogOps == {"flush", "fence", "transactionBegins", "transactionCommits",
           "simuSfence", "simuFlushOpt", "simuFlush",
           "simuTX_BEGIN", "simuTX_END", "simuTX_ADD"}
HeapOps == {"malloc", "calloc"}
PoolOps == {"pmem_map_file", "pmemobj_create", "pmem_create", "pmemobj_open"}
AllocOps == HeapOps \cup PoolOps
AccessOps == {"Store", "Load"}
DummyOps == {"dummy_begin", "dummy_end"}
AllOps == LogOps \cup AllocOps \cup AccessOps \cup DummyOps
            \cup {"free", "funcBegin", "funcEnd", "depAdd"}

ASSUME RuntimeAssumption ==
  /\ Main \in Threads
  /\ Nobody \notin Threads
  /\ Ids \subseteq Nat /\ IsFiniteSet(Ids)
  /\ Top \in Nat \ {0}
  /\ MaxSize \in Nat \ {0}
  /\ MaxCalls \in [Threads -> Nat]
  /\ FileFails \in BOOLEAN
  /\ Ops \subseteq AllOps

VARIABLES
  my_flag,     \* the runtime is initialised
  mtx,         \* the thread holding the mutex, or Nobody
  M,           \* the registered ranges: pairs <<first, second>>
  FUNC_STACK,  \* per function its counter; 0 where the map has no entry
  DEP,         \* the registered dependences <<source, destination>>
  TRACE_IDS,   \* ids of the accesses printed so far
  buffer,      \* the static buffer of my_printf
  out,         \* output.txt: a sequence of [text, tid]
  pc,          \* where each thread is
  op,          \* the call each thread is in
  todo,        \* the lines the call still has to print
  left,        \* the ranges an access still has to print lines for
  calls,       \* the number of calls each thread has made
  live         \* allocated blocks: [base, size, by wrapper from, before Initialize]

tables == <<M, FUNC_STACK, DEP, TRACE_IDS>>
log == <<buffer, out>>
vars == <<my_flag, mtx, tables, log, pc, op, todo, left, calls, live>>

Addrs == 0 .. Top - 1
NoOp == [kind |-> "none", a |-> 0, b |-> 0, id |-> 0]
NoText == [by |-> Nobody, line |-> <<"none", 0, 0>>]

(* Any range the table M may hold: its end can be wrong, or past the top. *)
Ranges == Addrs \X (0 .. 2 * Top)
Blocks == [base : Addrs, size : 1 .. Top, from : AllocOps, early : BOOLEAN]
Calls ==
       [kind : AllocOps, a : Addrs, b : 0 .. 2 * Top, id : {0}]
  \cup [kind : {"free"}, a : Addrs, b : {0}, id : {0}]
  \cup [kind : AccessOps, a : Addrs, b : 1 .. MaxSize, id : Ids]
  \cup [kind : LogOps \cup DummyOps \cup {"none"}, a : {0}, b : {0}, id : {0}]
  \cup [kind : {"funcBegin", "funcEnd"}, a : Funcs, b : {0}, id : {0}]
  \cup [kind : {"depAdd"}, a : Ids, b : Ids, id : {0}]
LineKinds == LogOps \cup AccessOps \cup {"Adding", "FUNC_BEGIN", "FUNC_END", "DEP", "none"}
Lines == LineKinds \X (Nat \cup Funcs) \X Nat
Texts == [by : Threads \cup {Nobody}, line : Lines]
Tagged == [text : Texts, tid : Threads]

Overlap(b1, n1, b2, n2) == b1 < b2 + n2 /\ b2 < b1 + n1
Contains(first, second, a, n) == a >= first /\ a + n <= second

(* M[k] = v and M.erase(k). *)
Insert(m, k, v) == {p \in m : p[1] # k} \cup {<<k, v>>}
Erase(m, k) == {p \in m : p[1] # k}

(* Mutant: __pmc_printStoreAddr does not look the source up in TRACE_IDS.  *)
Sources_NotTraced(dep, traced, id) == {s \in Ids : <<s, id>> \in dep}

(* The sources of the DEP lines an access with this id prints, given the   *)
(* ids traced so far: std::map and std::set iterate in ascending order.    *)
Sources(dep, traced, id) == {s \in traced : <<s, id>> \in dep}
Ascending(S) ==
  {q \in [1 .. Cardinality(S) -> S] :
     \A i, j \in 1 .. Cardinality(S) : i < j => q[i] < q[j]}

AccessLine(o) == <<o.kind, o.id, o.a>>
DepLines(q, id) == [i \in DOMAIN q |-> <<"DEP", q[i], id>>]

(* The range an allocation wrapper registers for a block of n bytes at b.  *)
(* calloc registers the size of one element; pmem_map_file adds the value  *)
(* of a pointer, which is past every address; pmemobj_open ignores the     *)
(* result of pmemobj_ctl_get, so that the size may be uninitialised.       *)
RegisteredEnds(kind, b, n) ==
  CASE kind \in {"malloc", "pmemobj_create", "pmem_create"} -> {b + n}
    [] kind = "calloc" -> {b + s : s \in {s \in 1 .. n : n % s = 0}}
    [] kind = "pmem_map_file" -> {b + Top}
    [] kind = "pmemobj_open" -> 0 .. Top

(* Mutant: __pmc_free erases nothing. *)
AfterM_NoErase(o, m) == IF o.kind \in AllocOps THEN Insert(m, o.a, o.b) ELSE m

(* What the call's late update makes of the tables: M after the lines are  *)
(* printed, FUNC_STACK after FUNC_END.                                     *)
AfterM(o, m) ==
  IF o.kind \in AllocOps THEN Insert(m, o.a, o.b)
  ELSE IF o.kind = "free" THEN Erase(m, o.a) ELSE m

AfterFunc(o, f) ==
  IF o.kind = "funcEnd" THEN [f EXCEPT ![o.a] = @ + 1] ELSE f
-------------------------------------------------------------------------------
(***************************************************************************)
(* The program: which calls its threads make.  The pass puts               *)
(* __pmc_Initialize first in main, so that only main can call the runtime  *)
(* before it (from a static constructor).                                  *)
(***************************************************************************)
MayCall(t, kind) ==
  /\ pc[t] = "idle"
  /\ kind \in Ops
  /\ calls[t] < MaxCalls[t]
  /\ my_flag \/ t = Main

(* Enter a runtime function: the tables are only used if my_flag is set,   *)
(* which the pool wrappers do not test; free frees in any case.            *)
Entry(o) ==
  IF my_flag \/ o.kind \in PoolOps THEN "lock"
  ELSE IF o.kind = "free" THEN "free" ELSE "idle"

Start(t, o) ==
  /\ calls' = [calls EXCEPT ![t] = @ + 1]
  /\ op' = [op EXCEPT ![t] = o]
  /\ pc' = [pc EXCEPT ![t] = Entry(o)]
  /\ UNCHANGED <<my_flag, mtx, tables, log, todo, left>>

(* A block is busy until the wrapper that allocates it has returned, and   *)
(* from the call that frees it on; the program frees only other blocks.    *)
Busy(blk) == \E t \in Threads : /\ pc[t] # "idle"
                                 /\ op[t].kind \in AllocOps \cup {"free"}
                                 /\ op[t].a = blk.base

Allocate(t, kind) ==
  /\ MayCall(t, kind)
  /\ \E b \in Addrs, n \in 1 .. MaxSize :
       /\ b + n <= Top
       /\ \A blk \in live : ~Overlap(b, n, blk.base, blk.size)
       /\ \E e \in RegisteredEnds(kind, b, n) :
            Start(t, [kind |-> kind, a |-> b, b |-> e, id |-> 0])
       /\ live' = live \cup {[base |-> b, size |-> n, from |-> kind, early |-> ~my_flag]}

(* Mutant: the block is freed before __pmc_free has erased its range. *)
Free_First(t) ==
  /\ MayCall(t, "free")
  /\ \E blk \in live :
       /\ blk.from \in HeapOps
       /\ ~Busy(blk)
       /\ Start(t, [kind |-> "free", a |-> blk.base, b |-> 0, id |-> 0])
       /\ live' = live \ {blk}

Free(t) ==
  /\ MayCall(t, "free")
  /\ \E blk \in live :
       /\ blk.from \in HeapOps
       /\ ~Busy(blk)
       /\ Start(t, [kind |-> "free", a |-> blk.base, b |-> 0, id |-> 0])
  /\ UNCHANGED live

(* A load or store of n bytes at a; the call is inserted before the access. *)
Access(t, kind) ==
  /\ MayCall(t, kind)
  /\ \E a \in Addrs, n \in 1 .. MaxSize, id \in Ids :
       Start(t, [kind |-> kind, a |-> a, b |-> n, id |-> id])
  /\ UNCHANGED live

Log(t, kind) ==
  /\ MayCall(t, kind)
  /\ Start(t, [NoOp EXCEPT !.kind = kind])
  /\ UNCHANGED live

FuncBegin(t) ==
  /\ MayCall(t, "funcBegin")
  /\ \E f \in Funcs : Start(t, [NoOp EXCEPT !.kind = "funcBegin", !.a = f])
  /\ UNCHANGED live

(* FUNC_END is only reached inside a call of the function by this thread.  *)
FuncEnd(t) ==
  /\ MayCall(t, "funcEnd")
  /\ \E f \in Funcs :
       /\ my_flag => \E i \in DOMAIN out :
                       out[i].tid = t /\ out[i].text.line[1] = "FUNC_BEGIN"
                                      /\ out[i].text.line[2] = f
       /\ Start(t, [NoOp EXCEPT !.kind = "funcEnd", !.a = f])
  /\ UNCHANGED live

DepAdd(t) ==
  /\ MayCall(t, "depAdd")
  /\ \E s, d \in Ids : Start(t, [kind |-> "depAdd", a |-> s, b |-> d, id |-> 0])
  /\ UNCHANGED live
-------------------------------------------------------------------------------
(***************************************************************************)
(* The runtime.                                                            *)
(***************************************************************************)
Initialize ==
  /\ pc[Main] = "idle"
  /\ ~my_flag
  /\ M' = {} /\ FUNC_STACK' = [f \in Funcs |-> 0] /\ DEP' = {} /\ TRACE_IDS' = {}
  /\ mtx' = Nobody
  /\ my_flag' = TRUE
  /\ UNCHANGED <<log, pc, op, todo, left, calls, live>>

Lock(t, kinds) ==
  /\ pc[t] = "lock"
  /\ op[t].kind \in kinds
  /\ mtx = Nobody
  /\ mtx' = t
  /\ pc' = [pc EXCEPT ![t] = "body"]
  /\ UNCHANGED <<my_flag, log, op, calls, live>>

Prints(t, lines) ==
  /\ todo' = [todo EXCEPT ![t] = lines]
  /\ UNCHANGED left

LockAlloc(t) ==
  /\ Lock(t, AllocOps)
  /\ Prints(t, << <<"Adding", op[t].a, op[t].b>> >>)
  /\ UNCHANGED tables

LockFree(t) ==
  /\ Lock(t, {"free"})
  /\ Prints(t, << <<"Adding", op[t].a, 0>> >>)
  /\ UNCHANGED tables

LockLog(t) ==
  /\ Lock(t, LogOps)
  /\ Prints(t, << <<op[t].kind, 0, 0>> >>)
  /\ UNCHANGED tables

LockDummy(t) ==
  /\ Lock(t, DummyOps)
  /\ UNCHANGED <<todo, left, tables>>

LockFuncBegin(t) ==
  /\ Lock(t, {"funcBegin"})
  /\ LET f == op[t].a
         n == IF FUNC_STACK[f] = 0 THEN 1 ELSE FUNC_STACK[f]
     IN /\ FUNC_STACK' = [FUNC_STACK EXCEPT ![f] = n]
        /\ Prints(t, << <<"FUNC_BEGIN", f, n>> >>)
  /\ UNCHANGED <<M, DEP, TRACE_IDS>>

LockFuncEnd(t) ==
  /\ Lock(t, {"funcEnd"})
  /\ Prints(t, << <<"FUNC_END", op[t].a, FUNC_STACK[op[t].a]>> >>)
  /\ UNCHANGED tables

LockDepAdd(t) ==
  /\ Lock(t, {"depAdd"})
  /\ DEP' = DEP \cup {<<op[t].a, op[t].b>>}
  /\ UNCHANGED <<todo, left, M, FUNC_STACK, TRACE_IDS>>

(* The access is compared with every registered range. *)
Covering(o) == {p \in M : Contains(p[1], p[2], o.a, o.b)}

LockAccess(t) ==
  /\ Lock(t, AccessOps)
  /\ left' = [left EXCEPT ![t] = Covering(op[t])]
  /\ UNCHANGED <<todo, tables>>

(* One iteration of the loop over M: the access line, then a DEP line for  *)
(* every registered dependence of this id whose source has been traced.    *)
NextRange(t) ==
  /\ pc[t] = "body"
  /\ todo[t] = <<>>
  /\ \E p \in left[t] :
       /\ \A p2 \in left[t] : p[1] <= p2[1]
       /\ left' = [left EXCEPT ![t] = @ \ {p}]
  /\ TRACE_IDS' = TRACE_IDS \cup {op[t].id}
  /\ \E q \in Ascending(Sources(DEP, TRACE_IDS', op[t].id)) :
       todo' = [todo EXCEPT ![t] = <<AccessLine(op[t])>> \o DepLines(q, op[t].id)]
  /\ UNCHANGED <<my_flag, mtx, M, FUNC_STACK, DEP, log, pc, op, calls, live>>

(* my_printf: open output.txt, format into the static buffer ... *)
Format(t) ==
  /\ pc[t] = "body"
  /\ todo[t] # <<>>
  /\ buffer' = [by |-> t, line |-> Head(todo[t])]
  /\ pc' = [pc EXCEPT ![t] = "write"]
  /\ UNCHANGED <<my_flag, mtx, tables, out, op, todo, left, calls, live>>

(* fopen fails: my_printf returns and the line is lost. *)
OpenFails(t) ==
  /\ FileFails
  /\ pc[t] = "body"
  /\ todo[t] # <<>>
  /\ todo' = [todo EXCEPT ![t] = Tail(@)]
  /\ UNCHANGED <<my_flag, mtx, tables, log, pc, op, left, calls, live>>

(* ... and append the buffer and the thread's tag to output.txt. *)
Write(t) ==
  /\ pc[t] = "write"
  /\ out' = Append(out, [text |-> buffer, tid |-> t])
  /\ todo' = [todo EXCEPT ![t] = Tail(@)]
  /\ pc' = [pc EXCEPT ![t] = "body"]
  /\ UNCHANGED <<my_flag, mtx, tables, buffer, op, left, calls, live>>

(* Mutant: an early return leaves mtx locked. *)
Unlock_Keeps(t) ==
  /\ pc[t] = "body"
  /\ todo[t] = <<>>
  /\ left[t] = {}
  /\ M' = AfterM(op[t], M)
  /\ FUNC_STACK' = AfterFunc(op[t], FUNC_STACK)
  /\ pc' = [pc EXCEPT ![t] = IF op[t].kind = "free" THEN "free" ELSE "idle"]
  /\ UNCHANGED <<my_flag, mtx, DEP, TRACE_IDS, log, op, todo, left, calls, live>>

(* Mutant: mtx is released before the lines are printed. *)
Unlock_Early(t) ==
  /\ pc[t] = "body"
  /\ left[t] = {}
  /\ M' = AfterM(op[t], M)
  /\ FUNC_STACK' = AfterFunc(op[t], FUNC_STACK)
  /\ mtx' = Nobody
  /\ pc' = [pc EXCEPT ![t] = IF op[t].kind = "free" THEN "free" ELSE "idle"]
  /\ UNCHANGED <<my_flag, DEP, TRACE_IDS, log, op, todo, left, calls, live>>

(* Everything is printed: late update of the tables, release of the mutex. *)
Unlock(t) ==
  /\ pc[t] = "body"
  /\ todo[t] = <<>>
  /\ left[t] = {}
  /\ M' = AfterM(op[t], M)
  /\ FUNC_STACK' = AfterFunc(op[t], FUNC_STACK)
  /\ mtx' = Nobody
  /\ pc' = [pc EXCEPT ![t] = IF op[t].kind = "free" THEN "free" ELSE "idle"]
  /\ UNCHANGED <<my_flag, DEP, TRACE_IDS, log, op, todo, left, calls, live>>

(* free(block), after the mutex is released. *)
Release(t) ==
  /\ pc[t] = "free"
  /\ live' = {blk \in live : blk.base # op[t].a}
  /\ pc' = [pc EXCEPT ![t] = "idle"]
  /\ UNCHANGED <<my_flag, mtx, tables, log, op, todo, left, calls>>
-------------------------------------------------------------------------------
Init ==
  /\ my_flag = FALSE
  /\ mtx = Nobody
  /\ M = {}
  /\ FUNC_STACK = [f \in Funcs |-> 0]
  /\ DEP = {}
  /\ TRACE_IDS = {}
  /\ buffer = NoText
  /\ out = <<>>
  /\ pc = [t \in Threads |-> "idle"]
  /\ op = [t \in Threads |-> NoOp]
  /\ todo = [t \in Threads |-> <<>>]
  /\ left = [t \in Threads |-> {}]
  /\ calls = [t \in Threads |-> 0]
  /\ live = {}

(* The steps of a call that has been made. *)
Run(t) ==
  \/ LockAlloc(t) \/ LockFree(t) \/ LockLog(t) \/ LockDummy(t)
  \/ LockFuncBegin(t) \/ LockFuncEnd(t) \/ LockDepAdd(t) \/ LockAccess(t)
  \/ NextRange(t) \/ Format(t) \/ OpenFails(t) \/ Write(t) \/ Unlock(t) \/ Release(t)

Request(t) ==
  \/ \E kind \in AllocOps : Allocate(t, kind)
  \/ Free(t)
  \/ \E kind \in AccessOps : Access(t, kind)
  \/ \E kind \in LogOps \cup DummyOps : Log(t, kind)
  \/ FuncBegin(t) \/ FuncEnd(t) \/ DepAdd(t)

Next == Initialize \/ \E t \in Threads : Request(t) \/ Run(t)

Spec == Init /\ [][Next]_vars

(* The scheduler runs every thread that can run.  A thread makes finitely  *)
(* many calls, so that a thread waiting for mtx need not be favoured.      *)
FairSpec == Spec /\ \A t \in Threads : WF_vars(Run(t))
-------------------------------------------------------------------------------
(***************************************************************************)
(* Properties.                                                             *)
(***************************************************************************)
(* The variables have their types; M holds one range per first address, as *)
(* the keys of a std::map do.                                              *)
TypeOK ==
  /\ my_flag \in BOOLEAN
  /\ mtx \in Threads \cup {Nobody}
  /\ M \subseteq Ranges
  /\ \A p, q \in M : p[1] = q[1] => p = q
  /\ FUNC_STACK \in [Funcs -> Nat]
  /\ DEP \subseteq Ids \X Ids
  /\ TRACE_IDS \subseteq Ids
  /\ buffer \in Texts
  /\ out \in Seq(Tagged)
  /\ pc \in [Threads -> {"idle", "lock", "body", "write", "free"}]
  /\ op \in [Threads -> Calls]
  /\ todo \in [Threads -> Seq(Lines)]
  /\ left \in [Threads -> SUBSET Ranges]
  /\ calls \in [Threads -> Nat] /\ \A t \in Threads : calls[t] <= MaxCalls[t]
  /\ live \subseteq Blocks

InFunction(t) == pc[t] \in {"body", "write"}

(* my_printf formats into a static buffer shared by all threads and prints *)
(* the buffer later: every line of output.txt carries the tag of the       *)
(* thread that composed its text.                                          *)
LineIntegrity == \A i \in DOMAIN out : out[i].text.by = out[i].tid

(* __pmc_malloc allocates before, and __pmc_free frees after, its critical *)
(* section.  Whatever the interleaving, no two registered ranges overlap,  *)
(* so that __pmc_printStoreAddr and __pmc_printLoadAddr, whose loops over  *)
(* M do not stop at the first hit, print an access once.                   *)
RegistryDisjoint ==
  \A p, q \in M : p # q => p[2] <= q[1] \/ q[2] <= p[1]

(* A block the program got from a wrapper after __pmc_Initialize, and has  *)
(* not begun to free, is registered with its whole length: every access to *)
(* it is traced.                                                           *)
OwnedRegistered ==
  \A blk \in live :
    my_flag /\ ~blk.early /\ ~Busy(blk) => <<blk.base, blk.base + blk.size>> \in M

(* The address of an access that is being printed lies in an allocated     *)
(* block.                                                                  *)
LoggedIsPM ==
  \A t \in Threads :
    InFunction(t) /\ op[t].kind \in AccessOps /\ todo[t] # <<>> =>
      \E blk \in live :
        Contains(blk.base, blk.base + blk.size, op[t].a, op[t].b)

LineOf(i) == out[i].text.line

(* A DEP line names a source that was printed before it, by whatever       *)
(* thread, and follows the line of its destination with only DEP lines of  *)
(* the same access between them.                                           *)
DepLinesSound ==
  \A i \in DOMAIN out : LineOf(i)[1] = "DEP" =>
    /\ \E j \in 1 .. i - 1 : LineOf(j)[1] \in AccessOps /\ LineOf(j)[2] = LineOf(i)[2]
    /\ \E j \in 1 .. i - 1 :
         /\ LineOf(j)[1] \in AccessOps /\ LineOf(j)[2] = LineOf(i)[3]
         /\ \A k \in j .. i - 1 : out[k].tid = out[i].tid
         /\ \A k \in j + 1 .. i - 1 : LineOf(k)[1] = "DEP"

(* The number a FUNC_BEGIN or FUNC_END line of a function carries is one   *)
(* more than the FUNC_END lines of that function before it, although the   *)
(* threads share the counter and FUNC_END increments it after printing.    *)
FunctionNumbers ==
  \A i \in DOMAIN out : LineOf(i)[1] \in {"FUNC_BEGIN", "FUNC_END"} =>
    LineOf(i)[3] = 1 + Cardinality({j \in 1 .. i - 1 : LineOf(j)[1] = "FUNC_END"
                                                     /\ LineOf(j)[2] = LineOf(i)[2]})

(* What the log promises its reader: every line with its own thread's tag, *)
(* DEP lines with their access, and the numbers of the function calls.     *)
LogSound == LineIntegrity /\ DepLinesSound /\ FunctionNumbers

(* Every runtime call returns. *)
CallsReturn == \A t \in Threads : pc[t] # "idle" ~> pc[t] = "idle"
-------------------------------------------------------------------------------
(***************************************************************************)
(* The runtime implements AtomicTrace.  A call takes effect when it locks  *)
(* mtx (an access: at every iteration of its loop), so that the lines and  *)
(* the update the holder of mtx still owes count as made.                  *)
(***************************************************************************)
Owed == IF mtx = Nobody THEN <<>>
        ELSE [i \in DOMAIN todo[mtx] |->
                [text |-> [by |-> mtx, line |-> todo[mtx][i]], tid |-> mtx]]

registryBar == IF mtx = Nobody THEN M ELSE AfterM(op[mtx], M)
countBar == IF mtx = Nobody THEN FUNC_STACK ELSE AfterFunc(op[mtx], FUNC_STACK)
entriesBar == out \o Owed

Atomic == INSTANCE AtomicTrace WITH
  Ends <- 0 .. 2 * Top,
  Sizes <- 1 .. MaxSize,
  PlainKinds <- LogOps,
  ready <- my_flag,
  registry <- registryBar,
  count <- countBar,
  dep <- DEP,
  traced <- TRACE_IDS,
  entries <- entriesBar

(* output.txt grows by whole records, each computed from the tables at one *)
(* instant: the runtime's functions are atomic although they print line by *)
(* line through a shared buffer.                                           *)
ImplementsAtomicTrace == Atomic!Spec
-------------------------------------------------------------------------------
(***************************************************************************)
(* The inductive invariants behind the properties.                         *)
(***************************************************************************)
(* Exactly the holder of mtx is inside a runtime function; nobody else     *)
(* owes lines, and the buffer holds the line its holder is about to write; *)
(* the ranges an access still has to visit are registered and contain it;  *)
(* before Initialize only main runs, in a pool wrapper or in free.         *)
MutexInv ==
  /\ \A t \in Threads : InFunction(t) <=> mtx = t
  /\ \A t \in Threads : ~InFunction(t) => todo[t] = <<>> /\ left[t] = {}
  /\ \A t \in Threads : pc[t] = "write" =>
       todo[t] # <<>> /\ buffer = [by |-> t, line |-> Head(todo[t])]
  /\ \A t \in Threads : left[t] # {} =>
       op[t].kind \in AccessOps /\ left[t] \subseteq Covering(op[t])
  /\ ~my_flag => \A t \in Threads : pc[t] # "idle" =>
       t = Main /\ op[t].kind \in PoolOps \cup {"free"}
  /\ ~my_flag => \A t \in Threads : pc[t] = "lock" => op[t].kind \in PoolOps

(* An access is being printed because a registered range contains it. *)
CoverInv ==
  \A t \in Threads :
    todo[t] # <<>> /\ op[t].kind \in AccessOps => Covering(op[t]) # {}

(* A FUNC_END is under way only for a function whose counter a FUNC_BEGIN  *)
(* has set.                                                                *)
EndsBegun ==
  \A t \in Threads : pc[t] # "idle" /\ op[t].kind = "funcEnd" => FUNC_STACK[op[t].a] # 0

(* The wrappers that register at most, and exactly, the block they return. *)
FittingOps == AllocOps \ {"pmem_map_file", "pmemobj_open"}
WholeOps == FittingOps \ {"calloc"}

HandlesBlock(t) == pc[t] # "idle" /\ op[t].kind \in AllocOps \cup {"free"}

(* Allocated blocks are disjoint. *)
HeapDisjoint == \A x, y \in live : x # y => ~Overlap(x.base, x.size, y.base, y.size)

(* No two calls handle the same block. *)
OneHandler ==
  \A t, u \in Threads :
    t # u /\ HandlesBlock(t) /\ HandlesBlock(u) => op[t].a # op[u].a

(* The block a call handles is allocated. *)
HandledLive ==
  \A t \in Threads : HandlesBlock(t) =>
    \E blk \in live :
      /\ blk.base = op[t].a
      /\ op[t].kind \in AllocOps => blk.from = op[t].kind
      /\ op[t].kind = "free" => blk.from \in HeapOps
      /\ op[t].kind \in FittingOps => op[t].b <= blk.base + blk.size
      /\ op[t].kind \in WholeOps => op[t].b = blk.base + blk.size

(* A range is registered for the block that starts there, and before       *)
(* Initialize only for pools.                                              *)
RegisteredLive ==
  \A p \in M : \E blk \in live :
    /\ blk.base = p[1]
    /\ blk.from \in FittingOps => p[2] <= blk.base + blk.size
    /\ ~my_flag => blk.from \in PoolOps

(* A block that is about to be freed has lost its range. *)
FreeUnregistered ==
  \A t \in Threads : pc[t] = "free" /\ op[t].kind = "free" => \A p \in M : p[1] # op[t].a

LiveFrom == \A blk \in live : blk.from \in Ops /\ (~my_flag => blk.early)

HeapInv ==
  /\ \A t \in Threads : pc[t] = "free" => op[t].kind = "free"
  /\ HeapDisjoint /\ OneHandler /\ HandledLive
  /\ RegisteredLive /\ FreeUnregistered /\ LiveFrom

(* OwnedRegistered, for the wrappers that register the whole block. *)
WholeRegistered ==
  \A blk \in live :
    blk.from \in WholeOps /\ ~blk.early /\ ~Busy(blk) =>
      <<blk.base, blk.base + blk.size>> \in M
===============================================================================
