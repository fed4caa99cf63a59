-------------------------- MODULE PMCRegistryProofs --------------------------
(***************************************************************************)
(* Proofs about the table M of registered ranges and the program's heap.   *)
(* __pmc_malloc allocates before it takes mtx and __pmc_free frees after   *)
(* it has released mtx, so that between the two the table and the heap     *)
(* disagree; HeapInv says how far.                                         *)
(***************************************************************************)
EXTENDS PMCRuntimeProofs

(* The fields of blocks and ranges are numbers. *)
LEMMA BlockFields ==
  ASSUME TypeOK, NEW x \in live
  PROVE  x.base \in Nat /\ x.size \in Nat /\ x.size >= 1
BY RuntimeAssumption DEF TypeOK, Blocks, Addrs

(* The ends of a registered range are numbers. *)
LEMMA RangeFields ==
  ASSUME TypeOK, NEW p \in M
  PROVE  p[1] \in Nat /\ p[2] \in Nat
<1>1. p \in Ranges
  BY DEF TypeOK
<1>2. p[1] \in Addrs /\ p[2] \in 0 .. 2 * Top
  BY <1>1 DEF Ranges
<1> QED
  BY <1>2 DEF Addrs

(* A block is identified by its first address. *)
LEMMA SameBase ==
  ASSUME TypeOK, HeapDisjoint, NEW x \in live, NEW y \in live, x.base = y.base
  PROVE  x = y
<1>1. /\ x.base \in Nat /\ x.size \in Nat /\ x.size >= 1
      /\ y.base \in Nat /\ y.size \in Nat /\ y.size >= 1
  BY BlockFields
<1>2. Overlap(x.base, x.size, y.base, y.size)
  BY <1>1 DEF Overlap
<1> QED
  BY <1>2 DEF HeapDisjoint

(* Nothing is allocated or registered at the start. *)
LEMMA HeapInit == Init => HeapInv
BY DEF Init, HeapInv, HeapDisjoint, OneHandler, HandledLive, RegisteredLive,
       FreeUnregistered, LiveFrom, HandlesBlock

(* A step that touches neither the heap nor M, and begins no handling. *)
LEMMA HeapQuiet ==
  ASSUME HeapInv, UNCHANGED <<live, M, my_flag>>,
         \A u \in Threads : HandlesBlock(u)' => HandlesBlock(u) /\ op'[u] = op[u],
         \A u \in Threads : pc'[u] = "free" => pc[u] = "free" /\ op'[u] = op[u]
  PROVE  HeapInv'
<1>1. \A t \in Threads : pc'[t] = "free" => op'[t].kind = "free"
  BY DEF HeapInv
<1>2. HeapDisjoint' /\ RegisteredLive' /\ LiveFrom'
  BY DEF HeapInv, HeapDisjoint, RegisteredLive, LiveFrom
<1>3. OneHandler'
  BY DEF HeapInv, OneHandler
<1>4. HandledLive'
  BY DEF HeapInv, HandledLive
<1>5. FreeUnregistered'
  BY DEF HeapInv, FreeUnregistered
<1> QED
  BY <1>1, <1>2, <1>3, <1>4, <1>5 DEF HeapInv

(* The wrapper has called malloc: a fresh block, handled by t alone. *)
LEMMA HeapAllocate ==
  ASSUME TypeOK, MutexInv, HeapInv, NEW t \in Threads, NEW kind \in AllocOps, Allocate(t, kind)
  PROVE  HeapInv'
<1>1. PICK b \in Addrs, n \in 1 .. MaxSize :
        /\ b + n <= Top
        /\ \A blk \in live : ~Overlap(b, n, blk.base, blk.size)
        /\ \E e \in RegisteredEnds(kind, b, n) :
             Start(t, [kind |-> kind, a |-> b, b |-> e, id |-> 0])
        /\ live' = live \cup {[base |-> b, size |-> n, from |-> kind, early |-> ~my_flag]}
  BY DEF Allocate
<1>2. PICK e \in RegisteredEnds(kind, b, n) :
        Start(t, [kind |-> kind, a |-> b, b |-> e, id |-> 0])
  BY <1>1
<1> DEFINE new == [base |-> b, size |-> n, from |-> kind, early |-> ~my_flag]
           o == [kind |-> kind, a |-> b, b |-> e, id |-> 0]
<1>3. /\ op'[t] = o /\ pc'[t] \in {"lock", "idle"}
      /\ \A u \in Threads \ {t} : op'[u] = op[u] /\ pc'[u] = pc[u]
      /\ UNCHANGED <<M, my_flag>>
  BY <1>2, Kinds DEF Start, Entry, TypeOK, tables
<1>4. new \in live' /\ live \subseteq live' /\ \A x \in live' : x \in live \/ x = new
  BY <1>1
<1>5. \A u \in Threads \ {t} : HandlesBlock(u)' = HandlesBlock(u)
  BY <1>3 DEF HandlesBlock
<1>6. \A x \in live : x.base # b
  <2> SUFFICES ASSUME NEW x \in live, x.base = b PROVE FALSE
    OBVIOUS
  <2>1. x.size \in Nat /\ x.size >= 1 /\ b \in Nat /\ n \in Nat /\ n >= 1
    BY RuntimeAssumption, SMTT(30) DEF TypeOK, Blocks, Addrs
  <2> QED
    BY <1>1, <2>1 DEF Overlap
<1>7. /\ kind \in FittingOps => e <= b + n
      /\ kind \in WholeOps => e = b + n
  <2>1. CASE kind \in {"malloc", "pmemobj_create", "pmem_create"}
    BY <2>1, RuntimeAssumption DEF RegisteredEnds, Addrs
  <2>2. CASE kind = "calloc"
    BY <2>2, RuntimeAssumption DEF RegisteredEnds, Addrs, WholeOps
  <2> QED
    BY <2>1, <2>2 DEF AllocOps, HeapOps, PoolOps, FittingOps, WholeOps
<1>10. HeapDisjoint'
  <2> SUFFICES ASSUME NEW x \in live', NEW y \in live', x # y
               PROVE  ~Overlap(x.base, x.size, y.base, y.size)
    BY DEF HeapDisjoint
  <2>1. \A z \in live : ~Overlap(b, n, z.base, z.size) /\ ~Overlap(z.base, z.size, b, n)
    BY <1>1 DEF Overlap
  <2> QED
    BY <1>4, <2>1 DEF HeapInv, HeapDisjoint
<1>11. OneHandler'
  <2>1. \A u \in Threads : HandlesBlock(u) => op[u].a # b
    BY <1>6 DEF HeapInv, HandledLive
  <2> QED
    BY <1>3, <1>5, <2>1 DEF HeapInv, OneHandler
<1>12. HandledLive'
  <2> SUFFICES ASSUME NEW u \in Threads, HandlesBlock(u)'
               PROVE  \E blk \in live' :
                        /\ blk.base = op'[u].a
                        /\ op'[u].kind \in AllocOps => blk.from = op'[u].kind
                        /\ op'[u].kind = "free" => blk.from \in HeapOps
                        /\ op'[u].kind \in FittingOps => op'[u].b <= blk.base + blk.size
                        /\ op'[u].kind \in WholeOps => op'[u].b = blk.base + blk.size
    BY DEF HandledLive
  <2>1. CASE u = t
    BY <1>3, <1>4, <1>7, <2>1, Kinds, SMTT(60), Z3T(60)
  <2>2. CASE u # t
    BY <1>3, <1>4, <1>5, <2>2, SMTT(60), Z3T(60) DEF HeapInv, HandledLive
  <2> QED
    BY <2>1, <2>2
<1>13. RegisteredLive'
  BY <1>3, <1>4, SMTT(30) DEF HeapInv, RegisteredLive
<1>14. FreeUnregistered'
  BY <1>3 DEF HeapInv, FreeUnregistered
<1>15. LiveFrom'
  <2>1. new.from \in Ops
    BY DEF Allocate, MayCall
  <2>2. ~my_flag => new.early
    BY Zenon
  <2> QED
    BY <1>3, <1>4, <2>1, <2>2, ZenonT(30) DEF HeapInv, LiveFrom
<1>16. \A u \in Threads : pc'[u] = "free" => op'[u].kind = "free"
  BY <1>3 DEF HeapInv
<1> QED
  BY <1>10, <1>11, <1>12, <1>13, <1>14, <1>15, <1>16, SMTT(30) DEF HeapInv

(* __pmc_free is called for a block nobody else handles. *)
LEMMA HeapFree ==
  ASSUME TypeOK, MutexInv, HeapInv, NEW t \in Threads, Free(t)
  PROVE  HeapInv'
<1>1. PICK blk \in live :
        /\ blk.from \in HeapOps
        /\ ~Busy(blk)
        /\ Start(t, [kind |-> "free", a |-> blk.base, b |-> 0, id |-> 0])
  BY DEF Free
<1> DEFINE o == [kind |-> "free", a |-> blk.base, b |-> 0, id |-> 0]
<1>2. /\ op'[t] = o
      /\ my_flag => pc'[t] = "lock"
      /\ \A u \in Threads \ {t} : op'[u] = op[u] /\ pc'[u] = pc[u]
      /\ UNCHANGED <<M, my_flag, live>>
  BY <1>1 DEF Start, Entry, TypeOK, tables, Free
<1>3. \A u \in Threads \ {t} : HandlesBlock(u)' = HandlesBlock(u)
  BY <1>2 DEF HandlesBlock
<1>4. \A u \in Threads : HandlesBlock(u) => op[u].a # blk.base
  BY <1>1 DEF HandlesBlock, Busy
<1>5. HeapDisjoint' /\ RegisteredLive' /\ LiveFrom'
  BY <1>2 DEF HeapInv, HeapDisjoint, RegisteredLive, LiveFrom
<1>6. OneHandler'
  BY <1>2, <1>3, <1>4 DEF HeapInv, OneHandler
<1>7. HandledLive'
  <2> SUFFICES ASSUME NEW u \in Threads, HandlesBlock(u)'
               PROVE  \E x \in live' :
                        /\ x.base = op'[u].a
                        /\ op'[u].kind \in AllocOps => x.from = op'[u].kind
                        /\ op'[u].kind = "free" => x.from \in HeapOps
                        /\ op'[u].kind \in FittingOps => op'[u].b <= x.base + x.size
                        /\ op'[u].kind \in WholeOps => op'[u].b = x.base + x.size
    BY DEF HandledLive
  <2>1. CASE u = t
    BY <1>1, <1>2, <2>1, Kinds, SMTT(60), Z3T(60) DEF FittingOps, WholeOps
  <2>2. CASE u # t
    BY <1>2, <1>3, <2>2, SMTT(60), Z3T(60) DEF HeapInv, HandledLive
  <2> QED
    BY <2>1, <2>2
<1>8. FreeUnregistered'
  <2>1. ~my_flag => \A p \in M : p[1] # blk.base
    <3> SUFFICES ASSUME ~my_flag, NEW p \in M, p[1] = blk.base PROVE FALSE
      OBVIOUS
    <3>1. PICK x \in live : x.base = p[1] /\ x.from \in PoolOps
      BY DEF HeapInv, RegisteredLive
    <3>2. x = blk
      BY <3>1, SameBase DEF HeapInv
    <3> QED
      BY <1>1, <3>1, <3>2, Kinds, SMTT(30)
  <2>2. pc'[t] = "free" => ~my_flag
    BY <1>2
  <2> QED
    BY <1>2, <2>1, <2>2, SMTT(30) DEF HeapInv, FreeUnregistered
<1>9. \A u \in Threads : pc'[u] = "free" => op'[u].kind = "free"
  BY <1>2 DEF HeapInv
<1> QED
  BY <1>5, <1>6, <1>7, <1>8, <1>9, SMTT(30) DEF HeapInv

(* Entering a runtime function keeps the heap invariant. *)
LEMMA HeapRequest ==
  ASSUME TypeOK, MutexInv, HeapInv, NEW t \in Threads, Request(t)
  PROVE  HeapInv'
<1>1. ASSUME NEW o \in Calls, o.kind \notin AllocOps \cup {"free"}, Start(t, o), UNCHANGED live
      PROVE  HeapInv'
  <2>1. /\ op'[t] = o /\ pc'[t] # "free"
        /\ \A u \in Threads \ {t} : op'[u] = op[u] /\ pc'[u] = pc[u]
        /\ UNCHANGED <<M, my_flag, live>>
    BY <1>1 DEF Start, Entry, TypeOK, tables
  <2>2. \A u \in Threads : HandlesBlock(u)' => HandlesBlock(u) /\ op'[u] = op[u]
    BY <1>1, <2>1 DEF HandlesBlock
  <2> QED
    BY <2>1, <2>2, HeapQuiet, SMTT(30)
<1>2. ASSUME NEW kind \in AccessOps, Access(t, kind) PROVE HeapInv'
  <2>1. PICK a \in Addrs, n \in 1 .. MaxSize, id \in Ids :
          Start(t, [kind |-> kind, a |-> a, b |-> n, id |-> id])
    BY <1>2 DEF Access
  <2>2. [kind |-> kind, a |-> a, b |-> n, id |-> id] \in Calls
    BY DEF Calls
  <2> QED
    BY <1>1, <1>2, <2>1, <2>2, Kinds, SMTT(30) DEF Access
<1>3. ASSUME NEW kind \in LogOps \cup DummyOps, Log(t, kind) PROVE HeapInv'
  <2>1. [NoOp EXCEPT !.kind = kind] \in Calls /\ [NoOp EXCEPT !.kind = kind].kind = kind
    BY DEF Calls, NoOp
  <2> QED
    BY <1>1, <1>3, <2>1, Kinds, Zenon DEF Log
<1>4. ASSUME NEW kind \in {"funcBegin", "funcEnd"}, NEW f \in Funcs,
             Start(t, [NoOp EXCEPT !.kind = kind, !.a = f]), UNCHANGED live
      PROVE  HeapInv'
  <2>1. /\ [NoOp EXCEPT !.kind = kind, !.a = f] \in Calls
        /\ [NoOp EXCEPT !.kind = kind, !.a = f].kind = kind
    BY ZenonT(30) DEF Calls, NoOp
  <2> QED
    BY <1>1, <1>4, <2>1, Kinds, Zenon
<1>5. ASSUME DepAdd(t) PROVE HeapInv'
  <2>1. PICK s \in Ids, d \in Ids :
          Start(t, [kind |-> "depAdd", a |-> s, b |-> d, id |-> 0])
    BY <1>5, SMTT(30) DEF DepAdd
  <2>2. [kind |-> "depAdd", a |-> s, b |-> d, id |-> 0] \in Calls
    BY DEF Calls
  <2> QED
    BY <1>1, <1>5, <2>1, <2>2, Kinds, SMTT(30) DEF DepAdd
<1>6. ASSUME FuncBegin(t) PROVE HeapInv'
  BY <1>4, <1>6, ZenonT(30) DEF FuncBegin
<1>7. ASSUME FuncEnd(t) PROVE HeapInv'
  BY <1>4, <1>7, Zenon DEF FuncEnd
<1> QED
  BY <1>2, <1>3, <1>5, <1>6, <1>7, HeapAllocate, HeapFree, SMTT(60), Z3T(60) DEF Request

(* Unlock of an allocation wrapper: the range is entered for the block the  *)
(* call handles.  No freeing thread handles that block.                     *)
LEMMA HeapUnlockAlloc ==
  ASSUME TypeOK, MutexInv, HeapInv, NEW t \in Threads, Unlock(t), op[t].kind \in AllocOps
  PROVE  HeapInv'
<1>1. /\ M' = Insert(M, op[t].a, op[t].b)
      /\ pc[t] = "body" /\ pc'[t] = "idle"
      /\ \A u \in Threads \ {t} : pc'[u] = pc[u]
      /\ UNCHANGED <<my_flag, live, op>>
  BY Kinds, SMTT(30) DEF Unlock, AfterM, TypeOK
<1>2. \A u \in Threads : HandlesBlock(u)' => HandlesBlock(u) /\ u # t
  BY <1>1 DEF HandlesBlock
<1>3. HandlesBlock(t)
  BY <1>1 DEF HandlesBlock
<1>4. HeapDisjoint' /\ LiveFrom'
  BY <1>1, SMTT(30) DEF HeapInv, HeapDisjoint, LiveFrom
<1>5. OneHandler'
  BY <1>1, <1>2, SMTT(60), Z3T(60) DEF HeapInv, OneHandler
<1>6. HandledLive'
  BY <1>1, <1>2, SMTT(30) DEF HeapInv, HandledLive
<1>7. \A p \in M' : p \in M \/ p = <<op[t].a, op[t].b>>
  BY <1>1, SMTT(30) DEF Insert
<1>8. RegisteredLive'
  <2>1. PICK blk \in live :
          /\ blk.base = op[t].a
          /\ blk.from = op[t].kind
          /\ op[t].kind \in FittingOps => op[t].b <= blk.base + blk.size
    BY <1>3, SMTT(60), Z3T(60) DEF HeapInv, HandledLive
  <2>2. ~my_flag => op[t].kind \in PoolOps
    BY <1>1, Kinds, SMTT(30) DEF MutexInv
  <2> QED
    BY <1>1, <1>7, <2>1, <2>2, SMTT(60), Z3T(60) DEF HeapInv, RegisteredLive
<1>9. FreeUnregistered'
  <2> SUFFICES ASSUME NEW u \in Threads, pc'[u] = "free", op'[u].kind = "free", NEW p \in M'
               PROVE  p[1] # op'[u].a
    BY DEF FreeUnregistered
  <2>1. u # t /\ pc[u] = "free" /\ op[u].kind = "free" /\ op'[u] = op[u]
    BY <1>1
  <2>2. op[u].a # op[t].a
    BY <1>3, <2>1, SMTT(30) DEF HeapInv, OneHandler, HandlesBlock
  <2>3. p \in M => p[1] # op[u].a
    BY <2>1 DEF HeapInv, FreeUnregistered
  <2> QED
    BY <1>7, <2>1, <2>2, <2>3, SMTT(30)
<1>10. \A u \in Threads : pc'[u] = "free" => op'[u].kind = "free"
  BY <1>1 DEF HeapInv
<1> QED
  BY <1>4, <1>5, <1>6, <1>8, <1>9, <1>10, SMTT(60), Z3T(60) DEF HeapInv

(* Unlock of __pmc_free: the range is gone before the block is freed. *)
LEMMA HeapUnlockFree ==
  ASSUME TypeOK, MutexInv, HeapInv, NEW t \in Threads, Unlock(t), op[t].kind = "free"
  PROVE  HeapInv'
<1>1. /\ M' = Erase(M, op[t].a)
      /\ pc[t] = "body" /\ pc'[t] = "free"
      /\ \A u \in Threads \ {t} : pc'[u] = pc[u]
      /\ UNCHANGED <<my_flag, live, op>>
  BY Kinds, SMTT(30) DEF Unlock, AfterM, TypeOK
<1>2. \A u \in Threads : HandlesBlock(u)' => HandlesBlock(u)
  BY <1>1 DEF HandlesBlock
<1>3. M' \subseteq M /\ \A p \in M' : p[1] # op[t].a
  BY <1>1 DEF Erase
<1>4. HeapDisjoint' /\ LiveFrom'
  BY <1>1, SMTT(30) DEF HeapInv, HeapDisjoint, LiveFrom
<1>5. OneHandler'
  BY <1>1, <1>2, SMTT(30) DEF HeapInv, OneHandler
<1>6. HandledLive'
  BY <1>1, <1>2, SMTT(30) DEF HeapInv, HandledLive
<1>7. RegisteredLive'
  BY <1>1, <1>3, SMTT(60), Z3T(60) DEF HeapInv, RegisteredLive
<1>8. FreeUnregistered'
  BY <1>1, <1>3, SMTT(30) DEF HeapInv, FreeUnregistered
<1>9. \A u \in Threads : pc'[u] = "free" => op'[u].kind = "free"
  BY <1>1 DEF HeapInv
<1> QED
  BY <1>4, <1>5, <1>6, <1>7, <1>8, <1>9, SMTT(60), Z3T(60) DEF HeapInv

(* free(): the block goes; no range and no other call depends on it. *)
LEMMA HeapRelease ==
  ASSUME TypeOK, MutexInv, HeapInv, NEW t \in Threads, Release(t)
  PROVE  HeapInv'
<1>1. /\ pc[t] = "free" /\ pc'[t] = "idle" /\ op[t].kind = "free"
      /\ \A u \in Threads \ {t} : pc'[u] = pc[u]
      /\ live' = {blk \in live : blk.base # op[t].a}
      /\ UNCHANGED <<my_flag, M, op>>
  BY DEF Release, TypeOK, HeapInv, tables
<1>2. HandlesBlock(t) /\ \A u \in Threads : HandlesBlock(u)' => HandlesBlock(u) /\ u # t
  BY <1>1 DEF HandlesBlock
<1>3. live' \subseteq live /\ \A x \in live : x.base # op[t].a => x \in live'
  BY <1>1, SMTT(30)
<1>4. HeapDisjoint' /\ LiveFrom'
  BY <1>1, <1>3, SMTT(30) DEF HeapInv, HeapDisjoint, LiveFrom
<1>5. OneHandler'
  BY <1>1, <1>2, SMTT(60), Z3T(60) DEF HeapInv, OneHandler
<1>6. HandledLive'
  <2>1. \A u \in Threads : HandlesBlock(u)' => op[u].a # op[t].a
    BY <1>2 DEF HeapInv, OneHandler
  <2> QED
    BY <1>1, <1>2, <1>3, <2>1, SMTT(30) DEF HeapInv, HandledLive
<1>7. RegisteredLive'
  <2>1. \A p \in M : p[1] # op[t].a
    BY <1>1 DEF HeapInv, FreeUnregistered
  <2> QED
    BY <1>1, <1>3, <2>1, SMTT(60), Z3T(60) DEF HeapInv, RegisteredLive
<1>8. FreeUnregistered'
  BY <1>1 DEF HeapInv, FreeUnregistered
<1>9. \A u \in Threads : pc'[u] = "free" => op'[u].kind = "free"
  BY <1>1, SMTT(60), Z3T(60) DEF HeapInv
<1> QED
  BY <1>4, <1>5, <1>6, <1>7, <1>8, <1>9, SMTT(60), Z3T(60) DEF HeapInv

(* What a step of a call does to the heap and the table, action by action. *)
LEMMA RunEffect ==
  ASSUME TypeOK, NEW t \in Threads, Run(t)
  PROVE  \/ Release(t)
         \/ Unlock(t)
         \/ /\ UNCHANGED <<M, live, my_flag, op>>
            /\ pc[t] # "idle" /\ pc'[t] \notin {"idle", "free"}
            /\ \A u \in Threads \ {t} : pc'[u] = pc[u]
<1>1. ASSUME NEW kinds, Lock(t, kinds), UNCHANGED M
      PROVE  /\ UNCHANGED <<M, live, my_flag, op>>
             /\ pc[t] # "idle" /\ pc'[t] \notin {"idle", "free"}
             /\ \A u \in Threads \ {t} : pc'[u] = pc[u]
  BY <1>1, SMTT(60), Z3T(60) DEF Lock, TypeOK
<1>2. CASE NextRange(t) \/ Format(t) \/ OpenFails(t) \/ Write(t)
  BY <1>2, SMTT(60), Z3T(60) DEF NextRange, Format, OpenFails, Write, TypeOK, tables
<1> QED
  BY <1>1, <1>2, Zenon
     DEF Run, LockAlloc, LockFree, LockLog, LockDummy, LockFuncBegin, LockFuncEnd,
         LockDepAdd, LockAccess, tables

(* So does every step inside a runtime function. *)
LEMMA HeapRun ==
  ASSUME TypeOK, MutexInv, HeapInv, NEW t \in Threads, Run(t)
  PROVE  HeapInv'
<1>1. CASE Release(t)
  BY <1>1, HeapRelease
<1>2. CASE Unlock(t) /\ op[t].kind \in AllocOps
  BY <1>2, HeapUnlockAlloc
<1>3. CASE Unlock(t) /\ op[t].kind = "free"
  BY <1>3, HeapUnlockFree
<1>4. CASE Unlock(t) /\ op[t].kind \notin AllocOps \cup {"free"}
  <2>1. /\ UNCHANGED <<M, live, my_flag, op>>
        /\ pc'[t] = "idle"
        /\ \A u \in Threads \ {t} : pc'[u] = pc[u]
    BY <1>4 DEF Unlock, AfterM, TypeOK
  <2>2. \A u \in Threads : HandlesBlock(u)' => HandlesBlock(u)
    BY <2>1, SMTT(30) DEF HandlesBlock
  <2> QED
    BY <2>1, <2>2, HeapQuiet, SMTT(60), Z3T(60)
<1>5. CASE /\ UNCHANGED <<M, live, my_flag, op>>
           /\ pc[t] # "idle" /\ pc'[t] \notin {"idle", "free"}
           /\ \A u \in Threads \ {t} : pc'[u] = pc[u]
  <2>1. \A u \in Threads : HandlesBlock(u)' => HandlesBlock(u)
    BY <1>5 DEF HandlesBlock
  <2> QED
    BY <1>5, <2>1, HeapQuiet, SMTT(30)
<1> QED
  BY <1>1, <1>2, <1>3, <1>4, <1>5, RunEffect, SMTT(60), Z3T(60)

(* __pmc_Initialize forgets all ranges. *)
LEMMA HeapInitialize ==
  ASSUME TypeOK, MutexInv, HeapInv, Initialize
  PROVE  HeapInv'
<1>1. M' = {} /\ my_flag' = TRUE /\ UNCHANGED <<live, op, pc>>
  BY DEF Initialize
<1>2. RegisteredLive' /\ FreeUnregistered'
  BY <1>1, SMTT(60), Z3T(60) DEF RegisteredLive, FreeUnregistered
<1>3. HeapDisjoint' /\ OneHandler' /\ HandledLive'
  BY <1>1, SMTT(60), Z3T(60)
    DEF HeapInv, HeapDisjoint, OneHandler, HandledLive, HandlesBlock
<1>4. LiveFrom'
  BY <1>1 DEF HeapInv, LiveFrom
<1> QED
  BY <1>1, <1>2, <1>3, <1>4, SMTT(30) DEF HeapInv

(* HeapInv holds in every behaviour, whatever wrappers the program calls:   *)
(* the registry and the heap differ only for blocks some call handles.      *)
THEOREM HeapInvariant == Spec => []HeapInv
<1>1. Init => HeapInv
  BY HeapInit
<1>2. TypeOK /\ MutexInv /\ HeapInv /\ [Next]_vars => HeapInv'
  <2> SUFFICES ASSUME TypeOK, MutexInv, HeapInv, [Next]_vars PROVE HeapInv'
    OBVIOUS
  <2>1. CASE UNCHANGED vars
    <3>1. UNCHANGED <<live, M, my_flag, op, pc>>
      BY <2>1 DEF vars, tables
    <3> QED
      BY <3>1, HeapQuiet DEF HandlesBlock
  <2> QED
    BY <2>1, HeapInitialize, HeapRequest, HeapRun DEF Next
<1> QED
  BY <1>1, <1>2, TypeAndMutex, PTL DEF Spec

(* If every allocation wrapper the program calls registers at most the      *)
(* block it returns, no two registered ranges overlap, so that              *)
(* __pmc_printStoreAddr and __pmc_printLoadAddr print an access once.       *)
THEOREM RegistryDisjointHolds ==
  ASSUME Ops \cap AllocOps \subseteq FittingOps
  PROVE  Spec => []RegistryDisjoint
<1>1. TypeOK /\ HeapInv => RegistryDisjoint
  <2> SUFFICES ASSUME TypeOK, HeapInv, NEW p \in M, NEW q \in M, p # q
               PROVE  p[2] <= q[1] \/ q[2] <= p[1]
    BY DEF RegistryDisjoint
  <2>1. PICK x \in live : x.base = p[1] /\ p[2] <= x.base + x.size
    BY SMTT(30) DEF HeapInv, RegisteredLive, LiveFrom, TypeOK, Blocks
  <2>2. PICK y \in live : y.base = q[1] /\ q[2] <= y.base + y.size
    BY DEF HeapInv, RegisteredLive, LiveFrom, TypeOK, Blocks
  <2>3. x # y
    BY <2>1, <2>2, SMTT(60), Z3T(60) DEF TypeOK
  <2>4. ~Overlap(x.base, x.size, y.base, y.size)
    BY <2>3 DEF HeapInv, HeapDisjoint
  <2>5. x.base \in Nat /\ x.size \in Nat /\ y.base \in Nat /\ y.size \in Nat
    BY BlockFields
  <2>6. p[2] \in Nat /\ q[2] \in Nat
    BY RangeFields
  <2> QED
    BY <2>1, <2>2, <2>4, <2>5, <2>6, SMTT(30) DEF Overlap
<1> QED
  BY <1>1, TypeAndMutex, HeapInvariant, PTL

-----------------------------------------------------------------------------
(* An access is only printed for a range of M, and M does not change until  *)
(* the access has been printed.                                             *)
LEMMA CoverStep ==
  ASSUME TypeOK, MutexInv, CoverInv, [Next]_vars
  PROVE  CoverInv'
<1>1. CASE Initialize
  <2>1. \A t \in Threads : todo'[t] = <<>>
    BY <1>1, SMTT(30) DEF Initialize, MutexInv, InFunction
  <2> QED
    BY <2>1, SMTT(30) DEF CoverInv
<1>2. ASSUME NEW t \in Threads, Request(t) PROVE CoverInv'
  <2>1. pc[t] = "idle" /\ \E o \in Calls : Start(t, o)
    BY <1>2, RequestStarts, SMTT(60), Z3T(60)
  <2>2. todo'[t] = <<>> /\ UNCHANGED <<M, todo>> /\ \A u \in Threads \ {t} : op'[u] = op[u]
    BY <2>1, ZenonT(30) DEF Start, tables, MutexInv, InFunction, TypeOK
  <2> QED
    BY <2>2, SMTT(30) DEF CoverInv, Covering
<1>3. ASSUME NEW t \in Threads, Unlock(t) PROVE CoverInv'
  <2>1. mtx = t /\ todo[t] = <<>> /\ todo' = todo
    BY <1>3, SMTT(60), Z3T(60) DEF Unlock, MutexInv, InFunction
  <2>2. \A u \in Threads : todo'[u] = <<>>
    BY <2>1, SMTT(60), Z3T(60) DEF MutexInv
  <2> QED
    BY <2>2, SMTT(60), Z3T(60) DEF CoverInv
<1>4. ASSUME NEW t \in Threads, UNCHANGED <<M, op>>,
             \A u \in Threads \ {t} : todo'[u] = todo[u],
             todo'[t] # <<>> /\ op[t].kind \in AccessOps =>
               todo[t] # <<>> \/ Covering(op[t]) # {}
      PROVE  CoverInv'
  BY <1>4, SMTT(30) DEF CoverInv, Covering
<1>5. ASSUME NEW t \in Threads, NEW kinds, Lock(t, kinds), UNCHANGED <<M, op>>, NEW lines,
             Prints(t, lines), \A k \in kinds : k \notin AccessOps
      PROVE  CoverInv'
  BY <1>4, <1>5, SMTT(60), Z3T(60) DEF Lock, Prints, TypeOK
<1>6. ASSUME NEW t \in Threads, NextRange(t) PROVE CoverInv'
  <2>1. Covering(op[t]) # {}
    BY <1>6, ZenonT(30) DEF NextRange, MutexInv
  <2>2. UNCHANGED <<M, op>> /\ \A u \in Threads \ {t} : todo'[u] = todo[u]
    BY <1>6, SMTT(30) DEF NextRange, TypeOK
  <2> QED
    BY <1>4, <2>1, <2>2, SMTT(60), Z3T(60)
<1>7. ASSUME NEW t \in Threads, Write(t) \/ OpenFails(t) PROVE CoverInv'
  <2>1. todo[t] # <<>>
    BY <1>7, SMTT(60), Z3T(60) DEF Write, OpenFails, MutexInv
  <2>2. UNCHANGED <<M, op>> /\ \A u \in Threads \ {t} : todo'[u] = todo[u]
    BY <1>7, SMTT(60), Z3T(60) DEF Write, OpenFails, tables, TypeOK
  <2> QED
    BY <1>4, <2>1, <2>2, SMTT(60), Z3T(60)
<1>8. CASE UNCHANGED <<M, op, todo>>
  BY <1>8 DEF CoverInv, Covering
<1>9. ASSUME NEW t \in Threads, Run(t) PROVE CoverInv'
  <2>1. CASE LockAlloc(t)
    BY <1>5, <2>1, Kinds, Zenon DEF LockAlloc, Lock, tables
  <2>3. CASE LockFree(t)
    BY <1>5, <2>3, Kinds, Zenon DEF LockFree, Lock, tables
  <2>4. CASE LockLog(t)
    BY <1>5, <2>4, Kinds, Zenon DEF LockLog, Lock, tables
  <2>5. CASE LockFuncBegin(t)
    BY <1>5, <2>5, Kinds, Zenon DEF LockFuncBegin, Lock
  <2>6. CASE LockFuncEnd(t)
    BY <1>5, <2>6, Kinds, ZenonT(30) DEF LockFuncEnd, Lock, tables
  <2>2. CASE LockDummy(t) \/ LockDepAdd(t) \/ LockAccess(t) \/ Format(t) \/ Release(t)
    BY <1>8, <2>2, SMTT(30) DEF LockDummy, LockDepAdd, LockAccess, Lock, Format, Release, tables
  <2> QED
    BY <1>3, <1>6, <1>7, <1>9, <2>1, <2>2, <2>3, <2>4, <2>5, <2>6, SMTT(60), Z3T(60)
      DEF Run
<1>10. CASE UNCHANGED vars
  BY <1>8, <1>10 DEF vars, tables
<1> QED
  BY <1>1, <1>2, <1>9, <1>10, SMTT(30) DEF Next

(* Under the same condition on the wrappers, the address of an access that  *)
(* is being printed lies in a block that is allocated at that moment, in    *)
(* spite of a concurrent __pmc_free: the range is erased in mtx before the  *)
(* block is freed.                                                          *)
THEOREM LoggedIsPMHolds ==
  ASSUME Ops \cap AllocOps \subseteq FittingOps
  PROVE  Spec => []LoggedIsPM
<1>1. Init => CoverInv
  BY DEF Init, CoverInv
<1>2. Spec => []CoverInv
  BY <1>1, CoverStep, TypeAndMutex, PTL DEF Spec
<1>3. TypeOK /\ HeapInv /\ CoverInv => LoggedIsPM
  <2> SUFFICES ASSUME TypeOK, HeapInv, CoverInv, NEW t \in Threads,
                      op[t].kind \in AccessOps, todo[t] # <<>>
               PROVE  \E blk \in live :
                        Contains(blk.base, blk.base + blk.size, op[t].a, op[t].b)
    BY DEF LoggedIsPM
  <2>1. PICK p \in M : Contains(p[1], p[2], op[t].a, op[t].b)
    BY DEF CoverInv, Covering
  <2>2. PICK blk \in live : blk.base = p[1] /\ p[2] <= blk.base + blk.size
    BY SMTT(30) DEF HeapInv, RegisteredLive, LiveFrom, TypeOK, Blocks
  <2>3. op[t].a \in Addrs /\ op[t].b \in 1 .. MaxSize
    BY CallFields, SMTT(60), Z3T(60) DEF TypeOK
  <2>4. /\ blk.base \in Nat /\ blk.size \in Nat /\ p[2] \in Nat
        /\ op[t].a \in Nat /\ op[t].b \in Nat
    BY <2>3, BlockFields, RangeFields, RuntimeAssumption, SMTT(60), Z3T(60) DEF Addrs
  <2>5. Contains(blk.base, blk.base + blk.size, op[t].a, op[t].b)
    BY <2>1, <2>2, <2>4, SMTT(30) DEF Contains
  <2> QED
    BY <2>5, SMTT(60), Z3T(60)
<1> QED
  BY <1>2, <1>3, TypeAndMutex, HeapInvariant, PTL

-----------------------------------------------------------------------------
(* A block of a wrapper that registers it whole stays registered until a    *)
(* call begins to free it.                                                  *)
LEMMA WholeStep ==
  ASSUME TypeOK, MutexInv, HeapInv, WholeRegistered, [Next]_vars
  PROVE  WholeRegistered'
<1>1. CASE Initialize
  <2>1. \A blk \in live' : blk.early
    BY <1>1, SMTT(60), Z3T(60) DEF Initialize, HeapInv, LiveFrom
  <2> QED
    BY <2>1, SMTT(60), Z3T(60) DEF WholeRegistered
<1>2. ASSUME NEW t \in Threads, Request(t) PROVE WholeRegistered'
  <2>1. PICK o \in Calls : Start(t, o)
    BY <1>2, RequestStarts, ZenonT(30)
  <2>2. pc[t] = "idle"
    BY <1>2, RequestStarts, ZenonT(30)
  <2>3. M' = M /\ \A u \in Threads \ {t} : pc'[u] = pc[u] /\ op'[u] = op[u]
    BY <2>1, SMTT(30) DEF Start, tables, TypeOK
  <2>4. \A blk \in live : Busy(blk) => Busy(blk)'
    BY <2>2, <2>3, SMTT(60), Z3T(60) DEF Busy
  <2>5. \A blk \in live' : blk \in live \/ blk.early \/ Busy(blk)'
    <3>1. CASE UNCHANGED live
      BY <3>1
    <3>2. ASSUME NEW kind \in AllocOps, Allocate(t, kind)
          PROVE \A blk \in live' : blk \in live \/ blk.early \/ Busy(blk)'
      <4>1. PICK b \in Addrs, n \in 1 .. MaxSize :
              /\ \E e \in RegisteredEnds(kind, b, n) :
                   Start(t, [kind |-> kind, a |-> b, b |-> e, id |-> 0])
              /\ live' = live \cup {[base |-> b, size |-> n, from |-> kind, early |-> ~my_flag]}
        BY <3>2, SMTT(60), Z3T(60) DEF Allocate
      <4> DEFINE new == [base |-> b, size |-> n, from |-> kind, early |-> ~my_flag]
      <4>2. my_flag => /\ pc'[t] = "lock" /\ op'[t].kind = kind /\ op'[t].a = b
        BY <4>1, SMTT(60), Z3T(60) DEF Start, Entry, TypeOK
      <4>3. my_flag => \A blk \in live' : blk.base = b => Busy(blk)'
        BY <4>2 DEF Busy
      <4>4. ~my_flag => new.early
        BY ZenonT(30)
      <4>5. \A blk \in live' : blk \in live \/ blk = new
        BY <4>1, Zenon
      <4>6. CASE my_flag
        BY <4>3, <4>5, <4>6, SMTT(30)
      <4>7. CASE ~my_flag
        BY <4>4, <4>5, <4>7, SMTT(60), Z3T(60)
      <4> QED
        BY <4>6, <4>7, SMTT(60), Z3T(60)
    <3> QED
      BY <1>2, <3>1, <3>2, ZenonT(30)
        DEF Request, Free, Access, Log, FuncBegin, FuncEnd, DepAdd
  <2> QED
    BY <2>3, <2>4, <2>5, SMTT(60), Z3T(60) DEF WholeRegistered
<1>3. ASSUME NEW t \in Threads, Release(t) PROVE WholeRegistered'
  <2>1. /\ pc[t] = "free" /\ op[t].kind = "free"
        /\ \A u \in Threads \ {t} : pc'[u] = pc[u]
        /\ live' = {blk \in live : blk.base # op[t].a}
        /\ UNCHANGED <<M, op>>
    BY <1>3, SMTT(30) DEF Release, TypeOK, HeapInv, tables
  <2>2. \A blk \in live' : blk \in live /\ (Busy(blk) => Busy(blk)')
    BY <2>1, SMTT(30) DEF Busy
  <2> QED
    BY <2>1, <2>2, SMTT(60), Z3T(60) DEF WholeRegistered
<1>4. ASSUME NEW t \in Threads, Unlock(t) PROVE WholeRegistered'
  <2>1. /\ pc[t] = "body" /\ (op[t].kind = "free" => pc'[t] = "free")
        /\ \A u \in Threads \ {t} : pc'[u] = pc[u]
        /\ M' = AfterM(op[t], M) /\ UNCHANGED <<live, op>>
    BY <1>4, SMTT(60), Z3T(60) DEF Unlock, TypeOK
  <2> SUFFICES ASSUME NEW blk \in live, blk.from \in WholeOps, ~blk.early, ~Busy(blk)'
               PROVE  <<blk.base, blk.base + blk.size>> \in M'
    BY <2>1, SMTT(30) DEF WholeRegistered
  <2>2. CASE op[t].kind \in AllocOps /\ op[t].a = blk.base
    <3>1. PICK x \in live :
            /\ x.base = op[t].a /\ x.from = op[t].kind
            /\ op[t].kind \in WholeOps => op[t].b = x.base + x.size
      BY <2>1, <2>2, SMTT(60), Z3T(60) DEF HeapInv, HandledLive, HandlesBlock
    <3>2. x = blk
      BY <2>2, <3>1, SameBase, SMTT(60), Z3T(60) DEF HeapInv
    <3> QED
      BY <2>1, <2>2, <3>1, <3>2, SMTT(60), Z3T(60) DEF AfterM, Insert
  <2>3. CASE op[t].kind = "free" /\ op[t].a = blk.base
    BY <2>1, <2>3, SMTT(60), Z3T(60) DEF Busy
  <2>4. CASE op[t].kind \notin AllocOps \cup {"free"} \/ op[t].a # blk.base
    <3>1. ~Busy(blk)
      BY <2>1, <2>4 DEF Busy
    <3>2. <<blk.base, blk.base + blk.size>> \in M
      BY <3>1, SMTT(30) DEF WholeRegistered
    <3> QED
      BY <2>1, <2>4, <3>2, SMTT(60), Z3T(60) DEF AfterM, Insert, Erase
  <2> QED
    BY <2>2, <2>3, <2>4, SMTT(60), Z3T(60)
<1>5. ASSUME UNCHANGED <<M, live, op>>, \A u \in Threads : pc[u] # "idle" => pc'[u] # "idle"
      PROVE  WholeRegistered'
  BY <1>5, SMTT(60), Z3T(60) DEF WholeRegistered, Busy
<1>6. ASSUME NEW t \in Threads, Run(t) PROVE WholeRegistered'
  BY <1>3, <1>4, <1>5, <1>6, RunEffect, SMTT(60), Z3T(60)
<1>7. CASE UNCHANGED vars
  BY <1>5, <1>7 DEF vars, tables
<1> QED
  BY <1>1, <1>2, <1>6, <1>7, SMTT(60), Z3T(60) DEF Next

(* If the program allocates with malloc, pmemobj_create and pmem_create     *)
(* only, every block that it owns and that was allocated after              *)
(* __pmc_Initialize is registered with its whole length: no access to it    *)
(* is missing from the trace.                                               *)
THEOREM OwnedRegisteredHolds ==
  ASSUME Ops \cap AllocOps \subseteq WholeOps
  PROVE  Spec => []OwnedRegistered
<1>1. Init => WholeRegistered
  BY DEF Init, WholeRegistered
<1>2. Spec => []WholeRegistered
  BY <1>1, WholeStep, TypeAndMutex, HeapInvariant, PTL DEF Spec
<1>3. TypeOK /\ HeapInv /\ WholeRegistered => OwnedRegistered
  <2> SUFFICES ASSUME TypeOK, HeapInv, WholeRegistered, NEW blk \in live, ~blk.early, ~Busy(blk)
               PROVE  <<blk.base, blk.base + blk.size>> \in M
    BY SMTT(30) DEF OwnedRegistered
  <2>1. blk.from \in WholeOps
    BY DEF HeapInv, LiveFrom, TypeOK, Blocks
  <2> QED
    BY <2>1 DEF WholeRegistered
<1> QED
  BY <1>2, <1>3, TypeAndMutex, HeapInvariant, PTL
=============================================================================
