-------------------------- MODULE PMCRuntimeProofs --------------------------
(***************************************************************************)
(* Proofs about the tracing runtime, for every set of threads, ids and     *)
(* functions, every address space and every choice of calls.               *)
(***************************************************************************)
EXTENDS PMCRuntime, TLAPS, FiniteSetTheorems

(* A function on an interval from 1 is a sequence. *)
LEMMA FunIsSeq ==
  ASSUME NEW S, NEW n \in Nat, NEW f \in [1 .. n -> S]
  PROVE  f \in Seq(S)
  OBVIOUS

(* The kinds of calls are pairwise different. *)
LEMMA Kinds ==
  /\ "free" \notin AllocOps /\ "free" \notin AccessOps
  /\ "free" \notin LogOps /\ "free" \notin DummyOps
  /\ \A k \in AllocOps : k \notin AccessOps /\ k \notin LogOps /\ k \notin DummyOps
  /\ \A k \in AccessOps : k \notin LogOps /\ k \notin DummyOps
  /\ \A k \in HeapOps : k \notin PoolOps
  /\ \A k \in {"none", "funcBegin", "funcEnd", "depAdd"} :
       /\ k \notin AllocOps /\ k \notin AccessOps
       /\ k \notin LogOps /\ k \notin DummyOps
BY DEF LogOps, HeapOps, PoolOps, AllocOps, AccessOps, DummyOps

(* What the fields of a call are, by its kind. *)
LEMMA CallFields ==
  ASSUME NEW o \in Calls
  PROVE  /\ o.kind \in AllocOps => o.a \in Addrs /\ o.b \in 0 .. 2 * Top
         /\ o.kind = "free" => o.a \in Addrs
         /\ o.kind \in AccessOps => o.a \in Addrs /\ o.b \in 1 .. MaxSize /\ o.id \in Ids
         /\ o.kind \in {"funcBegin", "funcEnd"} => o.a \in Funcs
         /\ o.kind = "depAdd" => o.a \in Ids /\ o.b \in Ids
BY Kinds DEF Calls

(* The end a wrapper registers is in the table's range. *)
LEMMA EndsInRange ==
  ASSUME NEW kind \in AllocOps, NEW b \in Addrs, NEW n \in 1 .. MaxSize, b + n <= Top,
         NEW e \in RegisteredEnds(kind, b, n)
  PROVE  e \in 0 .. 2 * Top
BY RuntimeAssumption DEF RegisteredEnds, Addrs, AllocOps, HeapOps, PoolOps

(* The DEP lines of an access are a sequence of lines. *)
LEMMA DepLinesType ==
  ASSUME NEW S, S \subseteq Ids, NEW q \in Ascending(S), NEW id \in Ids
  PROVE  DepLines(q, id) \in Seq(Lines)
<1>1. IsFiniteSet(S)
  BY FS_Subset, RuntimeAssumption, Zenon
<1>2. Cardinality(S) \in Nat
  BY <1>1, FS_CardinalityType
<1>3. q \in [1 .. Cardinality(S) -> S]
  BY DEF Ascending
<1>4. \A i \in 1 .. Cardinality(S) : <<"DEP", q[i], id>> \in Lines
  BY <1>3, RuntimeAssumption, Zenon DEF Lines, LineKinds
<1>5. DepLines(q, id) = [i \in 1 .. Cardinality(S) |-> <<"DEP", q[i], id>>]
  BY <1>3 DEF DepLines
<1>6. [i \in 1 .. Cardinality(S) |-> <<"DEP", q[i], id>>] \in [1 .. Cardinality(S) -> Lines]
  BY <1>4
<1>7. DepLines(q, id) \in [1 .. Cardinality(S) -> Lines]
  BY <1>5, <1>6
<1> QED
  BY <1>2, <1>7, FunIsSeq, Zenon

-----------------------------------------------------------------------------
(* TypeOK is inductive: every variable of pm.cpp keeps its type, and M one  *)
(* range per first address.                                                 *)
LEMMA TypeInit == Init => TypeOK
<1> SUFFICES ASSUME Init PROVE TypeOK
  OBVIOUS
<1>1. buffer \in Texts
  BY DEF Init, NoText, Texts, Lines, LineKinds
<1>2. op \in [Threads -> Calls]
  BY DEF Init, NoOp, Calls
<1>3. out \in Seq(Tagged) /\ todo \in [Threads -> Seq(Lines)]
  BY DEF Init
<1>4. calls \in [Threads -> Nat] /\ \A t \in Threads : calls[t] <= MaxCalls[t]
  BY RuntimeAssumption DEF Init
<1>5. /\ FUNC_STACK \in [Funcs -> Nat]
      /\ pc \in [Threads -> {"idle", "lock", "body", "write", "free"}]
      /\ left \in [Threads -> SUBSET Ranges]
  BY DEF Init
<1>6. my_flag \in BOOLEAN
  BY Zenon DEF Init
<1> QED
  BY <1>1, <1>2, <1>3, <1>4, <1>5, <1>6, SMTT(30) DEF Init, TypeOK

(* Entering a runtime function keeps the types. *)
LEMMA TypeStart ==
  ASSUME TypeOK, NEW t \in Threads, NEW o \in Calls, Start(t, o), calls[t] < MaxCalls[t],
         live' \subseteq Blocks
  PROVE  TypeOK'
<1>1. pc' \in [Threads -> {"idle", "lock", "body", "write", "free"}]
  BY DEF TypeOK, Start, Entry
<1>2. calls' \in [Threads -> Nat] /\ \A u \in Threads : calls'[u] <= MaxCalls[u]
  <2>1. calls \in [Threads -> Nat] /\ \A u \in Threads : calls[u] <= MaxCalls[u]
    BY DEF TypeOK
  <2>2. calls' = [calls EXCEPT ![t] = @ + 1] /\ MaxCalls[t] \in Nat
    BY RuntimeAssumption DEF Start
  <2> QED
    BY <2>1, <2>2
<1> QED
  BY <1>1, <1>2, SMTT(30) DEF TypeOK, Start, tables, log

(* Every request enters a well-formed call from outside the runtime. *)
LEMMA RequestStarts ==
  ASSUME TypeOK, NEW t \in Threads, Request(t)
  PROVE  /\ pc[t] = "idle" /\ calls[t] < MaxCalls[t] /\ (my_flag \/ t = Main)
         /\ \E o \in Calls : Start(t, o)
         /\ live' \subseteq Blocks
<1> DEFINE Goal == /\ pc[t] = "idle" /\ calls[t] < MaxCalls[t] /\ (my_flag \/ t = Main)
                   /\ \E o \in Calls : Start(t, o)
                   /\ live' \subseteq Blocks
<1>1. ASSUME NEW kind \in AllocOps, Allocate(t, kind) PROVE Goal
  <2>1. PICK b \in Addrs, n \in 1 .. MaxSize :
          /\ b + n <= Top
          /\ \E e \in RegisteredEnds(kind, b, n) :
               Start(t, [kind |-> kind, a |-> b, b |-> e, id |-> 0])
          /\ live' = live \cup {[base |-> b, size |-> n, from |-> kind, early |-> ~my_flag]}
    BY <1>1 DEF Allocate
  <2>2. PICK e \in RegisteredEnds(kind, b, n) :
          Start(t, [kind |-> kind, a |-> b, b |-> e, id |-> 0])
    BY <2>1
  <2>3. [kind |-> kind, a |-> b, b |-> e, id |-> 0] \in Calls
    BY <2>1, EndsInRange, SMTT(30) DEF Calls
  <2>4. n \in 1 .. Top
    BY <2>1, RuntimeAssumption, SMTT(30) DEF Addrs
  <2>5. [base |-> b, size |-> n, from |-> kind, early |-> ~my_flag] \in Blocks
    BY <2>4 DEF Blocks, TypeOK
  <2>6. live' \subseteq Blocks
    BY <2>1, <2>5 DEF TypeOK
  <2> QED
    BY <1>1, <2>2, <2>3, <2>6, SMTT(30) DEF Allocate, MayCall
<1>2. ASSUME Free(t) PROVE Goal
  <2>1. PICK blk \in live : Start(t, [kind |-> "free", a |-> blk.base, b |-> 0, id |-> 0])
    BY <1>2, SMTT(30) DEF Free
  <2>2. [kind |-> "free", a |-> blk.base, b |-> 0, id |-> 0] \in Calls
    BY DEF Calls, TypeOK, Blocks
  <2> QED
    BY <1>2, <2>1, <2>2, SMTT(30) DEF Free, MayCall, TypeOK
<1>3. ASSUME NEW kind \in AccessOps, Access(t, kind) PROVE Goal
  <2>1. PICK a \in Addrs, n \in 1 .. MaxSize, id \in Ids :
          Start(t, [kind |-> kind, a |-> a, b |-> n, id |-> id])
    BY <1>3 DEF Access
  <2>2. [kind |-> kind, a |-> a, b |-> n, id |-> id] \in Calls
    BY DEF Calls
  <2> QED
    BY <1>3, <2>1, <2>2 DEF Access, MayCall, TypeOK
<1>4. ASSUME NEW kind \in LogOps \cup DummyOps, Log(t, kind) PROVE Goal
  <2>1. [NoOp EXCEPT !.kind = kind] \in Calls
    BY DEF Calls, NoOp
  <2> QED
    BY <1>4, <2>1 DEF Log, MayCall, TypeOK
<1>5. ASSUME FuncBegin(t) PROVE Goal
  <2>1. PICK f \in Funcs : Start(t, [NoOp EXCEPT !.kind = "funcBegin", !.a = f])
    BY <1>5, Zenon DEF FuncBegin
  <2>2. [NoOp EXCEPT !.kind = "funcBegin", !.a = f] \in Calls
    BY Zenon DEF Calls, NoOp
  <2> QED
    BY <1>5, <2>1, <2>2, SMTT(60), Z3T(60) DEF FuncBegin, MayCall, TypeOK
<1>6. ASSUME FuncEnd(t) PROVE Goal
  <2>1. PICK f \in Funcs : Start(t, [NoOp EXCEPT !.kind = "funcEnd", !.a = f])
    BY <1>6, Zenon DEF FuncEnd
  <2>2. [NoOp EXCEPT !.kind = "funcEnd", !.a = f] \in Calls
    BY Zenon DEF Calls, NoOp
  <2> QED
    BY <1>6, <2>1, <2>2 DEF FuncEnd, MayCall, TypeOK
<1>7. ASSUME DepAdd(t) PROVE Goal
  <2>1. PICK s \in Ids, d \in Ids :
          Start(t, [kind |-> "depAdd", a |-> s, b |-> d, id |-> 0])
    BY <1>7, SMTT(30) DEF DepAdd
  <2>2. [kind |-> "depAdd", a |-> s, b |-> d, id |-> 0] \in Calls
    BY DEF Calls
  <2> QED
    BY <1>7, <2>1, <2>2, SMTT(30) DEF DepAdd, MayCall, TypeOK
<1> QED
  BY <1>1, <1>2, <1>3, <1>4, <1>5, <1>6, <1>7, SMTT(60), Z3T(60) DEF Request

(* The requests of the program keep the types. *)
LEMMA TypeRequest ==
  ASSUME TypeOK, NEW t \in Threads, Request(t)
  PROVE  TypeOK'
BY RequestStarts, TypeStart

(* One printed line is a sequence of lines. *)
LEMMA OneLine ==
  ASSUME NEW k \in LineKinds, NEW x \in Nat \cup Funcs, NEW y \in Nat
  PROVE  << <<k, x, y>> >> \in Seq(Lines)
<1>1. <<k, x, y>> \in Lines
  BY DEF Lines
<1> QED
  BY <1>1

(* The common part of every function's entry into its critical section. *)
LEMMA TypeLock ==
  ASSUME TypeOK, NEW t \in Threads, NEW kinds, Lock(t, kinds),
         todo' \in [Threads -> Seq(Lines)], left' \in [Threads -> SUBSET Ranges],
         UNCHANGED M, FUNC_STACK' \in [Funcs -> Nat],
         DEP' \subseteq Ids \X Ids, UNCHANGED TRACE_IDS
  PROVE  TypeOK'
<1>1. pc' \in [Threads -> {"idle", "lock", "body", "write", "free"}]
  BY DEF TypeOK, Lock
<1> QED
  BY <1>1 DEF TypeOK, Lock, log

(* The lines a call still has to print are lines. *)
LEMMA TypePrints ==
  ASSUME TypeOK, NEW t \in Threads, NEW lines \in Seq(Lines), Prints(t, lines)
  PROVE  todo' \in [Threads -> Seq(Lines)] /\ left' \in [Threads -> SUBSET Ranges]
BY DEF TypeOK, Prints

(* Write removes the line it has written, so that TypeOK needs MutexInv:    *)
(* a thread about to write owes a line.                                     *)
LEMMA TypeRun ==
  ASSUME TypeOK, MutexInv, NEW t \in Threads, Run(t)
  PROVE  TypeOK'
<1> USE DEF tables
<1>o. op[t] \in Calls
  BY DEF TypeOK
<1>1. ASSUME LockAlloc(t) PROVE TypeOK'
  <2>1. op[t].a \in Nat /\ op[t].b \in Nat
    BY <1>1, <1>o, CallFields DEF LockAlloc, Lock, Addrs
  <2>2. << <<"Adding", op[t].a, op[t].b>> >> \in Seq(Lines)
    BY <2>1, OneLine DEF LineKinds
  <2> QED
    BY <1>1, <2>2, TypeLock, TypePrints, Zenon DEF LockAlloc, TypeOK
<1>2. ASSUME LockFree(t) PROVE TypeOK'
  <2>1. op[t].a \in Nat
    BY <1>2, <1>o, CallFields DEF LockFree, Lock, Addrs
  <2>2. << <<"Adding", op[t].a, 0>> >> \in Seq(Lines)
    BY <2>1, OneLine, SMTT(60), Z3T(60) DEF LineKinds
  <2> QED
    BY <1>2, <2>2, TypeLock, TypePrints, Zenon DEF LockFree, TypeOK
<1>3. ASSUME LockLog(t) PROVE TypeOK'
  <2>1. << <<op[t].kind, 0, 0>> >> \in Seq(Lines)
    BY <1>3, OneLine DEF LockLog, Lock, LineKinds
  <2> QED
    BY <1>3, <2>1, TypeLock, TypePrints, Zenon DEF LockLog, TypeOK
<1>4. ASSUME LockDummy(t) PROVE TypeOK'
  BY <1>4, TypeLock, Zenon DEF LockDummy, TypeOK
<1>5. ASSUME LockFuncBegin(t) PROVE TypeOK'
  <2> DEFINE f == op[t].a
             n == IF FUNC_STACK[f] = 0 THEN 1 ELSE FUNC_STACK[f]
  <2>1. f \in Funcs
    BY <1>5, <1>o, CallFields DEF LockFuncBegin, Lock
  <2>2. n \in Nat
    BY <2>1 DEF TypeOK
  <2>3. << <<"FUNC_BEGIN", f, n>> >> \in Seq(Lines)
    BY <2>1, <2>2, OneLine, Zenon DEF LineKinds
  <2>4. FUNC_STACK' \in [Funcs -> Nat]
    BY <1>5, <2>1, <2>2, SMTT(30) DEF LockFuncBegin, TypeOK
  <2>5. todo' \in [Threads -> Seq(Lines)] /\ left' \in [Threads -> SUBSET Ranges]
    BY <1>5, <2>3, TypePrints, Zenon DEF LockFuncBegin
  <2> QED
    BY <1>5, <2>4, <2>5, TypeLock, ZenonT(30) DEF LockFuncBegin, TypeOK
<1>6. ASSUME LockFuncEnd(t) PROVE TypeOK'
  <2>1. op[t].a \in Funcs
    BY <1>6, <1>o, CallFields DEF LockFuncEnd, Lock
  <2>2. << <<"FUNC_END", op[t].a, FUNC_STACK[op[t].a]>> >> \in Seq(Lines)
    BY <2>1, OneLine, Zenon DEF LineKinds, TypeOK
  <2> QED
    BY <1>6, <2>2, TypeLock, TypePrints, ZenonT(30) DEF LockFuncEnd, TypeOK
<1>7. ASSUME LockDepAdd(t) PROVE TypeOK'
  <2>1. op[t].a \in Ids /\ op[t].b \in Ids
    BY <1>7, <1>o, CallFields, SMTT(60), Z3T(60) DEF LockDepAdd, Lock
  <2>2. DEP' \subseteq Ids \X Ids
    BY <1>7, <2>1, SMTT(60), Z3T(60) DEF LockDepAdd, TypeOK
  <2> QED
    BY <1>7, <2>2, TypeLock, ZenonT(30) DEF LockDepAdd, TypeOK
<1>8. ASSUME LockAccess(t) PROVE TypeOK'
  <2>1. left' \in [Threads -> SUBSET Ranges]
    BY <1>8 DEF LockAccess, TypeOK, Covering
  <2> QED
    BY <1>8, <2>1, TypeLock, Zenon DEF LockAccess, TypeOK
<1>9. ASSUME NextRange(t) PROVE TypeOK'
  <2>1. op[t].id \in Ids
    BY <1>9, <1>o, CallFields, SMTT(30) DEF NextRange, MutexInv
  <2>2. TRACE_IDS' \subseteq Ids
    BY <1>9, <2>1, SMTT(60), Z3T(60) DEF NextRange, TypeOK
  <2>3. PICK q \in Ascending(Sources(DEP, TRACE_IDS', op[t].id)) :
          todo' = [todo EXCEPT ![t] = <<AccessLine(op[t])>> \o DepLines(q, op[t].id)]
    BY <1>9, Zenon DEF NextRange
  <2>4. DepLines(q, op[t].id) \in Seq(Lines)
    <3>1. Sources(DEP, TRACE_IDS', op[t].id) \subseteq Ids
      BY <2>2 DEF Sources
    <3> QED
      BY <2>1, <3>1, DepLinesType
  <2>5. AccessLine(op[t]) \in Lines
    <3>1. op[t].kind \in AccessOps
      BY <1>9 DEF NextRange, MutexInv
    <3>2. op[t].a \in Nat /\ op[t].id \in Nat
      <4>1. op[t].a \in Addrs
        BY <1>o, <3>1, CallFields
      <4>2. op[t].id \in Nat
        BY <2>1, RuntimeAssumption, Zenon
      <4> QED
        BY <4>1, <4>2 DEF Addrs
    <3>3. op[t].kind \in LineKinds
      BY <3>1 DEF LineKinds
    <3> QED
      BY <3>2, <3>3, SMTT(30) DEF AccessLine, Lines
  <2>6. todo' \in [Threads -> Seq(Lines)]
    BY <2>3, <2>4, <2>5, SMTT(30) DEF TypeOK
  <2>7. left' \in [Threads -> SUBSET Ranges]
    BY <1>9 DEF NextRange, TypeOK
  <2> QED
    BY <1>9, <2>2, <2>6, <2>7, ZenonT(30) DEF NextRange, TypeOK, log
<1>10. ASSUME Format(t) PROVE TypeOK'
  <2>1. todo[t] \in Seq(Lines) /\ todo[t] # <<>>
    BY <1>10, SMTT(30) DEF Format, TypeOK
  <2>2. buffer' \in Texts
    BY <1>10, <2>1 DEF Format, Texts
  <2>3. pc' \in [Threads -> {"idle", "lock", "body", "write", "free"}]
    BY <1>10 DEF Format, TypeOK
  <2> QED
    BY <1>10, <2>2, <2>3, SMTT(30) DEF Format, TypeOK
<1>14. ASSUME OpenFails(t) PROVE TypeOK'
  <2>1. Tail(todo[t]) \in Seq(Lines)
    BY <1>14 DEF OpenFails, TypeOK
  <2>2. todo' \in [Threads -> Seq(Lines)]
    BY <1>14, <2>1, SMTT(60), Z3T(60) DEF OpenFails, TypeOK
  <2> QED
    BY <1>14, <2>2, SMTT(30) DEF OpenFails, TypeOK, log
<1>11. ASSUME Write(t) PROVE TypeOK'
  <2>1. todo[t] \in Seq(Lines) /\ todo[t] # <<>>
    BY <1>11 DEF Write, TypeOK, MutexInv
  <2>2. Tail(todo[t]) \in Seq(Lines)
    BY <2>1
  <2>3. todo' \in [Threads -> Seq(Lines)]
    BY <1>11, <2>2, SMTT(30) DEF Write, TypeOK
  <2>4. [text |-> buffer, tid |-> t] \in Tagged
    BY SMTT(30) DEF TypeOK, Tagged
  <2>5. out' \in Seq(Tagged)
    BY <1>11, <2>4, SMTT(30) DEF Write, TypeOK
  <2>6. pc' \in [Threads -> {"idle", "lock", "body", "write", "free"}]
    BY <1>11, SMTT(60), Z3T(60) DEF Write, TypeOK
  <2> QED
    BY <1>11, <2>3, <2>5, <2>6, SMTT(60), Z3T(60) DEF Write, TypeOK
<1>12. ASSUME Unlock(t) PROVE TypeOK'
  <2>1. M' \subseteq Ranges /\ \A p, q \in M' : p[1] = q[1] => p = q
    <3>1. CASE op[t].kind \in AllocOps
      <4>1. M' = Insert(M, op[t].a, op[t].b)
        BY <1>12, <3>1 DEF Unlock, AfterM
      <4>2. <<op[t].a, op[t].b>> \in Ranges
        BY <3>1, <1>o, CallFields, SMTT(30) DEF Ranges
      <4>3. M \subseteq Ranges /\ \A p, q \in M : p[1] = q[1] => p = q
        BY DEF TypeOK
      <4>4. \A p \in M' : (p \in M /\ p[1] # op[t].a) \/ p = <<op[t].a, op[t].b>>
        BY <4>1 DEF Insert
      <4> QED
        BY <4>2, <4>3, <4>4, SMTT(30)
    <3>2. CASE op[t].kind = "free"
      <4>1. M' = Erase(M, op[t].a)
        BY <1>12, <3>2, Kinds, SMTT(30) DEF Unlock, AfterM
      <4>2. M' \subseteq M
        BY <4>1, SMTT(30) DEF Erase
      <4> QED
        BY <4>2, SMTT(60), Z3T(60) DEF TypeOK
    <3>3. CASE op[t].kind \notin AllocOps /\ op[t].kind # "free"
      <4>1. M' = M
        BY <1>12, <3>3, SMTT(30) DEF Unlock, AfterM
      <4> QED
        BY <4>1, SMTT(30) DEF TypeOK
    <3> QED
      BY <3>1, <3>2, <3>3
  <2>2. FUNC_STACK' \in [Funcs -> Nat]
    BY <1>12, <1>o, CallFields, SMTT(60), Z3T(60) DEF Unlock, AfterFunc, TypeOK
  <2>3. pc' \in [Threads -> {"idle", "lock", "body", "write", "free"}]
    BY <1>12, SMTT(60), Z3T(60) DEF Unlock, TypeOK
  <2> QED
    BY <1>12, <2>1, <2>2, <2>3, SMTT(60), Z3T(60) DEF Unlock, TypeOK, log
<1>13. ASSUME Release(t) PROVE TypeOK'
  <2>1. pc' \in [Threads -> {"idle", "lock", "body", "write", "free"}]
    BY <1>13, SMTT(60), Z3T(60) DEF Release, TypeOK
  <2> QED
    BY <1>13, <2>1, SMTT(60), Z3T(60) DEF Release, TypeOK, log
<1> QED
  BY <1>1, <1>2, <1>3, <1>4, <1>5, <1>6, <1>7, <1>8, <1>9, <1>10,
     <1>11, <1>12, <1>13, <1>14, SMTT(60), Z3T(60) DEF Run

-----------------------------------------------------------------------------
(* Mutual exclusion.  The steps of thread t only touch t's own call, and    *)
(* whoever is inside a function holds mtx.                                  *)
LEMMA MutexInit == Init => MutexInv
<1> SUFFICES ASSUME Init PROVE MutexInv
  OBVIOUS
<1>1. \A t \in Threads : /\ pc[t] = "idle" /\ todo[t] = <<>> /\ left[t] = {}
                          /\ mtx # t
  BY RuntimeAssumption, SMTT(60), Z3T(60) DEF Init
<1> QED
  BY <1>1 DEF MutexInv, InFunction

(* __pmc_Initialize runs when no function of the runtime does. *)
LEMMA MutexInitialize ==
  ASSUME TypeOK, MutexInv, Initialize
  PROVE  MutexInv'
<1>1. \A t \in Threads : pc[t] = "idle"
  BY SMTT(30) DEF MutexInv, Initialize
<1>2. \A t \in Threads : ~InFunction(t) /\ todo[t] = <<>> /\ left[t] = {}
  BY <1>1, SMTT(60), Z3T(60) DEF MutexInv, InFunction
<1> QED
  BY <1>1, <1>2, RuntimeAssumption, SMTT(60), Z3T(60)
    DEF MutexInv, Initialize, InFunction

(* Whoever is inside a function holds mtx. *)
LEMMA MutexHolder ==
  ASSUME MutexInv, NEW t \in Threads
  PROVE  InFunction(t) <=> mtx = t
BY ZenonT(30) DEF MutexInv

(* A thread that enters a function holds nothing yet. *)
LEMMA MutexStart ==
  ASSUME TypeOK, MutexInv, NEW t \in Threads, NEW o \in Calls,
         pc[t] = "idle", my_flag \/ t = Main, Start(t, o)
  PROVE  MutexInv'
<1>1. /\ pc'[t] \in {"idle", "lock", "free"}
      /\ ~my_flag /\ pc'[t] # "idle" => o.kind \in PoolOps \cup {"free"}
      /\ ~my_flag /\ pc'[t] = "lock" => o.kind \in PoolOps
      /\ op'[t] = o
      /\ \A u \in Threads \ {t} : pc'[u] = pc[u] /\ op'[u] = op[u]
  BY DEF TypeOK, Start, Entry
<1>2. UNCHANGED <<my_flag, mtx, M, buffer, todo, left>>
  BY SMTT(30) DEF Start, tables, log
<1>3. ~InFunction(t) /\ ~InFunction(t)' /\ todo[t] = <<>> /\ left[t] = {} /\ mtx # t
  BY <1>1, SMTT(30) DEF MutexInv, InFunction
<1>4. \A u \in Threads \ {t} : InFunction(u)' = InFunction(u) /\ Covering(op[u])' = Covering(op[u])
  BY <1>1, <1>2, SMTT(60), Z3T(60) DEF InFunction, Covering
<1> QED
  BY <1>1, <1>2, <1>3, <1>4, SMTT(30) DEF MutexInv

(* Taking mtx: nobody was inside. *)
LEMMA MutexLock ==
  ASSUME TypeOK, MutexInv, NEW t \in Threads, NEW kinds, Lock(t, kinds), UNCHANGED M,
         \A u \in Threads \ {t} : todo'[u] = todo[u] /\ left'[u] = left[u],
         left'[t] # {} => op[t].kind \in AccessOps /\ left'[t] \subseteq Covering(op[t])
  PROVE  MutexInv'
<1>1. /\ pc[t] = "lock" /\ pc'[t] = "body" /\ mtx = Nobody /\ mtx' = t
      /\ \A u \in Threads \ {t} : pc'[u] = pc[u]
      /\ UNCHANGED <<my_flag, buffer, op>>
  BY SMTT(60), Z3T(60) DEF TypeOK, Lock, log
<1>2. \A u \in Threads : ~InFunction(u)
  BY <1>1, RuntimeAssumption, ZenonT(30) DEF MutexInv
<1>3. InFunction(t)' /\ \A u \in Threads \ {t} : ~InFunction(u)' /\ mtx' # u
  BY <1>1, <1>2, ZenonT(30) DEF InFunction
<1>4. \A u \in Threads : Covering(op[u])' = Covering(op[u])
  BY <1>1, SMTT(60), Z3T(60) DEF Covering
<1>5. \A u \in Threads \ {t} : pc'[u] # "write" /\ todo'[u] = <<>> /\ left'[u] = {}
  BY <1>2, <1>3, SMTT(60), Z3T(60) DEF MutexInv, InFunction
<1> QED
  BY <1>1, <1>3, <1>4, <1>5, SMTT(60), Z3T(60) DEF MutexInv

(* A step of the holder of mtx that leaves mtx, M and op alone. *)
LEMMA MutexInside ==
  ASSUME TypeOK, MutexInv, NEW t \in Threads, InFunction(t), InFunction(t)',
         \A u \in Threads \ {t} : pc'[u] = pc[u] /\ todo'[u] = todo[u] /\ left'[u] = left[u],
         UNCHANGED <<my_flag, mtx, M, op>>,
         left'[t] \subseteq left[t],
         pc'[t] = "write" => todo'[t] # <<>> /\ buffer' = [by |-> t, line |-> Head(todo'[t])]
  PROVE  MutexInv'
<1>1. mtx = t
  BY ZenonT(30) DEF MutexInv
<1>2. \A u \in Threads \ {t} : ~InFunction(u) /\ ~InFunction(u)'
  BY <1>1 DEF MutexInv, InFunction
<1>3. \A u \in Threads : Covering(op[u])' = Covering(op[u])
  BY SMTT(60), Z3T(60) DEF Covering
<1>4. \A u \in Threads \ {t} : pc'[u] # "write" /\ todo'[u] = <<>> /\ left'[u] = {}
  BY <1>2 DEF MutexInv, InFunction
<1>5. pc'[t] # "idle" /\ pc'[t] # "lock" /\ pc[t] # "idle"
  BY SMTT(60), Z3T(60) DEF InFunction
<1> QED
  BY <1>1, <1>2, <1>3, <1>4, <1>5, SMTT(60), Z3T(60) DEF MutexInv

(* The steps of a thread inside a call keep the mutual exclusion of mtx. *)
LEMMA MutexRun ==
  ASSUME TypeOK, MutexInv, NEW t \in Threads, Run(t)
  PROVE  MutexInv'
<1> USE DEF tables, log
<1>1. ASSUME NEW kinds, Lock(t, kinds), NEW lines, Prints(t, lines), UNCHANGED M
      PROVE  MutexInv'
  <2>1. \A u \in Threads \ {t} : todo'[u] = todo[u] /\ left'[u] = left[u]
    BY <1>1, SMTT(60), Z3T(60) DEF Prints, TypeOK
  <2>2. left'[t] = {}
    BY <1>1 DEF Prints, Lock, MutexInv, InFunction
  <2> QED
    BY <1>1, <2>1, <2>2, MutexLock, SMTT(30)
<1>2. ASSUME NEW kinds, Lock(t, kinds), UNCHANGED <<todo, left, M>>
      PROVE  MutexInv'
  <2>1. left'[t] = {}
    BY <1>2, SMTT(60), Z3T(60) DEF Lock, MutexInv, InFunction
  <2> QED
    BY <1>2, <2>1, MutexLock, SMTT(60), Z3T(60)
<1>3. CASE LockAccess(t)
  <2>1. /\ \A u \in Threads \ {t} : left'[u] = left[u]
        /\ left'[t] = Covering(op[t])
    BY <1>3, SMTT(60), Z3T(60) DEF LockAccess, TypeOK
  <2> QED
    BY <1>3, <2>1, MutexLock, ZenonT(30) DEF LockAccess, Lock
<1>4. CASE NextRange(t)
  <2>1. /\ pc[t] = "body" /\ pc' = pc /\ UNCHANGED <<my_flag, mtx, M, op>>
        /\ \A u \in Threads \ {t} : todo'[u] = todo[u] /\ left'[u] = left[u]
        /\ left'[t] \subseteq left[t]
    BY <1>4, SMTT(60), Z3T(60) DEF NextRange, TypeOK
  <2> QED
    BY <2>1, MutexInside DEF InFunction
<1>5. CASE Format(t)
  <2>1. /\ pc[t] = "body" /\ pc'[t] = "write"
        /\ \A u \in Threads \ {t} : pc'[u] = pc[u]
        /\ UNCHANGED <<my_flag, mtx, M, op, todo, left>>
        /\ todo[t] # <<>> /\ buffer' = [by |-> t, line |-> Head(todo[t])]
    BY <1>5, SMTT(60), Z3T(60) DEF Format, TypeOK
  <2> QED
    BY <2>1, MutexInside, SMTT(60), Z3T(60) DEF InFunction
<1>9. CASE OpenFails(t)
  <2>1. /\ pc[t] = "body" /\ pc' = pc
        /\ \A u \in Threads \ {t} : todo'[u] = todo[u]
        /\ UNCHANGED <<my_flag, mtx, M, op, left>>
    BY <1>9, SMTT(60), Z3T(60) DEF OpenFails, TypeOK
  <2> QED
    BY <2>1, MutexInside DEF InFunction
<1>6. CASE Write(t)
  <2>1. /\ pc[t] = "write" /\ pc'[t] = "body"
        /\ \A u \in Threads \ {t} : pc'[u] = pc[u] /\ todo'[u] = todo[u]
        /\ UNCHANGED <<my_flag, mtx, M, op, left>>
    BY <1>6, SMTT(60), Z3T(60) DEF Write, TypeOK
  <2> QED
    BY <2>1, MutexInside, SMTT(60), Z3T(60) DEF InFunction
<1>7. CASE Unlock(t)
  <2>1. /\ pc[t] = "body" /\ pc'[t] \in {"free", "idle"} /\ mtx' = Nobody
        /\ pc'[t] = "free" => op[t].kind = "free"
        /\ \A u \in Threads \ {t} : pc'[u] = pc[u]
        /\ todo[t] = <<>> /\ left[t] = {}
        /\ UNCHANGED <<my_flag, op, todo, left>>
    BY <1>7, SMTT(60), Z3T(60) DEF Unlock, TypeOK
  <2>2. mtx = t
    <3>1. InFunction(t)
      BY <2>1, SMTT(60), Z3T(60) DEF InFunction
    <3> QED
      BY <3>1, MutexHolder, Zenon
  <2>3. \A u \in Threads : /\ ~InFunction(u)' /\ mtx' # u /\ pc'[u] # "write"
                            /\ todo'[u] = <<>> /\ left'[u] = {}
    BY <2>1, <2>2, RuntimeAssumption, SMTT(60), Z3T(60) DEF MutexInv, InFunction
  <2> QED
    BY <2>1, <2>2, <2>3, ZenonT(30) DEF MutexInv, InFunction
<1>8. CASE Release(t)
  <2>1. /\ pc[t] = "free" /\ pc'[t] = "idle"
        /\ \A u \in Threads \ {t} : pc'[u] = pc[u]
        /\ UNCHANGED <<my_flag, mtx, M, buffer, op, todo, left>>
    BY <1>8, ZenonT(30) DEF Release, TypeOK
  <2>2. \A u \in Threads : InFunction(u)' = InFunction(u) /\ Covering(op[u])' = Covering(op[u])
    BY <2>1, SMTT(30) DEF InFunction, Covering
  <2> QED
    BY <2>1, <2>2, ZenonT(30) DEF MutexInv
<1> QED
  BY <1>1, <1>2, <1>3, <1>4, <1>5, <1>6, <1>7, <1>8, <1>9, ZenonT(30)
    DEF Run, LockAlloc, LockFree, LockLog, LockDummy, LockFuncBegin, LockFuncEnd,
         LockDepAdd

(* The requests of the program keep the mutex invariant. *)
LEMMA MutexRequest ==
  ASSUME TypeOK, MutexInv, NEW t \in Threads, Request(t)
  PROVE  MutexInv'
BY RequestStarts, MutexStart, SMTT(60), Z3T(60)

-----------------------------------------------------------------------------
(* __pmc_Initialize resets the tables to values of their types. *)
LEMMA TypeInitialize ==
  ASSUME TypeOK, Initialize
  PROVE  TypeOK'
<1>1. FUNC_STACK' \in [Funcs -> Nat]
  BY DEF Initialize
<1>2. my_flag' \in BOOLEAN
  BY DEF Initialize
<1> QED
  BY <1>1, <1>2 DEF TypeOK, Initialize, log

(* A step that changes nothing keeps both invariants. *)
LEMMA StutterInv ==
  ASSUME TypeOK, MutexInv, UNCHANGED vars
  PROVE  TypeOK' /\ MutexInv'
<1>1. TypeOK'
  BY SMTT(60), Z3T(60) DEF TypeOK, vars, tables, log
<1>2. MutexInv'
  BY DEF MutexInv, InFunction, Covering, vars, tables, log
<1> QED
  BY <1>1, <1>2, SMTT(60), Z3T(60)

(* The conjunction of both is inductive. *)
THEOREM TypeAndMutex == Spec => [](TypeOK /\ MutexInv)
<1>1. Init => TypeOK /\ MutexInv
  BY TypeInit, MutexInit
<1>2. TypeOK /\ MutexInv /\ [Next]_vars => (TypeOK /\ MutexInv)'
  <2> SUFFICES ASSUME TypeOK, MutexInv, [Next]_vars PROVE TypeOK' /\ MutexInv'
    OBVIOUS
  <2>1. CASE Initialize
    BY <2>1, TypeInitialize, MutexInitialize
  <2>2. ASSUME NEW t \in Threads, Request(t) PROVE TypeOK' /\ MutexInv'
    BY <2>2, TypeRequest, MutexRequest
  <2>3. ASSUME NEW t \in Threads, Run(t) PROVE TypeOK' /\ MutexInv'
    BY <2>3, TypeRun, MutexRun
  <2>4. CASE UNCHANGED vars
    BY <2>4, StutterInv
  <2> QED
    BY <2>1, <2>2, <2>3, <2>4, SMTT(30) DEF Next
<1> QED
  BY <1>1, <1>2, PTL DEF Spec

(* The variables of the runtime keep their types in every behaviour. *)
THEOREM TypeCorrect == Spec => []TypeOK
<1>1. TypeOK /\ MutexInv => TypeOK
  OBVIOUS
<1> QED
  BY <1>1, TypeAndMutex, PTL

(* Whatever the number of threads and their interleaving, a line of         *)
(* output.txt carries the tag of the thread that composed it, although      *)
(* my_printf composes in one step and writes in another through a static    *)
(* buffer: out grows only by Write, in mtx.                                 *)
THEOREM LineIntegrityHolds == Spec => []LineIntegrity
<1>1. Init => LineIntegrity
  BY DEF Init, LineIntegrity
<1>2. TypeOK /\ MutexInv /\ LineIntegrity /\ [Next]_vars => LineIntegrity'
  <2> SUFFICES ASSUME TypeOK, MutexInv, LineIntegrity, [Next]_vars PROVE LineIntegrity'
    BY SMTT(30)
  <2>1. ASSUME NEW t \in Threads, Write(t) PROVE LineIntegrity'
    <3>1. buffer.by = t
      BY <2>1, SMTT(30) DEF Write, MutexInv
    <3>2. out \in Seq(Tagged) /\ out' = Append(out, [text |-> buffer, tid |-> t])
      BY <2>1, SMTT(60), Z3T(60) DEF Write, TypeOK
    <3>3. \A i \in DOMAIN out' : /\ i \in DOMAIN out => out'[i] = out[i]
                                 /\ i \notin DOMAIN out => out'[i] = [text |-> buffer, tid |-> t]
      BY <3>2
    <3> QED
      BY <3>1, <3>3, SMTT(60), Z3T(60) DEF LineIntegrity
  <2>2. CASE UNCHANGED out
    BY <2>2 DEF LineIntegrity
  <2>3. CASE Initialize
    BY <2>2, <2>3 DEF Initialize, log
  <2>4. ASSUME NEW t \in Threads, Request(t) PROVE UNCHANGED out
    BY <2>4, RequestStarts, SMTT(60), Z3T(60) DEF Start, log
  <2>5. ASSUME NEW t \in Threads, Run(t) PROVE Write(t) \/ UNCHANGED out
    BY <2>5, Zenon
      DEF Run, LockAlloc, LockFree, LockLog, LockDummy, LockFuncBegin, LockFuncEnd,
                LockDepAdd, LockAccess, Lock, NextRange, Format, OpenFails, Unlock, Release, log
  <2>6. CASE UNCHANGED vars
    BY <2>2, <2>6 DEF vars, log
  <2> QED
    BY <2>1, <2>2, <2>3, <2>4, <2>5, <2>6, SMTT(60), Z3T(60) DEF Next
<1> QED
  BY <1>1, <1>2, TypeAndMutex, PTL DEF Spec
=============================================================================
