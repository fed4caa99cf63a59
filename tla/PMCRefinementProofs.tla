------------------------- MODULE PMCRefinementProofs -------------------------
(***************************************************************************)
(* The tracing runtime implements AtomicTrace, for every set of threads,   *)
(* ids and functions and every choice of calls, as long as output.txt can  *)
(* be opened; the soundness of the log follows from the one of AtomicTrace. *)
(***************************************************************************)
EXTENDS PMCRuntimeProofs

(* A sequence is a function on an interval from 1. *)
LEMMA SeqIsFun ==
  ASSUME NEW S, NEW s \in Seq(S)
  PROVE  Len(s) \in Nat /\ s \in [1 .. Len(s) -> S] /\ DOMAIN s = 1 .. Len(s)
  OBVIOUS

(* Two sequences in a row. *)
LEMMA ConcatIs ==
  ASSUME NEW S, NEW a \in Seq(S), NEW b \in Seq(S)
  PROVE  /\ a \o b \in Seq(S) /\ Len(a \o b) = Len(a) + Len(b)
         /\ \A i \in 1 .. Len(a) + Len(b) :
              (a \o b)[i] = IF i <= Len(a) THEN a[i] ELSE b[i - Len(a)]
  OBVIOUS

(* Nothing after a sequence. *)
LEMMA ConcatNone ==
  ASSUME NEW S, NEW s \in Seq(S)
  PROVE  s \o <<>> = s
  OBVIOUS

(* Three sequences in a row. *)
LEMMA ConcatThree ==
  ASSUME NEW S, NEW a \in Seq(S), NEW b \in Seq(S), NEW c \in Seq(S)
  PROVE  (a \o b) \o c = a \o (b \o c)
  OBVIOUS

(* The first element of a sequence and the others. *)
LEMMA HeadAndTail ==
  ASSUME NEW S, NEW s \in Seq(S), s # <<>>
  PROVE  /\ Head(s) \in S /\ Tail(s) \in Seq(S) /\ Len(Tail(s)) = Len(s) - 1
         /\ \A i \in 1 .. Len(Tail(s)) : Tail(s)[i] = s[i + 1]
  OBVIOUS

(* Appending is adding a sequence of one element. *)
LEMMA AppendOne ==
  ASSUME NEW S, NEW s \in Seq(S), NEW e \in S
  PROVE  Append(s, e) = s \o <<e>>
  OBVIOUS


-----------------------------------------------------------------------------
(* The refinement mapping.  With mtx free nothing is owed. *)
LEMMA FreeBar ==
  ASSUME TypeOK, mtx = Nobody
  PROVE  registryBar = M /\ countBar = FUNC_STACK /\ entriesBar = out
  <1>1. Owed = <<>> /\ out \in Seq(Tagged)
    BY DEF Owed, TypeOK
  <1>2. out \o <<>> = out
    BY <1>1, ConcatNone
  <1> QED
    BY <1>1, <1>2 DEF registryBar, countBar, entriesBar

(* The holder of mtx owes the lines of todo and its late update. *)
LEMMA HeldBar ==
  ASSUME NEW t \in Threads, mtx = t
  PROVE  /\ registryBar = AfterM(op[t], M) /\ countBar = AfterFunc(op[t], FUNC_STACK)
         /\ entriesBar = out \o Atomic!Entries(t, todo[t])
  <1>1. mtx # Nobody
    BY RuntimeAssumption
  <1>2. Owed = Atomic!Entries(t, todo[t])
    BY <1>1 DEF Owed, Atomic!Entries, Atomic!Entry
  <1> QED
    BY <1>1, <1>2, Zenon DEF registryBar, countBar, entriesBar

(* The same, of the state after a step. *)
LEMMA HeldBarNext ==
  ASSUME NEW t \in Threads, mtx' = t
  PROVE  /\ registryBar' = AfterM(op'[t], M') /\ countBar' = AfterFunc(op'[t], FUNC_STACK')
         /\ entriesBar' = out' \o Atomic!Entries(t, todo'[t])
  <1>1. mtx' # Nobody
    BY RuntimeAssumption
  <1>2. Owed' = Atomic!Entries(t, todo'[t])
    BY <1>1 DEF Owed, Atomic!Entries, Atomic!Entry
  <1> QED
    BY <1>1, <1>2, Zenon DEF registryBar, countBar, entriesBar, AfterM, AfterFunc, Insert, Erase

(* Releasing mtx settles what was owed. *)
LEMMA FreeBarNext ==
  ASSUME TypeOK', mtx' = Nobody
  PROVE  registryBar' = M' /\ countBar' = FUNC_STACK' /\ entriesBar' = out'
  <1>1. Owed' = <<>> /\ out' \in Seq(Tagged)
    BY DEF Owed, TypeOK
  <1>2. out' \o <<>> = out'
    BY <1>1, ConcatNone
  <1> QED
    BY <1>1, <1>2 DEF registryBar, countBar, entriesBar

(* No lines, no entries. *)
LEMMA NoEntries ==
  ASSUME TypeOK, NEW t
  PROVE  out \o Atomic!Entries(t, <<>>) = out
  <1>1. Atomic!Entries(t, <<>>) = <<>>
    BY DEF Atomic!Entries
  <1>2. out \in Seq(Tagged)
    BY DEF TypeOK
  <1> QED
    BY <1>1, <1>2, ConcatNone

(* Taking mtx: the call's lines are appended, its updates made. *)
LEMMA LockBar ==
  ASSUME TypeOK, NEW t \in Threads, NEW kinds, Lock(t, kinds), NEW lines, todo'[t] = lines
  PROVE  /\ registryBar = M /\ registryBar' = AfterM(op[t], M')
         /\ countBar = FUNC_STACK /\ countBar' = AfterFunc(op[t], FUNC_STACK')
         /\ entriesBar = out /\ entriesBar' = out \o Atomic!Entries(t, lines)
         /\ Atomic!Extend(t, lines)
         /\ op[t].kind \in kinds /\ op[t] \in Calls /\ pc[t] = "lock" /\ UNCHANGED my_flag
  <1>1. /\ mtx = Nobody /\ mtx' = t /\ op' = op /\ out' = out /\ UNCHANGED my_flag
        /\ op[t].kind \in kinds /\ op[t] \in Calls /\ pc[t] = "lock"
    BY DEF Lock, log, TypeOK
  <1>2. registryBar = M /\ countBar = FUNC_STACK /\ entriesBar = out
    BY <1>1, FreeBar, SMTT(30), Z3T(30)
  <1>3. /\ registryBar' = AfterM(op[t], M') /\ countBar' = AfterFunc(op[t], FUNC_STACK')
        /\ entriesBar' = out \o Atomic!Entries(t, lines)
    BY <1>1, HeldBarNext, Zenon
  <1> QED
    BY <1>1, <1>2, <1>3, SMTT(30), Z3T(30) DEF Atomic!Extend

(* Before Initialize only a pool wrapper waits for mtx. *)
LEMMA LockReady ==
  ASSUME MutexInv, NEW t \in Threads, pc[t] = "lock", op[t].kind \notin PoolOps
  PROVE  my_flag
  BY DEF MutexInv
-----------------------------------------------------------------------------
(* Every step of the runtime is a step of AtomicTrace or changes nothing   *)
(* there.  First, the functions take effect when they lock mtx.            *)
LEMMA AllocRefines ==
  ASSUME TypeOK, NEW t \in Threads, LockAlloc(t)
  PROVE  \E b \in Addrs, e \in 0 .. 2 * Top : Atomic!Register(t, b, e)
  <1>1. PICK b, e : b = op[t].a /\ e = op[t].b
    OBVIOUS
  <1>2. Lock(t, AllocOps) /\ todo'[t] = << <<"Adding", b, e>> >> /\ UNCHANGED tables
    BY <1>1 DEF LockAlloc, Prints, TypeOK
  <1>3. /\ registryBar = M /\ registryBar' = AfterM(op[t], M')
        /\ countBar = FUNC_STACK /\ countBar' = AfterFunc(op[t], FUNC_STACK')
        /\ Atomic!Extend(t, << <<"Adding", b, e>> >>)
        /\ op[t].kind \in AllocOps /\ op[t] \in Calls /\ UNCHANGED my_flag
    BY <1>2, LockBar, Zenon
  <1>4. b \in Addrs /\ e \in 0 .. 2 * Top /\ op[t].kind # "funcEnd"
    BY <1>1, <1>3, CallFields, Kinds, SMTT(30), Z3T(30)
  <1>5. registryBar' = {p \in registryBar : p[1] # b} \cup {<<b, e>>}
    BY <1>1, <1>2, <1>3, SMTT(30), Z3T(30) DEF AfterM, Insert, tables
  <1>6. UNCHANGED <<countBar, DEP, TRACE_IDS>>
    BY <1>2, <1>3, <1>4 DEF AfterFunc, tables
  <1>7. Atomic!Register(t, b, e)
    BY <1>3, <1>5, <1>6, SMTT(30), Z3T(30) DEF Atomic!Register
  <1> QED
    BY <1>4, <1>7

(* __pmc_free announces the block with end 0 and erases its range. *)
LEMMA FreeRefines ==
  ASSUME TypeOK, MutexInv, NEW t \in Threads, LockFree(t)
  PROVE  \E b \in Addrs : Atomic!Unregister(t, b)
  <1>1. PICK b : b = op[t].a
    OBVIOUS
  <1>2. Lock(t, {"free"}) /\ todo'[t] = << <<"Adding", b, 0>> >> /\ UNCHANGED tables
    BY <1>1 DEF LockFree, Prints, TypeOK
  <1>3. /\ registryBar = M /\ registryBar' = AfterM(op[t], M')
        /\ countBar = FUNC_STACK /\ countBar' = AfterFunc(op[t], FUNC_STACK')
        /\ Atomic!Extend(t, << <<"Adding", b, 0>> >>)
        /\ op[t].kind \in {"free"} /\ op[t] \in Calls /\ UNCHANGED my_flag /\ pc[t] = "lock"
    BY <1>2, LockBar, Zenon
  <1>4. b \in Addrs /\ my_flag
    BY <1>1, <1>3, CallFields, LockReady, SMTT(30), Z3T(30) DEF PoolOps
  <1>5. registryBar' = {p \in registryBar : p[1] # b}
    BY <1>1, <1>2, <1>3, Kinds, SMTT(30), Z3T(30) DEF AfterM, Erase, tables
  <1>6. UNCHANGED <<countBar, DEP, TRACE_IDS>>
    BY <1>2, <1>3 DEF AfterFunc, tables
  <1>7. Atomic!Unregister(t, b)
    BY <1>3, <1>4, <1>5, <1>6, SMTT(30), Z3T(30) DEF Atomic!Unregister
  <1> QED
    BY <1>4, <1>7, SMTT(30), Z3T(30)

(* A function that prints one line and changes no table. *)
LEMMA LogRefines ==
  ASSUME TypeOK, MutexInv, NEW t \in Threads, LockLog(t)
  PROVE  \E kind \in LogOps : Atomic!Plain(t, kind)
  <1>1. PICK kind : kind = op[t].kind
    OBVIOUS
  <1>2. Lock(t, LogOps) /\ todo'[t] = << <<kind, 0, 0>> >> /\ UNCHANGED tables
    BY <1>1 DEF LockLog, Prints, TypeOK
  <1>3. /\ registryBar = M /\ registryBar' = AfterM(op[t], M')
        /\ countBar = FUNC_STACK /\ countBar' = AfterFunc(op[t], FUNC_STACK')
        /\ Atomic!Extend(t, << <<kind, 0, 0>> >>)
        /\ op[t].kind \in LogOps /\ UNCHANGED my_flag /\ pc[t] = "lock"
    BY <1>2, LockBar, Zenon
  <1>4. /\ kind \in LogOps /\ op[t].kind \notin AllocOps
        /\ op[t].kind # "free" /\ op[t].kind # "funcEnd"
    BY <1>1, <1>3, Kinds, SMTT(30), Z3T(30)
  <1>5. my_flag
    BY <1>3, <1>4, LockReady, SMTT(30), Z3T(30) DEF AllocOps
  <1>6. UNCHANGED <<registryBar, countBar, DEP, TRACE_IDS>>
    BY <1>2, <1>3, <1>4, SMTT(30), Z3T(30) DEF AfterM, AfterFunc, tables
  <1>7. Atomic!Plain(t, kind)
    BY <1>3, <1>5, <1>6 DEF Atomic!Plain
  <1> QED
    BY <1>4, <1>7

(* __pmc_printFunctionBegin: the counter is set before its line is printed. *)
LEMMA FuncBeginRefines ==
  ASSUME TypeOK, MutexInv, NEW t \in Threads, LockFuncBegin(t)
  PROVE  \E f \in Funcs : Atomic!Begin(t, f)
  <1>1. PICK f : f = op[t].a
    OBVIOUS
  <1>2. PICK n : n = IF FUNC_STACK[f] = 0 THEN 1 ELSE FUNC_STACK[f]
    OBVIOUS
  <1>3. /\ Lock(t, {"funcBegin"}) /\ todo'[t] = << <<"FUNC_BEGIN", f, n>> >>
        /\ FUNC_STACK' = [FUNC_STACK EXCEPT ![f] = n] /\ UNCHANGED <<M, DEP, TRACE_IDS>>
    BY <1>1, <1>2 DEF LockFuncBegin, Prints, TypeOK
  <1>4. /\ registryBar = M /\ registryBar' = AfterM(op[t], M')
        /\ countBar = FUNC_STACK /\ countBar' = AfterFunc(op[t], FUNC_STACK')
        /\ Atomic!Extend(t, << <<"FUNC_BEGIN", f, n>> >>)
        /\ op[t].kind \in {"funcBegin"} /\ op[t] \in Calls /\ UNCHANGED my_flag /\ pc[t] = "lock"
    BY <1>3, LockBar, Zenon
  <1>5. /\ f \in Funcs /\ op[t].kind \notin AllocOps
        /\ op[t].kind # "free" /\ op[t].kind # "funcEnd"
    BY <1>1, <1>4, CallFields, Kinds, SMTT(30), Z3T(30)
  <1>6. my_flag
    BY <1>4, <1>5, LockReady DEF AllocOps
  <1>7. UNCHANGED registryBar /\ countBar' = [countBar EXCEPT ![f] = n]
    BY <1>3, <1>4, <1>5, SMTT(30), Z3T(30) DEF AfterM, AfterFunc
  <1>8. n = countBar'[f] /\ countBar' = [countBar EXCEPT ![f] = IF @ = 0 THEN 1 ELSE @]
    <2>1. FUNC_STACK \in [Funcs -> Nat]
      BY DEF TypeOK
    <2> QED
      BY <1>2, <1>4, <1>5, <1>7, <2>1, SMTT(30), Z3T(30)
  <1>9. Atomic!Extend(t, << <<"FUNC_BEGIN", f, countBar'[f]>> >>)
    BY <1>4, <1>8, Zenon
  <1>10. Atomic!Begin(t, f)
    BY <1>3, <1>4, <1>6, <1>7, <1>8, <1>9, Zenon DEF Atomic!Begin
  <1> QED
    BY <1>5, <1>10

(* __pmc_printFunctionEnd prints the counter and owes its increment. *)
LEMMA FuncEndRefines ==
  ASSUME TypeOK, MutexInv, EndsBegun, NEW t \in Threads, LockFuncEnd(t)
  PROVE  \E f \in Funcs : Atomic!End(t, f)
  <1>1. PICK f : f = op[t].a
    OBVIOUS
  <1>2. PICK n : n = FUNC_STACK[f]
    OBVIOUS
  <1>3. /\ Lock(t, {"funcEnd"}) /\ todo'[t] = << <<"FUNC_END", f, n>> >> /\ UNCHANGED tables
    BY <1>1, <1>2 DEF LockFuncEnd, Prints, TypeOK
  <1>4. /\ registryBar = M /\ registryBar' = AfterM(op[t], M')
        /\ countBar = FUNC_STACK /\ countBar' = AfterFunc(op[t], FUNC_STACK')
        /\ Atomic!Extend(t, << <<"FUNC_END", f, n>> >>)
        /\ op[t].kind \in {"funcEnd"} /\ op[t] \in Calls /\ UNCHANGED my_flag /\ pc[t] = "lock"
    BY <1>3, LockBar, Zenon
  <1>5. f \in Funcs /\ op[t].kind \notin AllocOps /\ op[t].kind # "free"
    BY <1>1, <1>4, CallFields, Kinds, SMTT(30), Z3T(30)
  <1>6. my_flag /\ countBar[f] # 0
    BY <1>1, <1>4, <1>5, LockReady, SMTT(30), Z3T(30) DEF AllocOps, EndsBegun
  <1>7. /\ UNCHANGED <<registryBar, DEP, TRACE_IDS>>
        /\ countBar' = [countBar EXCEPT ![f] = @ + 1]
    BY <1>1, <1>3, <1>4, <1>5, SMTT(30), Z3T(30) DEF AfterM, AfterFunc, tables
  <1>8. Atomic!Extend(t, << <<"FUNC_END", f, countBar[f]>> >>)
    BY <1>2, <1>4, Zenon
  <1>9. Atomic!End(t, f)
    BY <1>4, <1>6, <1>7, <1>8, Zenon DEF Atomic!End
  <1> QED
    BY <1>5, <1>9
(* A dependence is registered in one step. *)
LEMMA DepAddRefines ==
  ASSUME TypeOK, MutexInv, NEW t \in Threads, LockDepAdd(t)
  PROVE  \E s, d \in Ids : Atomic!Depend(s, d)
  <1>1. PICK s, d : s = op[t].a /\ d = op[t].b
    OBVIOUS
  <1>2. /\ Lock(t, {"depAdd"}) /\ DEP' = DEP \cup {<<s, d>>}
        /\ UNCHANGED <<todo, left, M, FUNC_STACK, TRACE_IDS>>
    BY <1>1, SMTT(30), Z3T(30) DEF LockDepAdd
  <1>3. todo'[t] = <<>>
    BY <1>2 DEF MutexInv, InFunction, Lock
  <1>4. /\ registryBar = M /\ registryBar' = AfterM(op[t], M')
        /\ countBar = FUNC_STACK /\ countBar' = AfterFunc(op[t], FUNC_STACK')
        /\ entriesBar = out /\ entriesBar' = out \o Atomic!Entries(t, <<>>)
        /\ op[t].kind \in {"depAdd"} /\ op[t] \in Calls /\ UNCHANGED my_flag /\ pc[t] = "lock"
    BY <1>2, <1>3, LockBar, Zenon
  <1>5. /\ s \in Ids /\ d \in Ids /\ op[t].kind \notin AllocOps
        /\ op[t].kind # "free" /\ op[t].kind # "funcEnd"
    BY <1>1, <1>4, CallFields, Kinds, SMTT(30), Z3T(30)
  <1>6. my_flag
    BY <1>4, <1>5, LockReady, SMTT(30), Z3T(30) DEF AllocOps
  <1>7. UNCHANGED <<registryBar, countBar>>
    BY <1>2, <1>4, <1>5, SMTT(30), Z3T(30) DEF AfterM, AfterFunc
  <1>8. UNCHANGED entriesBar
    BY <1>4, NoEntries, SMTT(30), Z3T(30)
  <1>9. Atomic!Depend(s, d)
    BY <1>2, <1>4, <1>6, <1>7, <1>8, SMTT(30), Z3T(30) DEF Atomic!Depend
  <1> QED
    BY <1>5, <1>9

(* Taking mtx without printing, or to look for ranges, shows nothing. *)
LEMMA LockQuiet ==
  ASSUME TypeOK, MutexInv, NEW t \in Threads, LockDummy(t) \/ LockAccess(t)
  PROVE  UNCHANGED Atomic!avars
  <1>1. PICK kinds : Lock(t, kinds) /\ kinds \in {DummyOps, AccessOps} /\ UNCHANGED <<todo, tables>>
    BY DEF LockDummy, LockAccess
  <1>2. todo'[t] = <<>>
    BY <1>1 DEF MutexInv, InFunction, Lock
  <1>3. /\ registryBar = M /\ registryBar' = AfterM(op[t], M')
        /\ countBar = FUNC_STACK /\ countBar' = AfterFunc(op[t], FUNC_STACK')
        /\ entriesBar = out /\ entriesBar' = out \o Atomic!Entries(t, <<>>)
        /\ op[t].kind \in kinds /\ UNCHANGED my_flag
    BY <1>1, <1>2, LockBar, Zenon
  <1>4. op[t].kind \notin AllocOps /\ op[t].kind # "free" /\ op[t].kind # "funcEnd"
    BY <1>1, <1>3, Kinds, SMTT(30), Z3T(30)
  <1>5. UNCHANGED <<registryBar, countBar, DEP, TRACE_IDS>>
    BY <1>1, <1>3, <1>4, SMTT(30), Z3T(30) DEF AfterM, AfterFunc, tables
  <1>6. UNCHANGED entriesBar
    BY <1>3, NoEntries, SMTT(30), Z3T(30)
  <1> QED
    BY <1>3, <1>5, <1>6 DEF Atomic!avars
(* One iteration of the loop over M: the access line and its DEP lines are *)
(* owed in the order in which they will be written.                        *)
LEMMA RangeRefines ==
  ASSUME TypeOK, MutexInv, NEW t \in Threads, NextRange(t)
  PROVE  \E kind \in {"Store", "Load"}, a \in Addrs, n \in 1 .. MaxSize, id \in Ids :
           Atomic!Record(t, kind, a, n, id)
  <1>1. PICK kind, a, n, id : kind = op[t].kind /\ a = op[t].a /\ n = op[t].b /\ id = op[t].id
    BY Zenon
  <1>2. /\ pc[t] = "body" /\ todo[t] = <<>> /\ left[t] # {}
        /\ UNCHANGED <<my_flag, mtx, M, FUNC_STACK, DEP, out, op>>
        /\ TRACE_IDS' = TRACE_IDS \cup {id}
    BY <1>1 DEF NextRange, log
  <1>3. mtx = t /\ mtx' = t
    BY <1>2, MutexHolder, SMTT(30), Z3T(30) DEF InFunction
  <1>4. op[t].kind \in AccessOps /\ left[t] \subseteq Covering(op[t]) /\ op[t] \in Calls
    BY <1>2, SMTT(30), Z3T(30) DEF MutexInv, TypeOK
  <1>5. /\ op[t].kind \notin AllocOps /\ op[t].kind # "free" /\ op[t].kind # "funcEnd"
        /\ op[t].kind \notin PoolOps
        /\ kind \in {"Store", "Load"} /\ a \in Addrs /\ n \in 1 .. MaxSize /\ id \in Ids
    BY <1>1, <1>4, CallFields, Kinds, SMTT(30), Z3T(30) DEF AccessOps, AllocOps
  <1>6. my_flag
    BY <1>2, <1>5, SMTT(30), Z3T(30) DEF MutexInv
  <1>7. \A m, f : AfterM(op[t], m) = m /\ AfterFunc(op[t], f) = f
    BY <1>5, SMTT(30), Z3T(30) DEF AfterM, AfterFunc
  <1>8. /\ registryBar = M /\ countBar = FUNC_STACK
        /\ entriesBar = out \o Atomic!Entries(t, <<>>)
    BY <1>2, <1>3, <1>7, HeldBar, SMTT(30), Z3T(30)
  <1>9. /\ registryBar' = M' /\ countBar' = FUNC_STACK'
        /\ entriesBar' = out \o Atomic!Entries(t, todo'[t])
    BY <1>2, <1>3, <1>7, HeldBarNext, SMTT(30), Z3T(30)
  <1>10. entriesBar = out
    BY <1>8, NoEntries, SMTT(30), Z3T(30)
  <1>11. \E p \in registryBar : p[1] <= a /\ a + n <= p[2]
    <2>1. PICK p \in left[t] : TRUE
      BY <1>2
    <2>2. p \in M /\ Contains(p[1], p[2], a, n)
      BY <1>1, <1>4, SMTT(30), Z3T(30) DEF Covering
    <2>3. p[1] <= a /\ a + n <= p[2]
      <3>1. p[1] \in Int /\ a \in Int
        BY <1>5, <2>2, SMTT(30), Z3T(30) DEF TypeOK, Ranges, Addrs
      <3> QED
        BY <2>2, <3>1, SMTT(30), Z3T(30) DEF Contains
    <2> QED
      BY <1>8, <2>2, <2>3, SMTT(30), Z3T(30)
  <1> DEFINE S == {s \in TRACE_IDS' : <<s, id>> \in DEP}
             lines(q) == << <<kind, id, a>> >> \o [i \in DOMAIN q |-> <<"DEP", q[i], id>>]
  <1>12. PICK q \in [1 .. Cardinality(S) -> S] :
           /\ \A i, j \in 1 .. Cardinality(S) : i < j => q[i] < q[j]
           /\ todo' = [todo EXCEPT ![t] = lines(q)]
    <2>1. PICK q \in Ascending(Sources(DEP, TRACE_IDS', id)) :
            todo' = [todo EXCEPT ![t] = <<AccessLine(op[t])>> \o DepLines(q, id)]
      BY <1>1, Zenon DEF NextRange
    <2>2. Sources(DEP, TRACE_IDS', id) = S
      BY DEF Sources
    <2>3. AccessLine(op[t]) = <<kind, id, a>>
      BY <1>1 DEF AccessLine
    <2>4. q \in [1 .. Cardinality(S) -> S] /\ \A i, j \in 1 .. Cardinality(S) : i < j => q[i] < q[j]
      BY <2>1, <2>2, Zenon DEF Ascending
    <2> QED
      BY <2>1, <2>3, <2>4, Zenon DEF DepLines
  <1>13. Atomic!Extend(t, lines(q))
    <2>1. todo'[t] = lines(q)
      <3> HIDE DEF lines
      <3> QED
        BY <1>12, SMTT(30), Z3T(30) DEF TypeOK
    <2> QED
      BY <1>9, <1>10, <2>1, Zenon DEF Atomic!Extend
  <1>14. \A i, j \in DOMAIN q : i < j => q[i] < q[j]
    BY <1>12, SMTT(30), Z3T(30)
  <1>15. UNCHANGED <<my_flag, registryBar, countBar, DEP>>
    BY <1>2, <1>8, <1>9, SMTT(30), Z3T(30)
  <1>16. \A X : Atomic!Cardinality(X) = Cardinality(X)
    BY DEF Atomic!Cardinality, Cardinality
  <1>17. Atomic!Record(t, kind, a, n, id)
    BY <1>2, <1>6, <1>11, <1>12, <1>13, <1>14, <1>15, <1>16, Zenon DEF Atomic!Record
  <1> QED
    BY <1>5, <1>17

(* Appending the first of the owed entries leaves the log as it was. *)
LEMMA HeadMoves ==
  ASSUME NEW S, NEW a \in Seq(S), NEW b \in Seq(S), b # <<>>
  PROVE  Append(a, Head(b)) \o Tail(b) = a \o b
  <1>1. Head(b) \in S /\ Tail(b) \in Seq(S) /\ <<Head(b)>> \in Seq(S) /\ b = <<Head(b)>> \o Tail(b)
    BY HeadAndTail
  <1>2. Append(a, Head(b)) = a \o <<Head(b)>>
    BY <1>1, AppendOne
  <1>3. (a \o <<Head(b)>>) \o Tail(b) = a \o (<<Head(b)>> \o Tail(b))
    BY <1>1, ConcatThree, SMTT(30), Z3T(30)
  <1> QED
    BY <1>1, <1>2, <1>3, SMTT(30), Z3T(30)
(* What remains of a sequence without its first element. *)
LEMMA TailIs ==
  ASSUME NEW S, NEW s \in Seq(S), s # <<>>
  PROVE  Tail(s) = [i \in 1 .. Len(s) - 1 |-> s[i + 1]]
  <1>1. PICK r : r = Tail(s)
    BY Zenon
  <1>2. r \in Seq(S) /\ Len(r) = Len(s) - 1 /\ \A i \in 1 .. Len(r) : r[i] = s[i + 1]
    BY <1>1, HeadAndTail, Zenon
  <1>3. r \in [1 .. Len(s) - 1 -> S]
    BY <1>2, SeqIsFun, Zenon
  <1>4. r = [i \in 1 .. Len(s) - 1 |-> s[i + 1]]
    BY <1>2, <1>3, SMTT(30), Z3T(30)
  <1> QED
    BY <1>1, <1>4, Zenon

(* The entries of a call without its first line. *)
LEMMA EntriesTail ==
  ASSUME NEW t \in Threads, NEW s \in Seq(Lines), s # <<>>
  PROVE  /\ Atomic!Entries(t, s) \in Seq(Tagged) /\ Atomic!Entries(t, s) # <<>>
         /\ Head(Atomic!Entries(t, s)) = [text |-> [by |-> t, line |-> Head(s)], tid |-> t]
         /\ Tail(Atomic!Entries(t, s)) = Atomic!Entries(t, Tail(s))
  <1>1. PICK n \in Nat : n = Len(s) /\ n # 0 /\ DOMAIN s = 1 .. n /\ s \in [1 .. n -> Lines]
    BY SeqIsFun
  <1> DEFINE e == Atomic!Entries(t, s)
  <1>2. e = [i \in 1 .. n |-> [text |-> [by |-> t, line |-> s[i]], tid |-> t]]
    BY <1>1, SMTT(30), Z3T(30) DEF Atomic!Entries, Atomic!Entry
  <1>3. \A i \in 1 .. n : [text |-> [by |-> t, line |-> s[i]], tid |-> t] \in Tagged
    BY <1>1 DEF Tagged, Texts
  <1>4. e \in [1 .. n -> Tagged]
    BY <1>2, <1>3, SMTT(30), Z3T(30)
  <1>5. \A i \in 1 .. n : e[i] = [text |-> [by |-> t, line |-> s[i]], tid |-> t]
    BY <1>2
  <1> HIDE DEF e
  <1>6. e \in Seq(Tagged)
    BY <1>1, <1>4, FunIsSeq, Zenon
  <1>7. Len(e) = n
    BY <1>1, <1>4, <1>6, SeqIsFun, SMTT(30), Z3T(30)
  <1>8. e # <<>> /\ Head(e) = e[1] /\ Head(s) = s[1]
    BY <1>1, <1>6, <1>7, SMTT(30), Z3T(30)
  <1>9. /\ Tail(e) = [i \in 1 .. n - 1 |-> e[i + 1]]
        /\ Tail(s) = [i \in 1 .. n - 1 |-> s[i + 1]]
    <2>1. Tail(e) = [i \in 1 .. Len(e) - 1 |-> e[i + 1]]
      BY <1>6, <1>8, TailIs, Zenon
    <2>2. Tail(s) = [i \in 1 .. Len(s) - 1 |-> s[i + 1]]
      BY TailIs, Zenon
    <2> QED
      BY <1>1, <1>7, <2>1, <2>2, Zenon
  <1>10. Tail(e) = Atomic!Entries(t, Tail(s))
    <2>1. DOMAIN Tail(s) = 1 .. n - 1 /\ \A i \in 1 .. n - 1 : Tail(s)[i] = s[i + 1]
      BY <1>9
    <2>2. Atomic!Entries(t, Tail(s)) =
            [i \in 1 .. n - 1 |-> [text |-> [by |-> t, line |-> s[i + 1]], tid |-> t]]
      BY <2>1 DEF Atomic!Entries, Atomic!Entry
    <2>3. \A i \in 1 .. n - 1 : i + 1 \in 1 .. n
      BY <1>1
    <2>4. \A i \in 1 .. n - 1 : e[i + 1] = [text |-> [by |-> t, line |-> s[i + 1]], tid |-> t]
      BY <1>5, <2>3
    <2> QED
      BY <1>9, <2>2, <2>4, SMTT(30), Z3T(30)
  <1>11. Head(e) = [text |-> [by |-> t, line |-> Head(s)], tid |-> t]
    <2>1. 1 \in 1 .. n
      BY <1>1
    <2> QED
      BY <1>5, <1>8, <2>1, Zenon
  <1> QED
    BY <1>6, <1>8, <1>10, <1>11, SMTT(30), Z3T(30) DEF e

(* my_printf writes what is owed: formatting shows nothing, and the line   *)
(* that is written is the first of the owed ones.                          *)
LEMMA FormatQuiet ==
  ASSUME TypeOK, MutexInv, NEW t \in Threads, Format(t)
  PROVE  UNCHANGED Atomic!avars
  <1>1. UNCHANGED <<my_flag, mtx, M, FUNC_STACK, DEP, TRACE_IDS, out, op, todo>>
    BY DEF Format, tables
  <1>2. UNCHANGED <<registryBar, countBar, entriesBar>>
    BY <1>1, SMTT(30), Z3T(30) DEF registryBar, countBar, entriesBar, Owed, AfterM, AfterFunc, Insert, Erase
  <1> QED
    BY <1>1, <1>2, SMTT(30), Z3T(30) DEF Atomic!avars

(* my_printf moves the head of what the call owes to output.txt, so that    *)
(* the two together are the same sequence as before.                        *)
LEMMA WriteQuiet ==
  ASSUME TypeOK, MutexInv, NEW t \in Threads, Write(t)
  PROVE  UNCHANGED Atomic!avars
  <1>1. /\ pc[t] = "write" /\ out' = Append(out, [text |-> buffer, tid |-> t])
        /\ todo'[t] = Tail(todo[t])
        /\ UNCHANGED <<my_flag, mtx, M, FUNC_STACK, DEP, TRACE_IDS, op>>
    BY DEF Write, tables, TypeOK
  <1>2. mtx = t /\ mtx' = t
    BY <1>1, MutexHolder, SMTT(30), Z3T(30) DEF InFunction
  <1>3. todo[t] # <<>> /\ buffer = [by |-> t, line |-> Head(todo[t])]
    BY <1>1, SMTT(30), Z3T(30) DEF MutexInv
  <1>4. out \in Seq(Tagged) /\ todo[t] \in Seq(Lines)
    BY SMTT(30), Z3T(30) DEF TypeOK
  <1>5. registryBar' = registryBar /\ countBar' = countBar
    <2>1. registryBar = AfterM(op[t], M) /\ countBar = AfterFunc(op[t], FUNC_STACK)
      BY <1>2, HeldBar
    <2>2. registryBar' = AfterM(op'[t], M') /\ countBar' = AfterFunc(op'[t], FUNC_STACK')
      BY <1>2, HeldBarNext, SMTT(30), Z3T(30)
    <2> QED
      BY <1>1, <2>1, <2>2, SMTT(30), Z3T(30)
  <1>6. entriesBar' = entriesBar
    <2> DEFINE e == Atomic!Entries(t, todo[t])
    <2>1. /\ e \in Seq(Tagged) /\ e # <<>> /\ Head(e) = [text |-> buffer, tid |-> t]
          /\ Tail(e) = Atomic!Entries(t, Tail(todo[t]))
      BY <1>3, <1>4, EntriesTail, SMTT(30), Z3T(30)
    <2>2. entriesBar = out \o e
      BY <1>2, HeldBar, Zenon
    <2>3. entriesBar' = Append(out, Head(e)) \o Tail(e)
      BY <1>1, <1>2, <2>1, HeldBarNext, Zenon
    <2> HIDE DEF e
    <2> QED
      BY <1>4, <2>1, <2>2, <2>3, HeadMoves, SMTT(30), Z3T(30)
  <1> QED
    BY <1>1, <1>5, <1>6, SMTT(30), Z3T(30) DEF Atomic!avars

(* The late update was owed. *)
LEMMA UnlockQuiet ==
  ASSUME TypeOK, MutexInv, TypeOK', NEW t \in Threads, Unlock(t)
  PROVE  UNCHANGED Atomic!avars
  <1>1. /\ pc[t] = "body" /\ todo[t] = <<>> /\ mtx' = Nobody
        /\ M' = AfterM(op[t], M) /\ FUNC_STACK' = AfterFunc(op[t], FUNC_STACK)
        /\ UNCHANGED <<my_flag, DEP, TRACE_IDS, out>>
    BY DEF Unlock, log
  <1>2. mtx = t
    BY <1>1, MutexHolder DEF InFunction
  <1>3. /\ registryBar = M' /\ countBar = FUNC_STACK'
        /\ entriesBar = out \o Atomic!Entries(t, <<>>)
    BY <1>1, <1>2, HeldBar, Zenon
  <1>4. registryBar' = M' /\ countBar' = FUNC_STACK' /\ entriesBar' = out'
    BY <1>1, FreeBarNext
  <1>5. entriesBar = out
    BY <1>3, NoEntries
  <1> QED
    BY <1>1, <1>3, <1>4, <1>5, SMTT(30), Z3T(30) DEF Atomic!avars

(* A step of a thread that does not hold mtx, on its own call. *)
LEMMA OutsideQuiet ==
  ASSUME TypeOK, NEW t \in Threads, mtx # t,
         UNCHANGED <<my_flag, mtx, tables, out, todo>>,
         \A u \in Threads \ {t} : op'[u] = op[u]
  PROVE  UNCHANGED Atomic!avars
  <1>1. UNCHANGED <<M, FUNC_STACK, DEP, TRACE_IDS>>
    BY DEF tables
  <1>2. UNCHANGED entriesBar
    BY DEF entriesBar, Owed
  <1>3. CASE mtx = Nobody
    <2>1. UNCHANGED <<registryBar, countBar>>
      BY <1>1, <1>3 DEF registryBar, countBar
    <2> QED
      BY <1>1, <1>2, <2>1, SMTT(30), Z3T(30) DEF Atomic!avars
  <1>4. CASE mtx # Nobody
    <2>1. PICK u \in Threads \ {t} : mtx = u
      BY <1>4, SMTT(30), Z3T(30) DEF TypeOK
    <2>2. registryBar = AfterM(op[u], M) /\ countBar = AfterFunc(op[u], FUNC_STACK)
      BY <2>1, HeldBar
    <2>3. registryBar' = AfterM(op'[u], M') /\ countBar' = AfterFunc(op'[u], FUNC_STACK')
      BY <2>1, HeldBarNext
    <2>4. UNCHANGED <<registryBar, countBar>>
      BY <1>1, <2>1, <2>2, <2>3
    <2> QED
      BY <1>1, <1>2, <2>4, SMTT(30), Z3T(30) DEF Atomic!avars
  <1> QED
    BY <1>3, <1>4

(* The program's requests, and free() itself, show nothing. *)
LEMMA RequestQuiet ==
  ASSUME TypeOK, MutexInv, NEW t \in Threads, Request(t) \/ Release(t)
  PROVE  UNCHANGED Atomic!avars
  <1>1. CASE Request(t)
    <2>1. PICK o \in Calls : Start(t, o) /\ pc[t] = "idle"
      BY <1>1, RequestStarts
    <2>2. mtx # t
      BY <2>1, MutexHolder DEF InFunction
    <2>3. UNCHANGED <<my_flag, mtx, tables, out, todo>> /\ \A u \in Threads \ {t} : op'[u] = op[u]
      BY <2>1, SMTT(30), Z3T(30) DEF Start, log, TypeOK
    <2> QED
      BY <2>2, <2>3, OutsideQuiet, SMTT(30), Z3T(30)
  <1>2. CASE Release(t)
    <2>1. pc[t] = "free" /\ UNCHANGED <<my_flag, mtx, tables, out, op, todo>>
      BY <1>2 DEF Release, log
    <2>2. mtx # t
      BY <2>1, MutexHolder DEF InFunction
    <2> QED
      BY <2>1, <2>2, OutsideQuiet, SMTT(30), Z3T(30)
  <1> QED
    BY <1>1, <1>2

(* __pmc_Initialize runs when nothing is owed. *)
LEMMA InitializeRefines ==
  ASSUME TypeOK, MutexInv, TypeOK', Initialize
  PROVE  Atomic!Initialize
  <1>1. mtx = Nobody
    BY Zenon DEF Initialize, MutexInv, InFunction, TypeOK
  <1>2. entriesBar = out
    BY <1>1, FreeBar
  <1>3. registryBar' = M' /\ countBar' = FUNC_STACK' /\ entriesBar' = out'
    BY FreeBarNext DEF Initialize
  <1> QED
    BY <1>2, <1>3, SMTT(30), Z3T(30) DEF Initialize, Atomic!Initialize, log
(* A step of the runtime is a step of AtomicTrace, or changes nothing there, *)
(* as long as output.txt can be opened: my_printf loses a line it cannot    *)
(* write.                                                                   *)
LEMMA StepRefines ==
  ASSUME ~FileFails, TypeOK, MutexInv, EndsBegun, TypeOK', [Next]_vars
  PROVE  [Atomic!Next]_(Atomic!avars)
  <1>1. CASE Initialize
    BY <1>1, InitializeRefines DEF Atomic!Next
  <1>2. ASSUME NEW t \in Threads, Request(t) PROVE UNCHANGED Atomic!avars
    BY <1>2, RequestQuiet
  <1>3. ASSUME NEW t \in Threads, Run(t) PROVE [Atomic!Next]_(Atomic!avars)
    <2>1. CASE LockAlloc(t)
      BY <2>1, AllocRefines, Zenon DEF Atomic!Next
    <2>2. CASE LockFree(t)
      BY <2>2, FreeRefines, Zenon DEF Atomic!Next
    <2>3. CASE LockLog(t)
      BY <2>3, LogRefines, Zenon DEF Atomic!Next
    <2>4. CASE LockFuncBegin(t)
      BY <2>4, FuncBeginRefines, Zenon DEF Atomic!Next
    <2>5. CASE LockFuncEnd(t)
      BY <2>5, FuncEndRefines, Zenon DEF Atomic!Next
    <2>6. CASE LockDepAdd(t)
      BY <2>6, DepAddRefines, Zenon DEF Atomic!Next
    <2>7. CASE NextRange(t)
      BY <2>7, RangeRefines, Zenon DEF Atomic!Next
    <2>8. CASE LockDummy(t) \/ LockAccess(t)
      BY <2>8, LockQuiet
    <2>9. CASE Format(t) \/ Write(t) \/ Unlock(t) \/ Release(t)
      BY <2>9, FormatQuiet, WriteQuiet, UnlockQuiet, RequestQuiet, SMTT(30), Z3T(30)
    <2>10. ~OpenFails(t)
      BY DEF OpenFails
    <2> QED
      BY <1>3, <2>1, <2>2, <2>3, <2>4, <2>5, <2>6, <2>7, <2>8, <2>9, <2>10, Zenon DEF Run
  <1>4. CASE UNCHANGED vars
    <2>1. UNCHANGED <<my_flag, mtx, M, FUNC_STACK, DEP, TRACE_IDS, out, op, todo>>
      BY <1>4, SMTT(30), Z3T(30) DEF vars, tables, log
    <2>2. UNCHANGED <<registryBar, countBar, entriesBar>>
      BY <2>1 DEF registryBar, countBar, entriesBar, Owed, AfterM, AfterFunc, Insert, Erase
    <2> QED
      BY <2>1, <2>2 DEF Atomic!avars
  <1> QED
    BY <1>1, <1>2, <1>3, <1>4, Zenon DEF Next

(* The initial states of the runtime are those of AtomicTrace. *)
LEMMA InitRefines ==
  ASSUME Init
  PROVE  Atomic!Init
  <1>1. registryBar = M /\ countBar = FUNC_STACK /\ entriesBar = out
    BY TypeInit, FreeBar DEF Init
  <1> QED
    BY <1>1 DEF Init, Atomic!Init

-----------------------------------------------------------------------------
(* The lines of output.txt are the first of the log of AtomicTrace. *)
LEMMA OutIsPrefix ==
  ASSUME TypeOK
  PROVE  /\ DOMAIN out \subseteq DOMAIN entriesBar
         /\ \A i \in DOMAIN out : entriesBar[i] = out[i] /\ Atomic!Line(i) = LineOf(i)
  <1>1. out \in Seq(Tagged) /\ Owed \in Seq(Tagged)
    <2>1. CASE mtx = Nobody
      BY <2>1 DEF Owed, TypeOK
    <2>2. CASE mtx # Nobody
      <3>1. PICK t \in Threads : mtx = t
        BY <2>2, SMTT(30), Z3T(30) DEF TypeOK
      <3>2. todo[t] \in Seq(Lines) /\ out \in Seq(Tagged)
        BY DEF TypeOK
      <3>3. Owed = Atomic!Entries(t, todo[t])
        BY <2>2, <3>1, SMTT(30), Z3T(30) DEF Owed, Atomic!Entries, Atomic!Entry
      <3>4. CASE todo[t] = <<>>
        BY <3>2, <3>3, <3>4, SMTT(30), Z3T(30) DEF Atomic!Entries
      <3> QED
        BY <3>2, <3>3, <3>4, EntriesTail, Zenon
    <2> QED
      BY <2>1, <2>2, SMTT(30), Z3T(30)
  <1>2. PICK owed \in Seq(Tagged) : owed = Owed
    BY <1>1
  <1>3. entriesBar = out \o owed
    BY <1>2 DEF entriesBar
  <1>4. /\ entriesBar \in Seq(Tagged) /\ Len(entriesBar) = Len(out) + Len(owed)
        /\ \A i \in 1 .. Len(out) + Len(owed) :
             entriesBar[i] = IF i <= Len(out) THEN out[i] ELSE owed[i - Len(out)]
    BY <1>1, <1>3, ConcatIs, Zenon
  <1>5. /\ Len(out) \in Nat /\ Len(owed) \in Nat
        /\ DOMAIN out = 1 .. Len(out) /\ DOMAIN entriesBar = 1 .. Len(out) + Len(owed)
    BY <1>1, <1>4, SeqIsFun, SMTT(30), Z3T(30)
  <1>6. DOMAIN out \subseteq DOMAIN entriesBar /\ \A i \in DOMAIN out : entriesBar[i] = out[i]
    BY <1>4, <1>5, SMTT(30), Z3T(30)
  <1> QED
    BY <1>6, Zenon DEF Atomic!Line, LineOf

(* A FUNC_END is requested where this thread has printed a FUNC_BEGIN. *)
LEMMA RequestBegun ==
  ASSUME TypeOK, NEW t \in Threads, Request(t)
  PROVE  \E o \in Calls :
           /\ Start(t, o)
           /\ o.kind = "funcEnd" /\ my_flag =>
                \E i \in DOMAIN out : LineOf(i)[1] = "FUNC_BEGIN" /\ LineOf(i)[2] = o.a
  <1>1. PICK o \in Calls : Start(t, o)
    BY RequestStarts, SMTT(30), Z3T(30)
  <1>2. op'[t] = o
    BY <1>1, SMTT(30), Z3T(30) DEF Start, TypeOK
  <1>3. ASSUME o.kind = "funcEnd", my_flag
        PROVE  \E i \in DOMAIN out : LineOf(i)[1] = "FUNC_BEGIN" /\ LineOf(i)[2] = o.a
    <2>1. ASSUME NEW p, Start(t, p) PROVE p = o
      BY <1>2, <2>1, SMTT(30), Z3T(30) DEF Start, TypeOK
    <2>2. ASSUME NEW kind \in AllocOps \cup AccessOps \cup LogOps \cup DummyOps
          PROVE  kind # "funcEnd"
      BY Kinds, SMTT(30), Z3T(30)
    <2>3. ~(\E kind \in AllocOps : Allocate(t, kind))
      <3> SUFFICES ASSUME NEW kind \in AllocOps, Allocate(t, kind) PROVE FALSE
        OBVIOUS
      <3>1. PICK b, e : Start(t, [kind |-> kind, a |-> b, b |-> e, id |-> 0])
        BY Zenon DEF Allocate
      <3> QED
        BY <1>3, <2>1, <2>2, <3>1, SMTT(30), Z3T(30)
    <2>4. ~Free(t)
      <3> SUFFICES ASSUME Free(t) PROVE FALSE
        OBVIOUS
      <3>1. PICK b : Start(t, [kind |-> "free", a |-> b, b |-> 0, id |-> 0])
        BY Zenon DEF Free
      <3> QED
        BY <1>3, <2>1, <3>1, SMTT(30), Z3T(30)
    <2>5. ~(\E kind \in AccessOps : Access(t, kind))
      <3> SUFFICES ASSUME NEW kind \in AccessOps, Access(t, kind) PROVE FALSE
        OBVIOUS
      <3>1. PICK a, n, id : Start(t, [kind |-> kind, a |-> a, b |-> n, id |-> id])
        BY Zenon DEF Access
      <3> QED
        BY <1>3, <2>1, <2>2, <3>1, SMTT(30), Z3T(30)
    <2>6. ~(\E kind \in LogOps \cup DummyOps : Log(t, kind))
      <3> SUFFICES ASSUME NEW kind \in LogOps \cup DummyOps, Log(t, kind) PROVE FALSE
        OBVIOUS
      <3>1. Start(t, [NoOp EXCEPT !.kind = kind]) /\ kind # "funcEnd"
        BY <2>2 DEF Log
      <3> QED
        BY <1>3, <2>1, <3>1, SMTT(30), Z3T(30) DEF NoOp
    <2>7. ~FuncBegin(t)
      <3> SUFFICES ASSUME FuncBegin(t) PROVE FALSE
        OBVIOUS
      <3>1. PICK f : Start(t, [NoOp EXCEPT !.kind = "funcBegin", !.a = f])
        BY Zenon DEF FuncBegin
      <3> QED
        BY <1>3, <2>1, <3>1, Zenon DEF NoOp
    <2>8. ~DepAdd(t)
      <3> SUFFICES ASSUME DepAdd(t) PROVE FALSE
        OBVIOUS
      <3>1. PICK s, d : Start(t, [kind |-> "depAdd", a |-> s, b |-> d, id |-> 0])
        BY Zenon DEF DepAdd
      <3> QED
        BY <1>3, <2>1, <3>1, SMTT(30), Z3T(30)
    <2>9. FuncEnd(t)
      BY <2>3, <2>4, <2>5, <2>6, <2>7, <2>8, Zenon DEF Request
    <2>10. PICK f \in Funcs :
             /\ \E i \in DOMAIN out : out[i].text.line[1] = "FUNC_BEGIN"
                                      /\ out[i].text.line[2] = f
             /\ Start(t, [NoOp EXCEPT !.kind = "funcEnd", !.a = f])
      BY <1>3, <2>9, Zenon DEF FuncEnd
    <2>11. o.a = f
      BY <2>1, <2>10, Zenon DEF NoOp
    <2> QED
      BY <2>10, <2>11, Zenon DEF LineOf
  <1> QED
    BY <1>1, <1>3, SMTT(30), Z3T(30)
(* Every FUNC_BEGIN line of output.txt has set its function's counter. *)
LEMMA CounterSet ==
  ASSUME TypeOK, MutexInv, EndsBegun, Atomic!BegunCounted, NEW f \in Funcs,
         \E i \in DOMAIN out : LineOf(i)[1] = "FUNC_BEGIN" /\ LineOf(i)[2] = f
  PROVE  FUNC_STACK[f] # 0
  <1>1. countBar[f] # 0
    BY OutIsPrefix, ZenonT(30) DEF Atomic!BegunCounted
  <1>2. CASE mtx = Nobody
    BY <1>1, <1>2 DEF countBar
  <1>3. CASE mtx # Nobody
    <2>1. PICK u \in Threads : mtx = u
      BY <1>3, SMTT(30), Z3T(30) DEF TypeOK
    <2>2. countBar = AfterFunc(op[u], FUNC_STACK)
      BY <2>1, HeldBar
    <2>3. pc[u] # "idle"
      BY <2>1, MutexHolder DEF InFunction
    <2>4. op[u].kind = "funcEnd" => FUNC_STACK[op[u].a] # 0
      BY <2>3, SMTT(30), Z3T(30) DEF EndsBegun
    <2>5. op[u].kind = "funcEnd" /\ op[u].a # f => AfterFunc(op[u], FUNC_STACK)[f] = FUNC_STACK[f]
      BY DEF AfterFunc, TypeOK
    <2> QED
      BY <1>1, <2>2, <2>4, <2>5, SMTT(30), Z3T(30) DEF AfterFunc
  <1> QED
    BY <1>2, <1>3

(* A counter that is set stays set after Initialize. *)
LEMMA CountersStay ==
  ASSUME TypeOK, NEW t \in Threads, Run(t)
  PROVE  \A f \in Funcs : FUNC_STACK[f] # 0 => FUNC_STACK'[f] # 0
  <1>1. FUNC_STACK \in [Funcs -> Nat] /\ op[t] \in Calls
    BY DEF TypeOK
  <1>2. CASE LockFuncBegin(t)
    <2>1. PICK f, n : /\ FUNC_STACK' = [FUNC_STACK EXCEPT ![f] = n]
                      /\ n = IF FUNC_STACK[f] = 0 THEN 1 ELSE FUNC_STACK[f]
      BY <1>2, Zenon DEF LockFuncBegin
    <2> QED
      BY <1>1, <2>1, SMTT(30), Z3T(30)
  <1>3. CASE Unlock(t)
    BY <1>1, <1>3 DEF Unlock, AfterFunc
  <1>4. CASE UNCHANGED FUNC_STACK
    BY <1>4
  <1>5. LockFuncBegin(t) \/ Unlock(t) \/ UNCHANGED FUNC_STACK
    BY Zenon
      DEF Run, LockAlloc, LockFree, LockLog, LockDummy, LockFuncEnd, LockDepAdd, LockAccess,
          NextRange, Format, OpenFails, Write, Release, tables
  <1> QED
    BY <1>2, <1>3, <1>4, <1>5, SMTT(30), Z3T(30)

(* A call keeps its operands until it returns. *)
LEMMA CallStays ==
  ASSUME TypeOK, NEW t \in Threads, Run(t)
  PROVE  UNCHANGED op /\ \A u \in Threads : pc'[u] # "idle" => pc[u] # "idle"
  <1>1. UNCHANGED op /\ pc[t] # "idle"
    BY Zenon
      DEF Run, LockAlloc, LockFree, LockLog, LockDummy, LockFuncBegin, LockFuncEnd, LockDepAdd,
          LockAccess, Lock, NextRange, Format, OpenFails, Write, Unlock, Release
  <1>2. pc' = pc \/ \E x : pc' = [pc EXCEPT ![t] = x]
    BY Zenon
      DEF Run, LockAlloc, LockFree, LockLog, LockDummy, LockFuncBegin, LockFuncEnd, LockDepAdd,
          LockAccess, Lock, NextRange, Format, OpenFails, Write, Unlock, Release
  <1> QED
    BY <1>1, <1>2, SMTT(30), Z3T(30) DEF TypeOK

(* A FUNC_END is under way only for a function that has begun. *)
LEMMA EndsBegunStep ==
  ASSUME TypeOK, MutexInv, EndsBegun, Atomic!BegunCounted, [Next]_vars
  PROVE  EndsBegun'
  <1>1. CASE Initialize
    <2>1. \A t \in Threads : pc'[t] = "idle"
      BY <1>1, SMTT(30), Z3T(30) DEF Initialize, MutexInv
    <2> QED
      BY <2>1, SMTT(30), Z3T(30) DEF EndsBegun
  <1>2. ASSUME NEW t \in Threads, Request(t) PROVE EndsBegun'
    <2>1. PICK o \in Calls :
            /\ Start(t, o)
            /\ o.kind = "funcEnd" /\ my_flag =>
                 \E i \in DOMAIN out : LineOf(i)[1] = "FUNC_BEGIN" /\ LineOf(i)[2] = o.a
      BY <1>2, RequestBegun, SMTT(30), Z3T(30)
    <2>2. /\ op'[t] = o /\ pc'[t] = Entry(o) /\ UNCHANGED FUNC_STACK
          /\ \A u \in Threads \ {t} : op'[u] = op[u] /\ pc'[u] = pc[u]
      BY <2>1, SMTT(30), Z3T(30) DEF Start, tables, TypeOK
    <2>3. ASSUME o.kind = "funcEnd", pc'[t] # "idle" PROVE FUNC_STACK[o.a] # 0
      <3>1. my_flag
        BY <2>2, <2>3, SMTT(30), Z3T(30) DEF Entry, PoolOps
      <3>2. o.a \in Funcs
        BY <2>3, CallFields, SMTT(30), Z3T(30)
      <3> QED
        BY <2>1, <2>3, <3>1, <3>2, CounterSet, SMTT(30), Z3T(30)
    <2> QED
      BY <2>2, <2>3 DEF EndsBegun
  <1>3. ASSUME NEW t \in Threads, Run(t) PROVE EndsBegun'
    <2>1. UNCHANGED op /\ \A u \in Threads : pc'[u] # "idle" => pc[u] # "idle"
      BY <1>3, CallStays, SMTT(30), Z3T(30)
    <2>2. \A f \in Funcs : FUNC_STACK[f] # 0 => FUNC_STACK'[f] # 0
      BY <1>3, CountersStay, SMTT(30), Z3T(30)
    <2>3. \A u \in Threads : op[u].kind = "funcEnd" => op[u].a \in Funcs
      BY CallFields, SMTT(30), Z3T(30) DEF TypeOK
    <2> QED
      BY <2>1, <2>2, <2>3, SMTT(30), Z3T(30) DEF EndsBegun
  <1>4. CASE UNCHANGED vars
    BY <1>4, SMTT(30), Z3T(30) DEF EndsBegun, vars, tables
  <1> QED
    BY <1>1, <1>2, <1>3, <1>4, ZenonT(30) DEF Next
-----------------------------------------------------------------------------

AP == INSTANCE AtomicTraceProofs WITH
  Ends <- 0 .. 2 * Top,
  Sizes <- 1 .. MaxSize,
  PlainKinds <- LogOps,
  ready <- my_flag,
  registry <- registryBar,
  count <- countBar,
  dep <- DEP,
  traced <- TRACE_IDS,
  entries <- entriesBar

(* The operators on finite sets are the same in all three modules. *)
LEMMA SameSets ==
  /\ \A S : AP!Cardinality(S) = Cardinality(S) /\ Atomic!Cardinality(S) = Cardinality(S)
  /\ \A S : AP!IsFiniteSet(S) = IsFiniteSet(S)
  <1>1. ASSUME NEW S PROVE AP!Cardinality(S) = Cardinality(S)
    BY SMTT(30), Z3T(30) DEF AP!Cardinality, Cardinality
  <1>2. ASSUME NEW S PROVE Atomic!Cardinality(S) = Cardinality(S)
    BY SMTT(30), Z3T(30) DEF Atomic!Cardinality, Cardinality
  <1>3. ASSUME NEW S PROVE AP!IsFiniteSet(S) = IsFiniteSet(S)
    BY SMTT(30), Z3T(30) DEF AP!IsFiniteSet, IsFiniteSet
  <1> QED
    BY <1>1, <1>2, <1>3, SMTT(30), Z3T(30)

(* AtomicTrace, reached with and without its theorems, is one specification. *)
LEMMA SameInit == Atomic!Init => AP!Init
  BY SMTT(30), Z3T(30) DEF Atomic!Init, AP!Init

(* The same of the steps. *)
LEMMA SameNext == [Atomic!Next]_(Atomic!avars) => [AP!Next]_(AP!avars)
  <1>1. Atomic!avars = AP!avars
    BY SMTT(30), Z3T(30) DEF Atomic!avars, AP!avars
  <1>2. Atomic!avars' = AP!avars'
    BY SMTT(30), Z3T(30) DEF Atomic!avars, AP!avars
  <1>3. \A t, lines : Atomic!Extend(t, lines) => AP!Extend(t, lines)
    BY DEF Atomic!Extend, Atomic!Entries, Atomic!Entry, AP!Extend, AP!Entries, AP!Entry
  <1>4. Atomic!Initialize => AP!Initialize
    BY DEF Atomic!Initialize, AP!Initialize
  <1>5. \A t, b, e : Atomic!Register(t, b, e) => AP!Register(t, b, e)
    BY <1>3, ZenonT(30) DEF Atomic!Register, AP!Register
  <1>6. \A t, b : Atomic!Unregister(t, b) => AP!Unregister(t, b)
    BY <1>3, ZenonT(30) DEF Atomic!Unregister, AP!Unregister
  <1>7. \A t, kind : Atomic!Plain(t, kind) => AP!Plain(t, kind)
    BY <1>3, Zenon DEF Atomic!Plain, AP!Plain
  <1>8. \A t, f : (Atomic!Begin(t, f) => AP!Begin(t, f)) /\ (Atomic!End(t, f) => AP!End(t, f))
    BY <1>3, ZenonT(30) DEF Atomic!Begin, AP!Begin, Atomic!End, AP!End
  <1>9. ASSUME NEW t, NEW kind, NEW a, NEW n, NEW id, Atomic!Record(t, kind, a, n, id)
        PROVE  AP!Record(t, kind, a, n, id)
    <2> DEFINE S == {s \in TRACE_IDS' : <<s, id>> \in DEP}
               lines(q) == << <<kind, id, a>> >> \o [i \in DOMAIN q |-> <<"DEP", q[i], id>>]
    <2>1. PICK q \in [1 .. Cardinality(S) -> S] :
            (\A i, j \in DOMAIN q : i < j => q[i] < q[j]) /\ Atomic!Extend(t, lines(q))
      BY <1>9, SameSets, Zenon DEF Atomic!Record
    <2>2. AP!Extend(t, lines(q))
      BY <1>3, <2>1, Zenon
    <2> QED
      BY <1>9, <2>1, <2>2, SameSets, Zenon DEF Atomic!Record, AP!Record
  <1>10. \A s, d : Atomic!Depend(s, d) => AP!Depend(s, d)
    BY SMTT(30), Z3T(30) DEF Atomic!Depend, AP!Depend
  <1>11. Atomic!Next => AP!Next
    BY <1>4, <1>5, <1>6, <1>7, <1>8, <1>9, <1>10, SMTT(30), Z3T(30) DEF Atomic!Next, AP!Next
  <1> QED
    BY <1>1, <1>2, <1>11, SMTT(30), Z3T(30)
(* The promises of AtomicTrace that PMCRuntime's proofs name. *)
LEMMA SameBegun == AP!TraceInv => Atomic!BegunCounted
  BY SMTT(30), Z3T(30) DEF AP!TraceInv, AP!BegunCounted, Atomic!BegunCounted, AP!Line, Atomic!Line

(* The plain lines of pm.cpp are not mistaken for other lines. *)
LEMMA KindsAreApart == AP!KindsApart
  <1>1. AP!IsFiniteSet(Ids)
    BY RuntimeAssumption, SameSets, SMTT(30), Z3T(30)
  <1>2. LogOps \cap ({"Adding", "DEP"} \cup AP!AccessKinds \cup AP!CallKinds) = {}
    BY SMTT(30), Z3T(30) DEF LogOps, AP!AccessKinds, AP!CallKinds
  <1> QED
    BY <1>1, <1>2, SMTT(30), Z3T(30) DEF AP!KindsApart

(* The joint invariant: that the steps refine AtomicTrace rests on the      *)
(* mutual exclusion of mtx and on EndsBegun, and EndsBegun on what the      *)
(* steps of AtomicTrace keep.                                               *)
LogInv == TypeOK /\ MutexInv /\ EndsBegun /\ AP!TraceInv

(* The empty log satisfies it. *)
LEMMA LogInit == Init => LogInv
  <1> SUFFICES ASSUME Init PROVE LogInv
    OBVIOUS
  <1>1. TypeOK /\ MutexInv
    BY TypeInit, MutexInit, SMTT(30), Z3T(30)
  <1>2. EndsBegun
    BY SMTT(30), Z3T(30) DEF Init, EndsBegun
  <1>3. AP!Init
    BY InitRefines, SameInit, SMTT(30), Z3T(30)
  <1>4. AP!TraceInv
    BY <1>3, AP!TraceInit, SMTT(30), Z3T(30)
  <1> QED
    BY <1>1, <1>2, <1>4, SMTT(30), Z3T(30) DEF LogInv

(* Every step keeps it, and is a step of AtomicTrace. *)
LEMMA LogStep ==
  ASSUME ~FileFails, LogInv, TypeOK', MutexInv', [Next]_vars
  PROVE  LogInv' /\ [Atomic!Next]_(Atomic!avars)
  <1>1. TypeOK /\ MutexInv /\ EndsBegun /\ AP!TraceInv
    BY SMTT(30), Z3T(30) DEF LogInv
  <1>2. [Atomic!Next]_(Atomic!avars)
    BY <1>1, StepRefines, SMTT(30), Z3T(30)
  <1>3. [AP!Next]_(AP!avars)
    BY <1>2, SameNext, SMTT(30), Z3T(30)
  <1>4. (AP!TraceInv)'
    BY <1>1, <1>3, KindsAreApart, AP!TraceStep, SMTT(30), Z3T(30)
  <1>5. EndsBegun'
    BY <1>1, SameBegun, EndsBegunStep, SMTT(30), Z3T(30)
  <1> QED
    BY <1>2, <1>4, <1>5, SMTT(30), Z3T(30) DEF LogInv
(* The promises of AtomicTrace, read on the lines that are in output.txt. *)
LEMMA LogPromises ==
  ASSUME LogInv
  PROVE  DepLinesSound /\ FunctionNumbers
  <1>1. /\ DOMAIN out \subseteq DOMAIN entriesBar
        /\ \A i \in DOMAIN out : entriesBar[i] = out[i] /\ Atomic!Line(i) = LineOf(i)
    BY OutIsPrefix, SMTT(30), Z3T(30) DEF LogInv
  <1>2. PICK n \in Nat : DOMAIN out = 1 .. n
    BY SMTT(30), Z3T(30) DEF LogInv, TypeOK
  <1>3. \A i \in 1 .. n : AP!Line(i) = LineOf(i)
    BY <1>1, <1>2, SMTT(30), Z3T(30) DEF AP!Line, LineOf
  <1>4. \A i \in 1 .. n : \A j \in 1 .. i - 1 : j \in 1 .. n
    BY SMTT(30), Z3T(30)
  <1>5. DepLinesSound
    <2>1. ASSUME NEW i \in 1 .. n, LineOf(i)[1] = "DEP"
          PROVE  /\ \E j \in 1 .. i - 1 : LineOf(j)[1] \in AccessOps /\ LineOf(j)[2] = LineOf(i)[2]
                 /\ \E j \in 1 .. i - 1 :
                      /\ LineOf(j)[1] \in AccessOps /\ LineOf(j)[2] = LineOf(i)[3]
                      /\ \A k \in j .. i - 1 : out[k].tid = out[i].tid
                      /\ \A k \in j + 1 .. i - 1 : LineOf(k)[1] = "DEP"
      <3>1. AP!Traced(AP!Line(i)[2], i) /\ AP!Follows(i)
        BY <1>1, <1>2, <1>3, <2>1, SMTT(30), Z3T(30) DEF LogInv, AP!TraceInv, AP!DepsFollow
      <3>2. PICK j \in 1 .. i - 1 : AP!Line(j)[1] \in AP!AccessKinds /\ AP!Line(j)[2] = AP!Line(i)[2]
        BY <3>1, ZenonT(30) DEF AP!Traced
      <3>3. PICK k \in 1 .. i - 1 :
              /\ AP!Line(k)[1] \in AP!AccessKinds /\ AP!Line(k)[2] = AP!Line(i)[3]
              /\ \A m \in k .. i - 1 : entriesBar[m].tid = entriesBar[i].tid
              /\ \A m \in k + 1 .. i - 1 : AP!Line(m)[1] = "DEP"
        BY <3>1, ZenonT(30) DEF AP!Follows
      <3>4. AP!AccessKinds = AccessOps
        BY SMTT(30), Z3T(30) DEF AP!AccessKinds, AccessOps
      <3>5. LineOf(j)[1] \in AccessOps /\ LineOf(j)[2] = LineOf(i)[2]
        BY <1>3, <1>4, <3>2, <3>4, SMTT(30), Z3T(30)
      <3>6. LineOf(k)[1] \in AccessOps /\ LineOf(k)[2] = LineOf(i)[3]
        BY <1>3, <1>4, <3>3, <3>4, SMTT(30), Z3T(30)
      <3>7. \A m \in k .. i - 1 : out[m].tid = out[i].tid
        <4>1. \A m \in k .. i - 1 : m \in 1 .. n
          BY SMTT(30), Z3T(30)
        <4> QED
          BY <1>1, <1>2, <3>3, <4>1, SMTT(30), Z3T(30)
      <3>8. \A m \in k + 1 .. i - 1 : LineOf(m)[1] = "DEP"
        <4>1. \A m \in k + 1 .. i - 1 : m \in 1 .. n
          OBVIOUS
        <4> QED
          BY <1>3, <3>3, <4>1, SMTT(30), Z3T(30)
      <3> QED
        BY <3>5, <3>6, <3>7, <3>8, ZenonT(30)
    <2> QED
      BY <1>2, <2>1, ZenonT(30) DEF DepLinesSound
  <1>6. FunctionNumbers
    <2>1. ASSUME NEW i \in 1 .. n, LineOf(i)[1] \in {"FUNC_BEGIN", "FUNC_END"}
          PROVE  LineOf(i)[3] = 1 + Cardinality({j \in 1 .. i - 1 : LineOf(j)[1] = "FUNC_END"
                                                                  /\ LineOf(j)[2] = LineOf(i)[2]})
      <3>1. AP!Line(i)[3] = 1 + AP!Cardinality(AP!EndsBefore(i, AP!Line(i)[2]))
        BY <1>1, <1>2, <1>3, <2>1, SMTT(30), Z3T(30) DEF LogInv, AP!TraceInv, AP!CallsNumbered, AP!CallKinds
      <3>2. AP!EndsBefore(i, AP!Line(i)[2])
              = {j \in 1 .. i - 1 : LineOf(j)[1] = "FUNC_END" /\ LineOf(j)[2] = LineOf(i)[2]}
        BY <1>3, <1>4, SMTT(30), Z3T(30) DEF AP!EndsBefore
      <3>3. LineOf(i)[3] = 1 + AP!Cardinality(AP!EndsBefore(i, AP!Line(i)[2]))
        BY <1>3, <3>1, ZenonT(30)
      <3> QED
        BY <3>2, <3>3, SameSets, ZenonT(30)
    <2> QED
      BY <1>2, <2>1, ZenonT(30) DEF FunctionNumbers
  <1> QED
    BY <1>5, <1>6, SMTT(30), Z3T(30)

(* The functions of pm.cpp are atomic for the reader of output.txt: although *)
(* they print line by line through a shared buffer, update their tables at  *)
(* different points and are interleaved with the calls of any number of     *)
(* threads, the log grows by whole records, each computed from the tables   *)
(* at one instant.                                                          *)
THEOREM RuntimeIsAtomic ==
  ASSUME ~FileFails
  PROVE  Spec => ImplementsAtomicTrace
  <1>1. Init => LogInv /\ Atomic!Init
    BY LogInit, InitRefines, SMTT(30), Z3T(30)
  <1>2. LogInv /\ TypeOK' /\ MutexInv' /\ [Next]_vars => LogInv' /\ [Atomic!Next]_(Atomic!avars)
    BY LogStep, SMTT(30), Z3T(30)
  <1>3. Spec => Atomic!Spec
    BY <1>1, <1>2, TypeAndMutex, PTL DEF Spec, Atomic!Spec
  <1> QED
    BY <1>3, SMTT(30), Z3T(30) DEF ImplementsAtomicTrace

(* Every line of output.txt carries its own thread's tag, every DEP line    *)
(* follows its access and names a source printed before it, and the lines   *)
(* of the calls of a function carry the number of the call.                 *)
THEOREM LogSoundHolds ==
  ASSUME ~FileFails
  PROVE  Spec => []LogSound
  <1>1. Init => LogInv
    BY LogInit, SMTT(30), Z3T(30)
  <1>2. LogInv /\ TypeOK' /\ MutexInv' /\ [Next]_vars => LogInv'
    BY LogStep, SMTT(30), Z3T(30)
  <1>3. LogInv /\ LineIntegrity => LogSound
    BY LogPromises DEF LogSound
  <1> QED
    BY <1>1, <1>2, <1>3, TypeAndMutex, LineIntegrityHolds, PTL DEF Spec
=============================================================================
