----------------------------- MODULE Containers -----------------------------
(***************************************************************************)
(* Two persistent containers of one type in the root of a pool, and a      *)
(* caller that runs their operations, one or several to a transaction,     *)
(* while snapshots and allocations may fail and power may be lost at any   *)
(* step.  Each operation is compared with what it means for a sequence.    *)
(***************************************************************************)
EXTENDS PString

CONSTANTS MaxLen,       \* bound: the longest contents
          MaxCap,       \* bound: the largest capacity reserved
          MaxCalls,     \* bound: operations in one transaction
          MaxOps,       \* bound: operations in all
          HollowAppend, \* whether a string that was moved from is appended to
          ResizeInPlace \* whether vector::resize grows within the capacity

VARIABLES type,         \* "vector" or "string"
          raw,          \* objects that are not constructed
          calls,        \* operations of the running transaction
          ops,          \* operations so far
          before,       \* contents and raw when the transaction began
          want          \* object -> the contents the operation may leave

vars == <<txVars, type, raw, calls, ops, before, want>>

Contents == [o \in Objects |->
  IF o \in raw THEN <<>> ELSE IF type = "vector" THEN VecContents(o) ELSE StrContents(o)]

Init ==
  /\ TxInit
  /\ type \in {"vector", "string"}
  /\ raw = Objects
  /\ calls = 0 /\ ops = 0
  /\ before = [contents |-> [o \in Objects |-> <<>>], raw |-> Objects]
  /\ want = [o \in Objects |-> {<<>>}]

Fills(n, v) == [k \in 1..n |-> v]
Spliced(s, i, t) == SubSeq(s, 1, i) \o t \o SubSeq(s, i + 1, Len(s))
Cut(s, i, n) == SubSeq(s, 1, i) \o SubSeq(s, i + n + 1, Len(s))
Sized(s, n, v) == SubSeq(s, 1, MinOf(n, Len(s))) \o Fills(n - MinOf(n, Len(s)), v)

(* Ranges of distinct elements, and an element of their own for the fills. *)
Ranges == {[k \in 1..n |-> k] : n \in 0..MaxLen}
Elems == {MaxLen + 1}

(* The caller runs an operation with this body on o; it may leave one of   *)
(* mine in o and one of others in every other object.                      *)
Do(o, body, mine, others) ==
  /\ calls < MaxCalls /\ ops < MaxOps
  /\ \A s \in mine : Len(s) <= MaxLen
  /\ Run(body)
  /\ calls' = calls + 1 /\ ops' = ops + 1
  /\ before' = IF stage = "none" THEN [contents |-> Contents, raw |-> raw] ELSE before
  /\ want' = [q \in Objects |-> IF q = o THEN mine ELSE others[q]]
  /\ UNCHANGED type

Kept == [q \in Objects |-> {Contents[q]}]
With(p, s) == [Kept EXCEPT ![p] = s]

Constructs(o, body, mine, others) ==
  /\ o \in raw /\ raw' = raw \ {o}
  /\ Do(o, body, mine, others)

Operates(o, body, mine, others) ==
  /\ o \notin raw /\ UNCHANGED raw
  /\ Do(o, body, mine, others)

Ready(t) == type = t /\ todo = <<>> /\ stage \in {"none", "work"}

NewVector(o, p) ==
  /\ Ready("vector")
  /\ \/ Constructs(o, Vector(o), {<<>>}, Kept)
     \/ \E n \in 0..MaxLen, v \in Elems \cup {0} : Constructs(o, VectorFill(o, n, v), {Fills(n, v)}, Kept)
     \/ \E s \in Ranges : Constructs(o, VectorRange(o, s), {s}, Kept)
     \/ p \notin raw /\ Constructs(o, VectorCopy(o, p), {Contents[p]}, Kept)
     \/ p \notin raw /\ Constructs(o, VectorMove(o, p), {Contents[p]}, With(p, {<<>>}))

(* ~vector: the object's words are left as they are.                       *)
DropVector(o) ==
  /\ Ready("vector")
  /\ o \notin raw /\ raw' = raw \cup {o}
  /\ Do(o, free_data(o), {<<>>}, Kept)

AssignVector(o, p) ==
  /\ Ready("vector")
  /\ \/ \E n \in 0..MaxLen, v \in Elems : Operates(o, AssignFill(o, n, v), {Fills(n, v)}, Kept)
     \/ \E s \in Ranges : Operates(o, AssignRange(o, s), {s}, Kept)
     \/ p \notin raw /\ Operates(o, AssignCopy(o, p), {Contents[p]}, Kept)
     \/ p \notin raw /\ Operates(o, AssignMove(o, p), {Contents[p]}, With(p, {<<>>}))
     \/ p \notin raw /\ Operates(o, swap(o, p), {Contents[p]}, With(p, {Contents[o]}))
     \/ \E i \in 1..Len(Contents[o]), v \in Elems :
          Operates(o, at(o, i - 1, v), {[Contents[o] EXCEPT ![i] = v]}, Kept)

CapacityOfVector(o) ==
  /\ Ready("vector")
  /\ \/ \E n \in 0..MaxCap : Operates(o, reserve(o, n), {Contents[o]}, Kept)
     \/ Operates(o, shrink_to_fit(o), {Contents[o]}, Kept)
     \/ Operates(o, shrink(o, 0), {<<>>}, Kept)
     \/ Operates(o, free_data(o), {<<>>}, Kept)

EditVector(o) ==
  /\ Ready("vector")
  /\ \/ \E i \in 0..Len(Contents[o]), n \in 0..MaxLen, v \in Elems :
          Operates(o, insert(o, i, n, v), {Spliced(Contents[o], i, Fills(n, v))}, Kept)
     \/ \E i \in 0..Len(Contents[o]), s \in Ranges :
          Operates(o, InsertRange(o, i, s), {Spliced(Contents[o], i, s)}, Kept)
     \/ \E i \in 0..Len(Contents[o]) : \E n \in 0..(Len(Contents[o]) - i) :
          Operates(o, erase(o, i, n), {Cut(Contents[o], i, n)}, Kept)
     \/ \E v \in Elems : Operates(o, emplace_back(o, v), {Append(Contents[o], v)}, Kept)
     \/ Operates(o, pop_back(o), {Cut(Contents[o], Len(Contents[o]) - 1, 1)}, Kept)

(* resize stores the elements it adds within the capacity without          *)
(* persisting them; the form with a value does nothing when the capacity   *)
(* is the new size.                                                        *)
ResizeVector(o) ==
  /\ Ready("vector")
  /\ o \notin raw
  /\ \E n \in 0..MaxLen :
       /\ ResizeInPlace \/ n <= Size(o) \/ n > Capacity(o)
       /\ \/ Operates(o, resize(o, n), {Sized(Contents[o], n, 0)}, Kept)
          \/ \E v \in Elems :
               Operates(o, ResizeFill(o, n, v),
                        {IF Capacity(o) = n THEN Contents[o] ELSE Sized(Contents[o], n, v)}, Kept)

(* The parts of p an iterator range may name.                              *)
Parts(p) == {<<i, n>> \in (0..MaxLen) \X (0..MaxLen) : i + n <= StrSize(p)}
Part(p, part) == SubSeq(Contents[p], part[1] + 1, part[1] + part[2])
Pointers(p, part) == Chars(p, part[1], part[2])

NewString(o, p) ==
  /\ Ready("string")
  /\ \/ \E n \in 0..MaxLen, v \in Elems : Constructs(o, StringFill(o, n, v), {Fills(n, v)}, Kept)
     \/ \E s \in Ranges : Constructs(o, StringIter(o, s), {s}, Kept)
     \/ p \notin raw /\ \E t \in Parts(p) : Constructs(o, StringIter(o, Pointers(p, t)), {Part(p, t)}, Kept)
     \/ /\ p \notin raw
        /\ Constructs(o, StringMove(o, p), {Contents[p]},
                      With(p, {<<>>, Contents[p]}))

DropString(o) ==
  /\ Ready("string")
  /\ o \notin raw /\ raw' = raw \cup {o}
  /\ Do(o, Destroy(o), {<<>>}, Kept)

(* A source may be a part of the string itself.  Moving leaves a short     *)
(* source empty; a large one is left empty, or as it was when its          *)
(* characters were copied.                                                 *)
AssignString(o, p) ==
  /\ Ready("string")
  /\ \/ \E n \in 0..MaxLen, v \in Elems : Operates(o, StrAssignFill(o, n, v), {Fills(n, v)}, Kept)
     \/ \E s \in Ranges : Operates(o, StrAssignIter(o, s), {s}, Kept)
     \/ \E q \in Objects \ raw : \E t \in Parts(q) :
          Operates(o, StrAssignIter(o, Pointers(q, t)), {Part(q, t)}, Kept)
     \/ /\ p \notin raw
        /\ Operates(o, StrAssignMove(o, p), {Contents[p]}, With(p, {<<>>, Contents[p]}))
     \/ \E i \in 1..Len(Contents[o]), v \in Elems :
          Operates(o, StrAt(o, i - 1, v), {[Contents[o] EXCEPT ![i] = v]}, Kept)

CapacityOfString(o) ==
  /\ Ready("string")
  /\ \/ \E n \in 0..MaxCap : Operates(o, StrReserve(o, n), {Contents[o]}, Kept)
     \/ Operates(o, StrShrinkToFit(o), {Contents[o]}, Kept)

(* A string whose vector was moved away has no terminator to insert before. *)
Hollow(o) == ~is_sso_used(o) /\ Size(o) = 0

EditString(o) ==
  /\ Ready("string")
  /\ \/ \E i \in 0..Len(Contents[o]) : \E n \in 0..(Len(Contents[o]) - i) :
          Operates(o, StrErase(o, i, n), {Cut(Contents[o], i, n)}, Kept)
     \/ /\ o \notin raw /\ (HollowAppend \/ ~Hollow(o))
        /\ \/ \E n \in 0..MaxLen, v \in Elems :
                Operates(o, AppendFill(o, n, v), {Contents[o] \o Fills(n, v)}, Kept)
           \/ \E s \in Ranges : Operates(o, AppendIter(o, s), {Contents[o] \o s}, Kept)
           \/ \E q \in Objects \ raw : \E t \in Parts(q) :
                Operates(o, AppendString(o, q, t[1], t[2]), {Contents[o] \o Part(q, t)}, Kept)
           \/ \E n \in 0..MaxLen, v \in Elems :
                Operates(o, StrResize(o, n, v), {Sized(Contents[o], n, v)}, Kept)

Operation ==
  \E o \in Objects : \E p \in Objects \ {o} :
    \/ NewVector(o, p) \/ DropVector(o) \/ AssignVector(o, p) \/ CapacityOfVector(o)
    \/ EditVector(o) \/ ResizeVector(o)
    \/ NewString(o, p) \/ DropString(o) \/ AssignString(o, p) \/ CapacityOfString(o)
    \/ EditString(o)

(* What is left of an operation or of a transaction.                       *)
Proceed ==
  /\ TxStep \/ VecCall \/ StrCall
  /\ UNCHANGED <<type, raw, calls, ops, before, want>>

Finish ==
  /\ Commit
  /\ UNCHANGED <<type, raw, calls, ops, before, want>>

Fails ==
  /\ Abort \/ Crash
  /\ raw' = before.raw
  /\ UNCHANGED <<type, calls, ops, before, want>>

(* The caller leaves the transaction; the bookkeeping starts afresh.       *)
Leave ==
  /\ Done
  /\ calls' = 0
  /\ before' = [contents |-> [o \in Objects |-> <<>>], raw |-> raw]
  /\ want' = [o \in Objects |-> {<<>>}]
  /\ UNCHANGED <<type, raw, ops>>

(* The caller stops at the bound.                                          *)
Rest == stage = "none" /\ ops = MaxOps /\ UNCHANGED vars

Next == Operation \/ Proceed \/ Finish \/ Fails \/ Leave \/ Rest

Spec == Init /\ [][Next]_vars

-----------------------------------------------------------------------------
Live == Objects \ raw
IsLarge(o) == type = "vector" \/ ~is_sso_used(o)
Large == {o \in Live : IsLarge(o) /\ Data(o) # Null}

(* The words a reader of the container at o can reach.                     *)
Reaches(o) == IF IsLarge(o) THEN Span(o, 3) \cup Span(Data(o), Size(o)) ELSE Span(o, StrSize(o) + 2)

(* When an operation returns, the containers hold what it means for a      *)
(* sequence: no element is lost, moved or duplicated by a reallocation, a  *)
(* gap, a shift or a change between the short and the large form.          *)
OperationIsExact ==
  stage = "work" /\ todo = <<>> => \A o \in Objects : Contents[o] \in want[o]

(* An aborted or interrupted transaction leaves no trace: the containers   *)
(* read as before it, whatever unflushed stores had reached the medium.    *)
AllOrNothing ==
  stage = "onabort" => Contents = before.contents /\ raw = before.raw

(* After the commit every word a reader can reach is on the medium: an     *)
(* element stored in memory that was neither snapshotted nor allocated in  *)
(* the transaction is persisted by hand.                                   *)
CommittedIsDurable ==
  stage = "oncommit" => \A o \in Live : \A a \in Reaches(o) : mem[a] = dur[a]

(* A transaction ends with all of its operations on the medium or none.    *)
EndsWhole == AllOrNothing /\ CommittedIsDurable

(* Outside a transaction the allocated blocks are exactly the arrays of    *)
(* the containers, one each, and each holds its container's capacity.      *)
NoBlockLost ==
  stage \in {"oncommit", "onabort"} =>
    /\ {b \in Blocks : size[b] > 0} = {Data(o) : o \in Large}
    /\ \A o \in Large : \A p \in Large \ {o} : Data(o) # Data(p)
    /\ \A o \in Large : size[Data(o)] = Capacity(o) /\ Size(o) <= Capacity(o)

(* Between operations a string ends with its terminator.                   *)
Terminated ==
  type = "string" /\ todo = <<>> => \A o \in Live : IsTerminated(o)

(* A store goes to a root object or inside an allocated block.             *)
StoresInBounds ==
  \/ todo = <<>>
  \/ Call[1] \notin {"store", "copy"}
  \/ \E o \in Objects : Call[2] \in Span(o, Words)
  \/ \E b \in Blocks : Call[2] \in Span(b, size[b])

(* The operations leave sound memory: no block is lost or shared, no store *)
(* leaves the object or block it is meant for, strings are terminated.     *)
MemorySound == NoBlockLost /\ StoresInBounds /\ Terminated
=============================================================================
