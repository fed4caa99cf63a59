------------------------------ MODULE PVector -------------------------------
(***************************************************************************)
(* experimental/vector.hpp: a vector in persistent memory.  The object is  *)
(* three words, _size, _capacity and _data.  Each operator below is the    *)
(* body of the function it is named after, as the sequence of calls it     *)
(* makes from the present state of the pool; the element type is trivially *)
(* copyable, so destroying an element does nothing.                        *)
(***************************************************************************)
EXTENDS PmemTx

Size(o) == mem[o]
Capacity(o) == mem[o + 1]
Data(o) == mem[o + 2]

(* The addresses of n elements of the vector at o, from index i.           *)
Elements(o, i, n) == [k \in 1..n |-> Data(o) + i + k - 1]
VecContents(o) == [k \in 1..Size(o) |-> mem[Data(o) + k - 1]]

Set(a, v) == <<"assign", a, v>>
Copies(a, src) == [k \in 1..Len(src) |-> <<"copy", a + k - 1, src[k]>>]

MinOf(x, y) == IF x < y THEN x ELSE y

(* next_pow_2: the smallest power of two not below n; 1 for 0.             *)
next_pow_2(n) ==
  IF n = 0 THEN 1 ELSE CHOOSE p \in {2^k : k \in 0..6} : p >= n /\ p < 2 * n

snapshot_data(o, i, j) == << <<"snapshot", Span(Data(o) + i, j - i)>> >>

alloc(o, n) ==
  <<Set(o + 1, n)>> \o (IF n = 0 THEN <<>> ELSE << <<"tx_alloc", n, o + 2>> >>)

construct(o, i, n, v) ==
  [k \in 1..n |-> <<"store", Data(o) + i + k - 1, v>>] \o <<Set(o, Size(o) + n)>>

construct_range(o, i, src) ==
  <<Set(o, Size(o) + Len(src))>> \o Copies(Data(o) + i, src)

shrink(o, n) == snapshot_data(o, n, Size(o)) \o <<Set(o, n)>>

dealloc(o) ==
  IF Data(o) = Null THEN <<>>
  ELSE << <<"shrink", o, 0>>, <<"tx_free", Data(o)>>, Set(o + 2, Null), Set(o + 1, 0)>>

Detach(o) == <<Set(o + 2, Null), Set(o + 1, 0), Set(o, 0)>>

realloc(o, n) ==
  snapshot_data(o, 0, Size(o)) \o Detach(o)
    \o << <<"alloc", o, n>>,
          <<"construct_range", o, 0, Elements(o, 0, MinOf(n, Size(o)))>>,
          <<"tx_free", Data(o)>> >>

(* Mutant of MoveBackward: the first element first.                        *)
MoveBackward_Forward(o, idx, count) ==
  [k \in 1..(Size(o) - idx) |-> <<"copy", Data(o) + idx + count + k - 1, Data(o) + idx + k - 1>>]

(* The elements from idx on move up by count, the last one first.          *)
MoveBackward(o, idx, count) ==
  [k \in 1..(Size(o) - idx) |->
     <<"copy", Data(o) + Size(o) + count - k, Data(o) + Size(o) - k>>]

(* insert_gap when the elements do not fit: a new array with the gap.      *)
GapInNewArray(o, idx, count) ==
  snapshot_data(o, 0, Size(o)) \o Detach(o)
    \o << <<"alloc", o, next_pow_2(Size(o) + count)>>,
          <<"construct_range", o, 0, Elements(o, 0, idx)>>,
          <<"construct_range", o, idx + count, Elements(o, idx, Size(o) - idx)>>,
          <<"tx_free", Data(o)>> >>

(* Mutant of insert_gap: one element too many counts as fitting.           *)
insert_gap_OneMore(o, idx, count) ==
  IF Capacity(o) + 1 >= Size(o) + count
  THEN snapshot_data(o, idx, Size(o) + count) \o MoveBackward(o, idx, count)
  ELSE GapInNewArray(o, idx, count)

insert_gap(o, idx, count) ==
  IF Capacity(o) >= Size(o) + count
  THEN snapshot_data(o, idx, Size(o) + count) \o MoveBackward(o, idx, count)
  ELSE GapInNewArray(o, idx, count)

insert(o, idx, count, v) == << <<"insert_gap", o, idx, count>>, <<"construct", o, idx, count, v>> >>

InsertRange(o, idx, src) ==
  << <<"insert_gap", o, idx, Len(src)>>, <<"construct_range", o, idx, src>> >>

erase(o, idx, count) ==
  IF count = 0 THEN <<>>
  ELSE snapshot_data(o, idx, Size(o))
         \o Copies(Data(o) + idx, Elements(o, idx + count, Size(o) - idx - count))
         \o <<Set(o, Size(o) - count)>>

(* Mutant of emplace_back: the new element is not persisted.               *)
emplace_back_Unflushed(o, v) ==
  (IF Size(o) = Capacity(o) THEN << <<"realloc", o, next_pow_2(Size(o) + 1)>> >> ELSE <<>>)
    \o << <<"construct", o, Size(o), 1, v>> >>

emplace_back(o, v) ==
  (IF Size(o) = Capacity(o) THEN << <<"realloc", o, next_pow_2(Size(o) + 1)>> >> ELSE <<>>)
    \o << <<"construct", o, Size(o), 1, v>>, <<"persist_elements", o, Size(o), 1>> >>

pop_back(o) == IF Size(o) = 0 THEN <<>> ELSE shrink(o, Size(o) - 1)

(* assign(count, value)                                                    *)
AssignFill(o, n, v) ==
  IF n <= Capacity(o)
  THEN snapshot_data(o, 0, Size(o))
         \o [k \in 1..MinOf(n, Size(o)) |-> <<"store", Data(o) + k - 1, v>>]
         \o (IF n > Size(o)
             THEN << <<"construct", o, Size(o), n - Size(o), v>>,
                     <<"persist_elements", o, Size(o), n - Size(o)>> >>
             ELSE << <<"shrink", o, n>> >>)
  ELSE << <<"dealloc", o>>, <<"alloc", o, n>>, <<"construct", o, 0, n, v>> >>

(* assign(first, last)                                                     *)
AssignRange(o, src) ==
  IF Len(src) <= Capacity(o)
  THEN snapshot_data(o, 0, Size(o))
         \o Copies(Data(o), SubSeq(src, 1, MinOf(Len(src), Size(o))))
         \o (IF Len(src) > Size(o)
             THEN << <<"construct_range", o, Size(o), SubSeq(src, Size(o) + 1, Len(src))>>,
                     <<"persist_elements", o, Size(o), Len(src) - Size(o)>> >>
             ELSE << <<"shrink", o, Len(src)>> >>)
  ELSE << <<"dealloc", o>>, <<"alloc", o, Len(src)>>, <<"construct_range", o, 0, src>> >>

(* The three words of p are taken over by o, and p is left empty.          *)
Steal(o, p) ==
  <<Set(o + 2, Data(p)), Set(o + 1, Capacity(p)), Set(o, Size(p)),
    Set(p + 2, Null), Set(p, 0), Set(p + 1, 0)>>

(* assign(vector &&)                                                       *)
AssignMove(o, p) == IF o = p THEN <<>> ELSE << <<"dealloc", o>> >> \o Steal(o, p)

(* assign(const vector &)                                                  *)
AssignCopy(o, p) == IF o = p THEN <<>> ELSE AssignRange(o, Elements(p, 0, Size(p)))

reserve(o, n) == IF n <= Capacity(o) THEN <<>> ELSE << <<"realloc", o, n>> >>

shrink_to_fit(o) == IF Capacity(o) = Size(o) THEN <<>> ELSE << <<"realloc", o, Size(o)>> >>

ResizeTo(o, n, v) ==
  IF n <= Size(o) THEN shrink(o, n)
  ELSE (IF Capacity(o) < n THEN << <<"realloc", o, n>> >> ELSE <<>>)
         \o << <<"construct", o, Size(o), n - Size(o), v>> >>

(* resize(count), whose new elements are value-initialised                 *)
resize(o, n) == ResizeTo(o, n, 0)

(* resize(count, value)                                                    *)
ResizeFill(o, n, v) == IF Capacity(o) = n THEN <<>> ELSE ResizeTo(o, n, v)

swap(o, p) ==
  <<Set(o + 2, Data(p)), Set(p + 2, Data(o)), Set(o, Size(p)), Set(p, Size(o)),
    Set(o + 1, Capacity(p)), Set(p + 1, Capacity(o))>>

free_data(o) == IF Data(o) = Null THEN <<>> ELSE << <<"dealloc", o>> >>

(* Constructors.                                                           *)
Vector(o) == <<Set(o + 2, Null), Set(o, 0), Set(o + 1, 0)>>
VectorEmpty(o) == <<Set(o + 2, Null), Set(o, 0)>>
VectorFill(o, n, v) == VectorEmpty(o) \o << <<"alloc", o, n>>, <<"construct", o, 0, n, v>> >>
VectorRange(o, src) ==
  VectorEmpty(o) \o << <<"alloc", o, Len(src)>>, <<"construct_range", o, 0, src>> >>
VectorCopy(o, p) ==
  VectorEmpty(o) \o << <<"alloc", o, Capacity(p)>>,
                       <<"construct_range", o, 0, Elements(p, 0, Size(p))>> >>
VectorMove(o, p) == Steal(o, p)

(* at, operator[], front, back: the element is snapshotted, the caller     *)
(* stores through the reference.                                           *)
at(o, i, v) ==
  << <<"snapshot", {Data(o) + i}>>, <<"store", Data(o) + i, v>> >>

VecBody(c) ==
  CASE c[1] = "alloc" -> alloc(c[2], c[3])
    [] c[1] = "construct" -> construct(c[2], c[3], c[4], c[5])
    [] c[1] = "construct_range" -> construct_range(c[2], c[3], c[4])
    [] c[1] = "shrink" -> shrink(c[2], c[3])
    [] c[1] = "dealloc" -> dealloc(c[2])
    [] c[1] = "realloc" -> realloc(c[2], c[3])
    [] c[1] = "insert_gap" -> insert_gap(c[2], c[3], c[4])
    [] c[1] = "persist_elements" -> << <<"persist", Span(Data(c[2]) + c[3], c[4])>> >>
    [] c[1] = "reserve" -> reserve(c[2], c[3])
    [] c[1] = "insert" -> insert(c[2], c[3], c[4], c[5])
    [] c[1] = "insert_range" -> InsertRange(c[2], c[3], c[4])
    [] c[1] = "erase" -> erase(c[2], c[3], c[4])
    [] c[1] = "emplace_back" -> emplace_back(c[2], c[3])
    [] c[1] = "assign_fill" -> AssignFill(c[2], c[3], c[4])
    [] c[1] = "assign_range" -> AssignRange(c[2], c[3])
    [] c[1] = "assign_move" -> AssignMove(c[2], c[3])
    [] c[1] = "shrink_to_fit" -> shrink_to_fit(c[2])
    [] c[1] = "resize_fill" -> ResizeFill(c[2], c[3], c[4])
    [] c[1] = "free_data" -> free_data(c[2])
    [] c[1] = "vector" -> Vector(c[2])
    [] c[1] = "at" -> at(c[2], c[3], c[4])

VecCalls == {"alloc", "construct", "construct_range", "shrink", "dealloc", "realloc",
             "insert_gap", "persist_elements", "reserve", "insert", "insert_range",
             "erase", "emplace_back", "assign_fill", "assign_range", "assign_move",
             "shrink_to_fit", "resize_fill", "free_data", "vector", "at"}

(* A call of a vector function is replaced by its body.                    *)
VecCall ==
  /\ stage = "work" /\ todo # <<>> /\ Call[1] \in VecCalls
  /\ Expand(VecBody(Call))
=============================================================================
