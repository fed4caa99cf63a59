------------------------------ MODULE PString -------------------------------
(***************************************************************************)
(* experimental/basic_string.hpp: a string in persistent memory.  The      *)
(* object is a union: word 0 is sso._size and the vector's _size, the      *)
(* words after it are the characters of a short string or the vector's     *)
(* _capacity and _data.  The top bit of word 0 (SsoMask) says which.  A    *)
(* large string keeps its terminator in the vector.                        *)
(***************************************************************************)
EXTENDS PVector

CONSTANTS SsoCapacity,   \* characters of a short string, without terminator
          SsoMask        \* the top bit of size_type

Terminator == 0

is_sso_used(o) == mem[o] >= SsoMask
get_sso_size(o) == mem[o] % SsoMask
StrSize(o) == IF is_sso_used(o) THEN get_sso_size(o)
              ELSE IF Size(o) = 0 THEN 0 ELSE Size(o) - 1

(* capacity() subtracts in size_type: an empty vector has the largest one. *)
StrCapacity(o) == IF is_sso_used(o) THEN SsoCapacity ELSE (Capacity(o) - 1) % (2 * SsoMask)

SsoData(o) == o + 1
Chars(o, i, n) == IF is_sso_used(o) THEN [k \in 1..n |-> SsoData(o) + i + k - 1] ELSE Elements(o, i, n)
StrContents(o) == [k \in 1..StrSize(o) |-> mem[Chars(o, 0, StrSize(o))[k]]]

(* The character after the last one is the terminator.                     *)
IsTerminated(o) ==
  IF is_sso_used(o) THEN mem[SsoData(o) + StrSize(o)] = Terminator
  ELSE Size(o) > 0 => mem[Data(o) + StrSize(o)] = Terminator

(* The forms of the arguments of replace and initialize: count copies of a *)
(* character, an iterator range, or a string to move from.                 *)
Fill(n, v) == [form |-> "fill", n |-> n, v |-> v]
Iter(src) == [form |-> "iter", src |-> src]
Move(p) == [form |-> "move", p |-> p]
get_size(x) == CASE x.form = "fill" -> x.n
                 [] x.form = "iter" -> Len(x.src)
                 [] x.form = "move" -> StrSize(x.p)

snapshot_sso(o) == << <<"snapshot", Span(SsoData(o), SsoCapacity + 1)>> >>
set_sso_size(o, n) == Set(o, n + SsoMask)
enable_sso(o) == Set(o, get_sso_size(o) + SsoMask)
disable_sso(o) == Set(o, get_sso_size(o))

(* sso.data[i] = v                                                         *)
SsoPut(o, i, v) == << <<"snapshot", {SsoData(o) + i}>>, <<"store", SsoData(o) + i, v>> >>

destroy_data(o) ==
  IF is_sso_used(o) THEN snapshot_sso(o) ELSE << <<"free_data", o>>, <<"free_data", o>> >>

allocate(o, n) ==
  IF n <= SsoCapacity THEN <<enable_sso(o)>>
  ELSE <<disable_sso(o), <<"snapshot", Span(o, 3)>>, <<"vector", o>>, <<"reserve", o, n + 1>> >>

assign_sso_data(o, x) ==
  << <<"snapshot", Span(SsoData(o), get_size(x) + 1)>> >>
    \o (CASE x.form = "fill" -> [k \in 1..x.n |-> <<"store", SsoData(o) + k - 1, x.v>>]
          [] x.form = "iter" -> Copies(SsoData(o), x.src)
          [] x.form = "move" -> Copies(SsoData(o), Chars(x.p, 0, StrSize(x.p))))
    \o << <<"store", SsoData(o) + get_size(x), Terminator>> >>

(* data() of a large string snapshots its elements.                        *)
assign_large_data(o, x) ==
  CASE x.form = "fill" ->
         << <<"reserve", o, x.n + 1>>, <<"assign_fill", o, x.n, x.v>>,
            <<"emplace_back", o, Terminator>>, <<"data", o>> >>
    [] x.form = "iter" ->
         << <<"reserve", o, Len(x.src) + 1>>, <<"assign_range", o, x.src>>,
            <<"emplace_back", o, Terminator>>, <<"data", o>> >>
    [] x.form = "move" ->
         IF is_sso_used(x.p)
         THEN << <<"assign_large_data", o, Iter(Chars(x.p, 0, StrSize(x.p)))>> >>
         ELSE << <<"assign_move", o, x.p>>, <<"data", o>> >>

initialize(o, x) ==
  IF is_sso_used(o)
  THEN <<set_sso_size(o, get_size(x)), <<"assign_sso_data", o, x>> >>
  ELSE << <<"assign_large_data", o, x>> >>

replace(o, x) ==
  IF ~is_sso_used(o) /\ get_size(x) <= StrCapacity(o)
  THEN << <<"assign_large_data", o, x>> >>
  ELSE << <<"destroy_data", o>>, <<"allocate", o, get_size(x)>>, <<"initialize", o, x>> >>

(* The characters pass through a temporary on the stack.                   *)
sso_to_large(o, n) ==
  << <<"destroy_data", o>>, <<"allocate", o, n>>, <<"initialize", o, Iter(StrContents(o))>> >>
large_to_sso(o) ==
  << <<"destroy_data", o>>, <<"allocate", o, StrSize(o)>>, <<"initialize", o, Iter(StrContents(o))>> >>

(* The constructors from a count of characters, from a range of any        *)
(* origin, and from a string to move.                                      *)
StringOf(o, x) == <<Set(o, 0), <<"allocate", o, get_size(x)>>, <<"initialize", o, x>> >>
StringFill(o, n, v) == StringOf(o, Fill(n, v))
StringIter(o, src) == StringOf(o, Iter(src))
StringMove(o, p) == StringOf(o, Move(p)) \o << <<"reset_source", p>> >>

(* A string moved from is emptied if it is a short one.                    *)
reset_source(p) == IF is_sso_used(p) THEN initialize(p, Fill(0, Terminator)) ELSE <<>>

(* The forms of assign.                                                    *)
StrAssignFill(o, n, v) == replace(o, Fill(n, v))
StrAssignIter(o, src) == replace(o, Iter(src))
StrAssignMove(o, p) == IF o = p THEN <<>> ELSE replace(o, Move(p)) \o << <<"reset_source", p>> >>

Destroy(o) == IF is_sso_used(o) THEN <<>> ELSE << <<"free_data", o>> >>

StrErase(o, i, n) ==
  IF is_sso_used(o)
  THEN << <<"snapshot", Span(SsoData(o) + i, StrSize(o) - i - n + 1)>> >>
         \o Copies(SsoData(o) + i, Chars(o, i + n, StrSize(o) - i - n))
         \o <<set_sso_size(o, StrSize(o) - n)>> \o SsoPut(o, StrSize(o) - n, Terminator)
  ELSE << <<"erase", o, i, n>> >>

(* A short string that stays short: the room is snapshotted, the calls     *)
(* that store the characters run, then the size and the terminator.        *)
AppendShort(o, n, stores) ==
  snapshot_sso(o) \o << <<"snapshot", Span(SsoData(o) + StrSize(o), n + 1)>> >> \o stores
    \o <<set_sso_size(o, StrSize(o) + n)>> \o SsoPut(o, StrSize(o) + n, Terminator)

(* append(count, ch)                                                       *)
AppendFill(o, n, v) ==
  CASE ~is_sso_used(o) -> << <<"insert", o, StrSize(o), n, v>> >>
    [] is_sso_used(o) /\ StrSize(o) + n > SsoCapacity ->
         << <<"sso_to_large", o, StrSize(o) + n>>, <<"insert", o, StrSize(o), n, v>> >>
    [] OTHER ->
         AppendShort(o, n, [k \in 1..n |-> <<"store", SsoData(o) + StrSize(o) + k - 1, v>>])

(* append(first, last): a short string that becomes a large one first      *)
(* copies the range, which may be its own, to the stack.                   *)
AppendIter(o, src) ==
  CASE ~is_sso_used(o) -> << <<"insert_range", o, StrSize(o), src>> >>
    [] is_sso_used(o) /\ StrSize(o) + Len(src) > SsoCapacity ->
         << <<"sso_to_large", o, StrSize(o) + Len(src)>>,
            <<"insert_range", o, StrSize(o), [k \in 1..Len(src) |-> Value(src[k])]>> >>
    [] OTHER -> AppendShort(o, Len(src), Copies(SsoData(o) + StrSize(o), src))

(* append of n characters of a string, from i                              *)
AppendString(o, q, i, n) == AppendIter(o, Chars(q, i, n))

StrResize(o, n, v) ==
  CASE n > StrSize(o) -> AppendFill(o, n - StrSize(o), v)
    [] n <= StrSize(o) /\ is_sso_used(o) -> <<set_sso_size(o, n)>> \o SsoPut(o, n, Terminator)
    [] OTHER -> << <<"resize_fill", o, n + 1, v>>, <<"back", o, Terminator>> >>

StrReserve(o, n) ==
  IF n < StrCapacity(o) \/ n <= SsoCapacity THEN <<>>
  ELSE IF is_sso_used(o) THEN sso_to_large(o, n) ELSE << <<"reserve", o, n + 1>> >>

StrShrinkToFit(o) ==
  IF is_sso_used(o) THEN <<>>
  ELSE IF StrSize(o) <= SsoCapacity THEN large_to_sso(o) ELSE << <<"shrink_to_fit", o>> >>

(* operator[]: the character is snapshotted, the caller stores.            *)
StrAt(o, i, v) == IF is_sso_used(o) THEN SsoPut(o, i, v) ELSE << <<"at", o, i, v>> >>

StrBody(c) ==
  CASE c[1] = "destroy_data" -> destroy_data(c[2])
    [] c[1] = "allocate" -> allocate(c[2], c[3])
    [] c[1] = "initialize" -> initialize(c[2], c[3])
    [] c[1] = "assign_sso_data" -> assign_sso_data(c[2], c[3])
    [] c[1] = "assign_large_data" -> assign_large_data(c[2], c[3])
    [] c[1] = "reset_source" -> reset_source(c[2])
    [] c[1] = "sso_to_large" -> sso_to_large(c[2], c[3])
    [] c[1] = "data" -> << <<"snapshot", Span(Data(c[2]), Size(c[2]))>> >>
    [] c[1] = "back" -> << <<"at", c[2], Size(c[2]) - 1, c[3]>> >>

StrCalls == {"destroy_data", "allocate", "initialize", "assign_sso_data",
             "assign_large_data", "reset_source", "sso_to_large", "data", "back"}

(* A call of a string function is replaced by its body.                    *)
StrCall ==
  /\ stage = "work" /\ todo # <<>> /\ Call[1] \in StrCalls
  /\ Expand(StrBody(Call))
=============================================================================
