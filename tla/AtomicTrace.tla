----------------------------- MODULE AtomicTrace -----------------------------
(***************************************************************************)
(* What the tracing runtime promises to the tools that read output.txt:    *)
(* the log grows by whole records.  A record is the one line of a call, or *)
(* the line of an access followed by its DEP lines in ascending order of   *)
(* source; it is tagged with one thread, is computed from the tables as    *)
(* they stand when it is appended, and nothing is ever printed between two *)
(* lines of one record.  There is no mutex here and no buffer.             *)
(***************************************************************************)
EXTENDS Integers, Sequences, FiniteSets

CONSTANTS
  Threads, Ids, Funcs,
  Addrs, Ends, Sizes,   \* first addresses, ends of ranges, lengths of accesses
  PlainKinds            \* the lines that depend on no table

VARIABLES
  ready,     \* the runtime is initialised
  registry,  \* the registered ranges
  count,     \* the counter of every function
  dep,       \* the registered dependences
  traced,    \* the ids that appear in the log
  entries    \* the log: a sequence of [text, tid]

avars == <<ready, registry, count, dep, traced, entries>>

Entry(t, line) == [text |-> [by |-> t, line |-> line], tid |-> t]
Entries(t, lines) == [i \in DOMAIN lines |-> Entry(t, lines[i])]
Extend(t, lines) == entries' = entries \o Entries(t, lines)

Init ==
  /\ ready = FALSE
  /\ registry = {}
  /\ count = [f \in Funcs |-> 0]
  /\ dep = {}
  /\ traced = {}
  /\ entries = <<>>

Initialize ==
  /\ ~ready
  /\ ready' = TRUE
  /\ registry' = {} /\ count' = [f \in Funcs |-> 0] /\ dep' = {} /\ traced' = {}
  /\ UNCHANGED entries

(* Any first address is announced and registered with any end; before      *)
(* Initialize only the pool wrappers do so.                                *)
Register(t, b, e) ==
  /\ Extend(t, << <<"Adding", b, e>> >>)
  /\ registry' = {p \in registry : p[1] # b} \cup {<<b, e>>}
  /\ UNCHANGED <<ready, count, dep, traced>>

Unregister(t, b) ==
  /\ ready
  /\ Extend(t, << <<"Adding", b, 0>> >>)
  /\ registry' = {p \in registry : p[1] # b}
  /\ UNCHANGED <<ready, count, dep, traced>>

Plain(t, kind) ==
  /\ ready
  /\ Extend(t, << <<kind, 0, 0>> >>)
  /\ UNCHANGED <<ready, registry, count, dep, traced>>

Begin(t, f) ==
  /\ ready
  /\ count' = [count EXCEPT ![f] = IF @ = 0 THEN 1 ELSE @]
  /\ Extend(t, << <<"FUNC_BEGIN", f, count'[f]>> >>)
  /\ UNCHANGED <<ready, registry, dep, traced>>

(* A function ends only after it has begun. *)
End(t, f) ==
  /\ ready
  /\ count[f] # 0
  /\ Extend(t, << <<"FUNC_END", f, count[f]>> >>)
  /\ count' = [count EXCEPT ![f] = @ + 1]
  /\ UNCHANGED <<ready, registry, dep, traced>>

Depend(s, d) ==
  /\ ready
  /\ dep' = dep \cup {<<s, d>>}
  /\ UNCHANGED <<ready, registry, count, traced, entries>>

(* An access in a registered range, with the traced sources it depends on. *)
Record(t, kind, a, n, id) ==
  /\ ready
  /\ \E p \in registry : p[1] <= a /\ a + n <= p[2]
  /\ traced' = traced \cup {id}
  /\ LET S == {s \in traced' : <<s, id>> \in dep}
     IN \E q \in [1 .. Cardinality(S) -> S] :
          /\ \A i, j \in DOMAIN q : i < j => q[i] < q[j]
          /\ Extend(t, << <<kind, id, a>> >> \o [i \in DOMAIN q |-> <<"DEP", q[i], id>>])
  /\ UNCHANGED <<ready, registry, count, dep>>

Next ==
  \/ Initialize
  \/ \E t \in Threads :
       \/ \E b \in Addrs, e \in Ends : Register(t, b, e)
       \/ \E b \in Addrs : Unregister(t, b)
       \/ \E kind \in PlainKinds : Plain(t, kind)
       \/ \E f \in Funcs : Begin(t, f) \/ End(t, f)
       \/ \E kind \in {"Store", "Load"}, a \in Addrs, n \in Sizes, id \in Ids :
            Record(t, kind, a, n, id)
  \/ \E s, d \in Ids : Depend(s, d)

Spec == Init /\ [][Next]_avars
-------------------------------------------------------------------------------
(***************************************************************************)
(* What a reader of the log may rely on, and the invariant that gives it.  *)
(***************************************************************************)
AccessKinds == {"Store", "Load"}
CallKinds == {"FUNC_BEGIN", "FUNC_END"}

Line(i) == entries[i].text.line

Lines == ({"Adding"} \X Addrs \X (Ends \cup {0})) \cup (PlainKinds \X {0} \X {0})
           \cup (CallKinds \X Funcs \X Nat) \cup (AccessKinds \X Ids \X Addrs)
           \cup ({"DEP"} \X Ids \X Ids)
Tagged == [text : [by : Threads, line : Lines], tid : Threads]

TypeOK ==
  /\ ready \in BOOLEAN
  /\ count \in [Funcs -> Nat]
  /\ traced \subseteq Ids
  /\ dep \subseteq Ids \X Ids
  /\ entries \in Seq(Tagged)

(* A DEP line names a source that has been printed before, and follows the *)
(* line of its access, by the same thread, with only DEP lines between.    *)
Traced(s, i) == \E j \in 1 .. i - 1 : Line(j)[1] \in AccessKinds /\ Line(j)[2] = s
Follows(i) ==
  \E j \in 1 .. i - 1 :
    /\ Line(j)[1] \in AccessKinds /\ Line(j)[2] = Line(i)[3]
    /\ \A k \in j .. i - 1 : entries[k].tid = entries[i].tid
    /\ \A k \in j + 1 .. i - 1 : Line(k)[1] = "DEP"
DepsFollow ==
  \A i \in DOMAIN entries : Line(i)[1] = "DEP" => Traced(Line(i)[2], i) /\ Follows(i)

(* The lines of the calls of a function carry their number.                *)
EndsBefore(i, f) == {j \in 1 .. i - 1 : Line(j)[1] = "FUNC_END" /\ Line(j)[2] = f}
CallsNumbered ==
  \A i \in DOMAIN entries :
    Line(i)[1] \in CallKinds => Line(i)[3] = 1 + Cardinality(EndsBefore(i, Line(i)[2]))

(* The tables agree with the log: every traced id has its line; a counter  *)
(* is set by the first FUNC_BEGIN and is then one more than the FUNC_END   *)
(* lines; before Initialize only ranges are announced.                     *)
TracedInLog == \A s \in traced : Traced(s, Len(entries) + 1)
EndsCounted ==
  \A f \in Funcs :
    Cardinality(EndsBefore(Len(entries) + 1, f)) = IF count[f] = 0 THEN 0 ELSE count[f] - 1
BegunCounted ==
  \A i \in DOMAIN entries : Line(i)[1] = "FUNC_BEGIN" => count[Line(i)[2]] # 0
QuietUntilReady == ~ready => \A i \in DOMAIN entries : Line(i)[1] = "Adding"

(* Finitely many instructions; a plain line is told from every other one.  *)
KindsApart ==
  /\ IsFiniteSet(Ids)
  /\ PlainKinds \cap ({"Adding", "DEP"} \cup AccessKinds \cup CallKinds) = {}

TraceInv ==
  /\ TypeOK /\ DepsFollow /\ CallsNumbered
  /\ TracedInLog /\ EndsCounted /\ BegunCounted /\ QuietUntilReady
===============================================================================
