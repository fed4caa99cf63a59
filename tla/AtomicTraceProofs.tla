-------------------------- MODULE AtomicTraceProofs --------------------------
(***************************************************************************)
(* What follows from the log's growing by whole records: DEP lines follow  *)
(* their access and name traced sources, and calls are numbered.           *)
(***************************************************************************)
EXTENDS AtomicTrace, TLAPS, FiniteSetTheorems

(* A function on an interval from 1 is a sequence. *)
LEMMA FunIsSeq ==
  ASSUME NEW S, NEW n \in Nat, NEW f \in [1 .. n -> S]
  PROVE  f \in Seq(S)
  OBVIOUS

(* A sequence is a function on an interval from 1. *)
LEMMA SeqIsFun ==
  ASSUME NEW S, NEW s \in Seq(S)
  PROVE  Len(s) \in Nat /\ s \in [1 .. Len(s) -> S] /\ DOMAIN s = 1 .. Len(s)
  OBVIOUS

(* Two sequences in a row. *)
LEMMA ConcatIs ==
  ASSUME NEW S, NEW a \in Seq(S), NEW b \in Seq(S)
  PROVE  /\ a \o b \in Seq(S) /\ Len(a \o b) = Len(a) + Len(b)
         /\ \A i \in 1 .. Len(a) + Len(b) :
              (a \o b)[i] = IF i <= Len(a) THEN a[i] ELSE b[i - Len(a)]
  OBVIOUS

(* A function on 1 .. m is a sequence of length m. *)
LEMMA FunctionSeq ==
  ASSUME NEW S, NEW m \in Nat, NEW f \in [1 .. m -> S]
  PROVE  f \in Seq(S) /\ Len(f) = m
  <1>1. f \in Seq(S)
    BY FunIsSeq, Zenon
  <1>2. DOMAIN f = 1 .. m
    OBVIOUS
  <1> QED
    BY <1>1, <1>2, SeqIsFun

(* The lines of a record, tagged, are a sequence of entries. *)
LEMMA EntriesType ==
  ASSUME NEW t \in Threads, NEW lines \in Seq(Lines)
  PROVE  /\ Entries(t, lines) \in Seq(Tagged)
         /\ Len(Entries(t, lines)) = Len(lines)
         /\ \A i \in 1 .. Len(lines) : Entries(t, lines)[i] = Entry(t, lines[i])
  <1>1. DOMAIN lines = 1 .. Len(lines) /\ Len(lines) \in Nat
    OBVIOUS
  <1>2. \A i \in 1 .. Len(lines) : Entry(t, lines[i]) \in Tagged
    <2> TAKE i \in 1 .. Len(lines)
    <2>1. lines[i] \in Lines
      BY <1>1
    <2> QED
      BY <2>1 DEF Entry, Tagged
  <1>3. Entries(t, lines) = [i \in 1 .. Len(lines) |-> Entry(t, lines[i])]
    BY <1>1 DEF Entries
  <1>4. Entries(t, lines) \in [1 .. Len(lines) -> Tagged]
    BY <1>2, <1>3
  <1>5. Entries(t, lines) \in Seq(Tagged)
    BY <1>1, <1>4, FunIsSeq, Zenon
  <1> QED
    BY <1>1, <1>3, <1>5, SeqIsFun

(* What concatenation leaves as it was, and where the second part goes. *)
LEMMA ConcatFacts ==
  ASSUME NEW S, NEW a \in Seq(S), NEW b \in Seq(S)
  PROVE  /\ a \o b \in Seq(S) /\ Len(a \o b) = Len(a) + Len(b)
         /\ \A i \in 1 .. Len(a) : (a \o b)[i] = a[i]
         /\ \A i \in 1 .. Len(b) : (a \o b)[Len(a) + i] = b[i]
  <1>1. /\ a \o b \in Seq(S) /\ Len(a \o b) = Len(a) + Len(b)
        /\ \A i \in 1 .. Len(a) + Len(b) :
             (a \o b)[i] = IF i <= Len(a) THEN a[i] ELSE b[i - Len(a)]
    BY ConcatIs, Zenon
  <1>2. Len(a) \in Nat /\ Len(b) \in Nat
    OBVIOUS
  <1> DEFINE c == a \o b
  <1> HIDE DEF c
  <1>3. /\ \A i \in 1 .. Len(a) : c[i] = a[i]
        /\ \A i \in 1 .. Len(b) : c[Len(a) + i] = b[i]
    <2>1. \A i \in 1 .. Len(a) + Len(b) : c[i] = IF i <= Len(a) THEN a[i] ELSE b[i - Len(a)]
      BY <1>1 DEF c
    <2>2. \A i \in 1 .. Len(a) : i \in 1 .. Len(a) + Len(b) /\ i <= Len(a)
      BY <1>2
    <2>3. \A i \in 1 .. Len(b) : /\ Len(a) + i \in 1 .. Len(a) + Len(b) /\ ~(Len(a) + i <= Len(a))
                                 /\ Len(a) + i - Len(a) = i
      BY <1>2
    <2>4. \A i \in 1 .. Len(a) : c[i] = a[i]
      BY <2>1, <2>2
    <2>5. \A i \in 1 .. Len(b) : c[Len(a) + i] = b[i]
      BY <2>1, <2>3
    <2> QED
      BY <2>4, <2>5
  <1> QED
    BY <1>1, <1>3 DEF c

(* What a record appended to the log leaves as it was. *)
LEMMA Extended ==
  ASSUME TypeOK, NEW t \in Threads, NEW lines \in Seq(Lines), Extend(t, lines)
  PROVE  /\ entries' \in Seq(Tagged)
         /\ Len(entries) \in Nat /\ Len(lines) \in Nat
         /\ Len(entries') = Len(entries) + Len(lines)
         /\ DOMAIN entries = 1 .. Len(entries)
         /\ DOMAIN entries' = 1 .. Len(entries) + Len(lines)
         /\ \A i \in 1 .. Len(entries) : entries'[i] = entries[i]
         /\ \A i \in 1 .. Len(lines) :
              entries'[Len(entries) + i] = Entry(t, lines[i])
  <1>1. entries \in Seq(Tagged) /\ entries' = entries \o Entries(t, lines)
    BY DEF TypeOK, Extend
  <1>2. /\ Entries(t, lines) \in Seq(Tagged)
        /\ Len(Entries(t, lines)) = Len(lines)
        /\ \A i \in 1 .. Len(lines) : Entries(t, lines)[i] = Entry(t, lines[i])
    BY EntriesType
  <1> DEFINE new == Entries(t, lines)
  <1> HIDE DEF new
  <1>3. /\ new \in Seq(Tagged) /\ Len(new) = Len(lines)
        /\ \A i \in 1 .. Len(lines) : new[i] = Entry(t, lines[i])
        /\ entries' = entries \o new
    BY <1>1, <1>2 DEF new
  <1>4. /\ entries \o new \in Seq(Tagged) /\ Len(entries \o new) = Len(entries) + Len(new)
        /\ \A i \in 1 .. Len(entries) : (entries \o new)[i] = entries[i]
        /\ \A i \in 1 .. Len(new) : (entries \o new)[Len(entries) + i] = new[i]
    <2>1. entries \in Seq(Tagged) /\ new \in Seq(Tagged)
      BY <1>1, <1>3
    <2> QED
      BY <2>1, ConcatFacts
  <1>5. /\ entries' \in Seq(Tagged) /\ Len(entries') = Len(entries) + Len(lines)
        /\ \A i \in 1 .. Len(entries) : entries'[i] = entries[i]
        /\ \A i \in 1 .. Len(lines) : entries'[Len(entries) + i] = Entry(t, lines[i])
    BY <1>3, <1>4, Zenon
  <1> QED
    BY <1>1, <1>5

(* One line is a record. *)
LEMMA OneLine ==
  ASSUME NEW line \in Lines
  PROVE  << line >> \in Seq(Lines) /\ Len(<< line >>) = 1 /\ << line >>[1] = line
  OBVIOUS

(* The lines of the log keep their places; those of the record follow. *)
LEMMA LinesKept ==
  ASSUME TypeOK, NEW t \in Threads, NEW lines \in Seq(Lines), Extend(t, lines),
         NEW n, n = Len(entries)
  PROVE  /\ \A i \in 1 .. n : Line(i)' = Line(i)
         /\ \A i \in 1 .. Len(lines) : Line(n + i)' = lines[i]
         /\ \A i \in 1 .. Len(lines) : entries'[n + i].tid = t
  <1>1. /\ \A i \in 1 .. n : entries'[i] = entries[i]
        /\ \A i \in 1 .. Len(lines) : entries'[n + i] = Entry(t, lines[i])
    BY Extended
  <1>2. \A x : Entry(t, x).text.line = x /\ Entry(t, x).tid = t
    BY DEF Entry
  <1> QED
    BY <1>1, <1>2 DEF Line

(* A record of one line. *)
LEMMA OneMore ==
  ASSUME TypeOK, NEW t \in Threads, NEW lines \in Seq(Lines), Len(lines) = 1, Extend(t, lines)
  PROVE  \E n \in Nat : /\ n = Len(entries) /\ n + 1 = Len(entries')
                        /\ entries' \in Seq(Tagged)
                        /\ DOMAIN entries = 1 .. n /\ DOMAIN entries' = 1 .. n + 1
                        /\ \A i \in 1 .. n : Line(i)' = Line(i)
                        /\ Line(n + 1)' = lines[1]
  <1>1. PICK n \in Nat : /\ n = Len(entries) /\ n + 1 = Len(entries')
                         /\ entries' \in Seq(Tagged)
                         /\ DOMAIN entries = 1 .. n /\ DOMAIN entries' = 1 .. n + 1
    BY Extended, Zenon
  <1>2. /\ \A i \in 1 .. n : Line(i)' = Line(i)
        /\ \A i \in 1 .. Len(lines) : Line(n + i)' = lines[i]
    <2>1. /\ \A i \in 1 .. n : entries'[i] = entries[i]
          /\ \A i \in 1 .. Len(lines) : entries'[n + i] = Entry(t, lines[i])
      BY <1>1, Extended
    <2> QED
      BY <2>1 DEF Line, Entry
  <1>3. Line(n + 1)' = lines[1]
    BY <1>2
  <1> QED
    BY <1>1, <1>2, <1>3

(* Appending leaves what holds of a line, and of the lines before it. *)
LEMMA PrefixKept ==
  ASSUME TypeOK, NEW t \in Threads, NEW lines \in Seq(Lines), Extend(t, lines),
         NEW n, n = Len(entries)
  PROVE  /\ \A i \in 1 .. n + 1 : \A f : EndsBefore(i, f)' = EndsBefore(i, f)
         /\ \A i \in 1 .. n + 1 : \A s : Traced(s, i) => Traced(s, i)'
         /\ \A i \in 1 .. n : Follows(i) => Follows(i)'
  <1>1. n \in Nat /\ \A i \in 1 .. n : entries'[i] = entries[i]
    BY Extended
  <1>2. \A i \in 1 .. n : Line(i)' = Line(i)
    BY LinesKept
  <1>4. \A i \in 1 .. n + 1 : \A j \in 1 .. i - 1 : Line(j)' = Line(j)
    BY <1>1, <1>2
  <1>5. \A i \in 1 .. n + 1 : \A f : EndsBefore(i, f)' = EndsBefore(i, f)
    BY <1>4 DEF EndsBefore
  <1>6. \A i \in 1 .. n + 1 : \A s : Traced(s, i) => Traced(s, i)'
    BY <1>4 DEF Traced
  <1>7. ASSUME NEW i \in 1 .. n, Follows(i) PROVE Follows(i)'
    <2>1. PICK j \in 1 .. i - 1 :
            /\ Line(j)[1] \in AccessKinds /\ Line(j)[2] = Line(i)[3]
            /\ \A k \in j .. i - 1 : entries[k].tid = entries[i].tid
            /\ \A k \in j + 1 .. i - 1 : Line(k)[1] = "DEP"
      BY <1>7 DEF Follows
    <2>2. /\ Line(j)' = Line(j) /\ Line(i)' = Line(i)
          /\ \A k \in j .. i : entries'[k] = entries[k] /\ Line(k)' = Line(k)
      BY <1>1, <1>2
    <2>3. \A k \in j .. i - 1 : entries'[k].tid = entries'[i].tid
      BY <2>1, <2>2
    <2>4. \A k \in j + 1 .. i - 1 : Line(k)'[1] = "DEP"
      BY <2>1, <2>2
    <2> QED
      BY <2>1, <2>2, <2>3, <2>4 DEF Follows
  <1> QED
    BY <1>5, <1>6, <1>7, Zenon

(* A place of the longer log is one of the old log or of the record. *)
LEMMA Places ==
  ASSUME NEW n \in Nat, NEW m \in Nat, NEW i \in 1 .. n + m
  PROVE  i \in 1 .. n \/ \E k \in 1 .. m : i = n + k
  <1>1. CASE i > n
    <2>1. i - n \in 1 .. m /\ i = n + (i - n)
      BY <1>1
    <2> QED
      BY <2>1
  <1> QED
    BY <1>1

(* DEP lines that belong to their access keep the log's DEP lines sound. *)
LEMMA DepsStep ==
  ASSUME TypeOK, DepsFollow, NEW t \in Threads, NEW lines \in Seq(Lines), Extend(t, lines),
         NEW n, n = Len(entries),
         \A i \in 1 .. Len(lines) : lines[i][1] = "DEP" =>
           Traced(lines[i][2], n + i)' /\ Follows(n + i)'
  PROVE  DepsFollow'
  <1>1. /\ n \in Nat /\ Len(lines) \in Nat
        /\ DOMAIN entries = 1 .. n
        /\ DOMAIN entries' = 1 .. n + Len(lines)
    BY Extended
  <1>2. ASSUME NEW i \in 1 .. n, Line(i)'[1] = "DEP"
        PROVE  Traced(Line(i)[2], i)' /\ Follows(i)'
    <2>1. Line(i)' = Line(i)
      BY LinesKept
    <2>2. Traced(Line(i)[2], i) /\ Follows(i)
      BY <1>1, <1>2, <2>1 DEF DepsFollow
    <2>3. i \in 1 .. n + 1
      BY <1>1
    <2> DEFINE s == Line(i)[2]
    <2>4. PICK x : x = s
      OBVIOUS
    <2>5. Traced(x, i)'
      BY <2>2, <2>3, <2>4, PrefixKept
    <2>6. x = s'
      BY <2>1, <2>4
    <2> QED
      BY <2>2, <2>5, <2>6, PrefixKept
  <1>3. ASSUME NEW i \in 1 .. Len(lines), Line(n + i)'[1] = "DEP"
        PROVE  Traced(Line(n + i)[2], n + i)' /\ Follows(n + i)'
    <2>1. Line(n + i)' = lines[i]
      BY LinesKept
    <2> QED
      BY <1>3, <2>1
  <1>4. ASSUME NEW i \in 1 .. n + Len(lines), Line(i)'[1] = "DEP"
        PROVE  Traced(Line(i)[2], i)' /\ Follows(i)'
    <2>1. CASE i \in 1 .. n
      BY <1>2, <1>4, <2>1
    <2>2. ASSUME NEW k \in 1 .. Len(lines), i = n + k
          PROVE  Traced(Line(i)[2], i)' /\ Follows(i)'
      BY <1>3, <1>4, <2>2
    <2>3. i \in 1 .. n \/ \E k \in 1 .. Len(lines) : i = n + k
      <3>1. n \in Nat /\ Len(lines) \in Nat
        BY <1>1
      <3> QED
        BY <3>1, Places, Zenon
    <2> QED
      BY <2>1, <2>2, <2>3, Zenon
  <1> QED
    BY <1>1, <1>4 DEF DepsFollow

(* Lines that carry the number of their call keep the calls numbered. *)
LEMMA NumbersStep ==
  ASSUME TypeOK, CallsNumbered, NEW t \in Threads, NEW lines \in Seq(Lines), Extend(t, lines),
         NEW n, n = Len(entries),
         \A i \in 1 .. Len(lines) : lines[i][1] \in CallKinds =>
           lines[i][3] = 1 + Cardinality(EndsBefore(n + i, lines[i][2]))'
  PROVE  CallsNumbered'
  <1>1. /\ n \in Nat /\ Len(lines) \in Nat
        /\ DOMAIN entries = 1 .. n
        /\ DOMAIN entries' = 1 .. n + Len(lines)
    BY Extended
  <1> DEFINE Right(i) == Line(i)[3] = 1 + Cardinality(EndsBefore(i, Line(i)[2]))
  <1>2. ASSUME NEW i \in 1 .. n, Line(i)'[1] \in CallKinds PROVE Right(i)'
    <2>1. Line(i)' = Line(i)
      BY LinesKept
    <2>2. Right(i)
      BY <1>1, <1>2, <2>1 DEF CallsNumbered
    <2>3. i \in 1 .. n + 1
      BY <1>1
    <2>4. PICK f : f = Line(i)[2]
      OBVIOUS
    <2>5. EndsBefore(i, f)' = EndsBefore(i, f)
      BY <2>3, PrefixKept
    <2> QED
      BY <2>1, <2>2, <2>4, <2>5
  <1>3. ASSUME NEW i \in 1 .. Len(lines), Line(n + i)'[1] \in CallKinds PROVE Right(n + i)'
    <2>1. Line(n + i)' = lines[i]
      <3>1. entries'[n + i] = Entry(t, lines[i])
        BY Extended
      <3> QED
        BY <3>1 DEF Line, Entry
    <2> QED
      BY <1>3, <2>1, Zenon
  <1>4. ASSUME NEW i \in 1 .. n + Len(lines), Line(i)'[1] \in CallKinds PROVE Right(i)'
    <2>1. CASE i \in 1 .. n
      BY <1>2, <1>4, <2>1
    <2>2. ASSUME NEW k \in 1 .. Len(lines), i = n + k PROVE Right(i)'
      BY <1>3, <1>4, <2>2
    <2>3. i \in 1 .. n \/ \E k \in 1 .. Len(lines) : i = n + k
      <3>1. n \in Nat /\ Len(lines) \in Nat
        BY <1>1
      <3> QED
        BY <3>1, Places, Zenon
    <2> QED
      BY <2>1, <2>2, <2>3, Zenon
  <1> QED
    BY <1>1, <1>4 DEF CallsNumbered

(* A traced id stays in the log. *)
LEMMA TracedStays ==
  ASSUME TypeOK, NEW t \in Threads, NEW lines \in Seq(Lines), Extend(t, lines),
         NEW s, Traced(s, Len(entries) + 1)
  PROVE  Traced(s, Len(entries) + 1)'
  <1>1. PICK n \in Nat : n = Len(entries)
    BY Extended
  <1>2. PICK m \in Nat : m = Len(entries') /\ n <= m
    BY <1>1, Extended
  <1>3. PICK j \in 1 .. n : Line(j)[1] \in AccessKinds /\ Line(j)[2] = s
    BY <1>1 DEF Traced
  <1>4. Line(j)' = Line(j) /\ j \in 1 .. m
    BY <1>1, <1>2, LinesKept
  <1> QED
    BY <1>2, <1>3, <1>4 DEF Traced

NoEnd(lines, f) == \A i \in 1 .. Len(lines) : ~(lines[i][1] = "FUNC_END" /\ lines[i][2] = f)

(* The FUNC_END lines of a function, after one more line. *)
LEMMA EndsGrow ==
  ASSUME TypeOK, NEW t \in Threads, NEW lines \in Seq(Lines), Extend(t, lines),
         NEW n, n = Len(entries), NEW f, NoEnd(lines, f)
  PROVE  EndsBefore(Len(entries) + 1, f)' = EndsBefore(n + 1, f)
  <1>1. n \in Nat /\ Len(lines) \in Nat /\ Len(entries') = n + Len(lines)
    BY Extended
  <1> DEFINE Ends2(i) == Line(i)[1] = "FUNC_END" /\ Line(i)[2] = f
  <1>2. \A i \in 1 .. n : Ends2(i)' = Ends2(i)
    BY LinesKept
  <1>3. \A k \in 1 .. Len(lines) : ~Ends2(n + k)'
    <2>1. \A k \in 1 .. Len(lines) : Line(n + k)' = lines[k]
      BY LinesKept
    <2> QED
      BY <2>1 DEF NoEnd
  <1>4. \A i \in 1 .. n + Len(lines) : i \in 1 .. n \/ \E k \in 1 .. Len(lines) : i = n + k
    BY <1>1, Places, Zenon
  <1>5. \A i \in 1 .. n + Len(lines) : Ends2(i)' <=> i \in 1 .. n /\ Ends2(i)
    <2>1. \A k \in 1 .. Len(lines) : n + k \notin 1 .. n
      BY <1>1
    <2> QED
      BY <1>2, <1>3, <1>4, <2>1, Zenon
  <1>6. EndsBefore(Len(entries) + 1, f)' = {i \in 1 .. n + Len(lines) : Ends2(i)'}
    <2>1. (Len(entries') + 1) - 1 = n + Len(lines)
      BY <1>1
    <2> QED
      BY <2>1, Zenon DEF EndsBefore
  <1>7. EndsBefore(n + 1, f) = {i \in 1 .. n : Ends2(i)}
    BY <1>1 DEF EndsBefore
  <1> QED
    <2> HIDE DEF Ends2
    <2>1. \A i : i \in 1 .. n => i \in 1 .. n + Len(lines)
      BY <1>1
    <2> QED
      BY <1>5, <1>6, <1>7, <2>1, Zenon

(* A line of a call names a function. *)
LEMMA CallLine ==
  ASSUME KindsApart, NEW line \in Lines, line[1] \in CallKinds
  PROVE  line[2] \in Funcs
  BY DEF KindsApart, Lines, CallKinds, AccessKinds

(* A line of another kind leaves every part of the invariant. *)
LEMMA OtherStep ==
  ASSUME TraceInv, NEW t \in Threads, NEW line \in Lines, Extend(t, << line >>),
         line[1] \notin {"DEP"} \cup CallKinds, ready \/ line[1] = "Adding",
         UNCHANGED <<ready, count, dep, traced>>
  PROVE  TraceInv'
  <1> DEFINE lines == << line >>
  <1>0. TypeOK /\ lines \in Seq(Lines) /\ Len(lines) = 1 /\ lines[1] = line /\ Extend(t, lines)
    BY OneLine DEF TraceInv
  <1> HIDE DEF lines
  <1>1. PICK n \in Nat : /\ n = Len(entries) /\ n + 1 = Len(entries')
                         /\ entries' \in Seq(Tagged)
                         /\ DOMAIN entries = 1 .. n /\ DOMAIN entries' = 1 .. n + 1
                         /\ \A i \in 1 .. n : Line(i)' = Line(i)
                         /\ Line(n + 1)' = lines[1]
    BY <1>0, OneMore
  <1>2. (\A i \in 1 .. n : Line(i)' = Line(i)) /\ Line(n + 1)' = line
    BY <1>0, <1>1
  <1>3. \A i \in 1 .. Len(lines) : lines[i] = line
    BY <1>0
  <1>4. TypeOK'
    BY <1>1 DEF TraceInv, TypeOK
  <1>5. DepsFollow'
    <2>1. \A i \in 1 .. Len(lines) : lines[i][1] # "DEP"
      BY <1>3
    <2> QED
      BY <1>0, <1>1, <2>1, DepsStep DEF TraceInv
  <1>6. CallsNumbered'
    <2>1. \A i \in 1 .. Len(lines) : lines[i][1] \notin CallKinds
      BY <1>3
    <2> QED
      BY <1>0, <1>1, <2>1, NumbersStep DEF TraceInv
  <1>7. TracedInLog'
    BY <1>0, TracedStays DEF TraceInv, TracedInLog
  <1>8. EndsCounted'
    <2>1. \A f : EndsBefore(Len(entries) + 1, f)' = EndsBefore(n + 1, f)
      <3> TAKE f
      <3>1. NoEnd(lines, f)
        BY <1>3 DEF CallKinds, NoEnd
      <3> QED
        BY <1>0, <1>1, <3>1, EndsGrow
    <2> QED
      BY <1>1, <2>1 DEF TraceInv, EndsCounted
  <1>9. BegunCounted' /\ QuietUntilReady'
    <2>1. \A i \in 1 .. n + 1 : i \in 1 .. n \/ i = n + 1
      BY <1>1
    <2> QED
      BY <1>1, <1>2, <2>1 DEF TraceInv, BegunCounted, QuietUntilReady, CallKinds
  <1> QED
    BY <1>4, <1>5, <1>6, <1>7, <1>8, <1>9 DEF TraceInv

(* FUNC_BEGIN sets the counter, if it is the first, and prints it. *)
LEMMA BeginStep ==
  ASSUME KindsApart, TraceInv, NEW t \in Threads, NEW f \in Funcs, Begin(t, f)
  PROVE  TraceInv'
  <1>a. /\ count \in [Funcs -> Nat] /\ count' \in [Funcs -> Nat]
        /\ count'[f] = IF count[f] = 0 THEN 1 ELSE count[f]
        /\ \A g \in Funcs \ {f} : count'[g] = count[g]
    BY DEF TraceInv, TypeOK, Begin
  <1>n. PICK c \in Nat : c = count'[f]
    BY <1>a
  <1> DEFINE line == <<"FUNC_BEGIN", f, c>>
             lines == << line >>
  <1>b. line \in Lines
    BY <1>a DEF Lines, CallKinds
  <1>c. line[1] = "FUNC_BEGIN" /\ line[2] = f /\ line[3] = c
    OBVIOUS
  <1>d. Extend(t, lines) /\ ready /\ UNCHANGED <<ready, dep, traced>>
    BY <1>n DEF Begin
  <1> HIDE DEF line
  <1>0. TypeOK /\ lines \in Seq(Lines) /\ Len(lines) = 1 /\ lines[1] = line /\ Extend(t, lines)
    BY <1>b, <1>d, OneLine DEF TraceInv
  <1> HIDE DEF lines
  <1>1. PICK n \in Nat : /\ n = Len(entries) /\ n + 1 = Len(entries')
                         /\ entries' \in Seq(Tagged)
                         /\ DOMAIN entries = 1 .. n /\ DOMAIN entries' = 1 .. n + 1
                         /\ \A i \in 1 .. n : Line(i)' = Line(i)
                         /\ Line(n + 1)' = lines[1]
    BY <1>0, OneMore
  <1>2. (\A i \in 1 .. n : Line(i)' = Line(i)) /\ Line(n + 1)' = line
    BY <1>0, <1>1
  <1>3. \A i \in 1 .. Len(lines) : i = 1 /\ lines[i] = line
    BY <1>0
  <1>4. TypeOK'
    BY <1>1, <1>a, <1>d DEF TraceInv, TypeOK
  <1>5. DepsFollow'
    <2>1. \A i \in 1 .. Len(lines) : lines[i][1] # "DEP"
      BY <1>3, <1>c
    <2> QED
      BY <1>0, <1>1, <2>1, DepsStep DEF TraceInv
  <1>6. Cardinality(EndsBefore(n + 1, f)) = c - 1
    BY <1>1, <1>a, <1>n DEF TraceInv, EndsCounted
  <1>7. CallsNumbered'
    <2>1. EndsBefore(n + 1, f)' = EndsBefore(n + 1, f)
      BY <1>0, <1>1, PrefixKept
    <2>2. c = 1 + Cardinality(EndsBefore(n + 1, f))'
      BY <1>6, <1>n, <2>1
    <2>3. \A i \in 1 .. Len(lines) : lines[i][1] \in CallKinds =>
            lines[i][3] = 1 + Cardinality(EndsBefore(n + i, lines[i][2]))'
      BY <1>3, <1>c, <2>2
    <2> QED
      BY <1>0, <1>1, <2>3, NumbersStep DEF TraceInv
  <1>8. TracedInLog'
    BY <1>0, <1>d, TracedStays DEF TraceInv, TracedInLog
  <1>9. EndsCounted'
    <2>1. \A g : EndsBefore(Len(entries) + 1, g)' = EndsBefore(n + 1, g)
      <3> TAKE g
      <3>1. NoEnd(lines, g)
        BY <1>3, <1>c DEF NoEnd
      <3> QED
        BY <1>0, <1>1, <3>1, EndsGrow
    <2> QED
      BY <1>1, <1>a, <2>1 DEF TraceInv, EndsCounted
  <1>10. BegunCounted' /\ QuietUntilReady'
    <2>1. \A i \in 1 .. n + 1 : i \in 1 .. n \/ i = n + 1
      BY <1>1
    <2>2. \A g \in Funcs : count[g] # 0 => count'[g] # 0
      BY <1>a
    <2>3. \A i \in 1 .. n : Line(i) \in Lines
      <3>1. \A i \in 1 .. n : entries[i] \in Tagged
        BY <1>1 DEF TraceInv, TypeOK
      <3> QED
        BY <3>1 DEF Line, Tagged
    <2>4. \A i \in 1 .. n : Line(i)[1] = "FUNC_BEGIN" => count'[Line(i)[2]] # 0
      BY <1>1, <2>2, <2>3, CallLine DEF TraceInv, BegunCounted, CallKinds
    <2>5. count'[f] # 0
      BY <1>a
    <2> QED
      BY <1>1, <1>2, <1>c, <1>d, <2>1, <2>4, <2>5, SMTT(30), Z3T(30) DEF BegunCounted, QuietUntilReady
  <1> QED
    BY <1>4, <1>5, <1>7, <1>8, <1>9, <1>10 DEF TraceInv
(* FUNC_END prints the counter that the FUNC_END lines before it have made *)
(* and increments it.                                                      *)
LEMMA EndStep ==
  ASSUME KindsApart, TraceInv, NEW t \in Threads, NEW f \in Funcs, End(t, f)
  PROVE  TraceInv'
  <1>a. /\ count \in [Funcs -> Nat] /\ count' \in [Funcs -> Nat]
        /\ count[f] # 0 /\ count'[f] = count[f] + 1
        /\ \A g \in Funcs \ {f} : count'[g] = count[g]
    BY DEF TraceInv, TypeOK, End
  <1>n. PICK c \in Nat : c = count[f]
    BY <1>a
  <1> DEFINE line == <<"FUNC_END", f, c>>
             lines == << line >>
  <1>b. line \in Lines
    BY <1>a DEF Lines, CallKinds
  <1>c. line[1] = "FUNC_END" /\ line[2] = f /\ line[3] = c
    OBVIOUS
  <1>d. Extend(t, lines) /\ ready /\ UNCHANGED <<ready, dep, traced>>
    BY <1>n DEF End
  <1> HIDE DEF line
  <1>0. TypeOK /\ lines \in Seq(Lines) /\ Len(lines) = 1 /\ lines[1] = line /\ Extend(t, lines)
    BY <1>b, <1>d, OneLine DEF TraceInv
  <1> HIDE DEF lines
  <1>1. PICK n \in Nat : /\ n = Len(entries) /\ n + 1 = Len(entries')
                         /\ entries' \in Seq(Tagged)
                         /\ DOMAIN entries = 1 .. n /\ DOMAIN entries' = 1 .. n + 1
                         /\ \A i \in 1 .. n : Line(i)' = Line(i)
                         /\ Line(n + 1)' = lines[1]
    BY <1>0, OneMore
  <1>2. (\A i \in 1 .. n : Line(i)' = Line(i)) /\ Line(n + 1)' = line
    BY <1>0, <1>1
  <1>3. \A i \in 1 .. Len(lines) : i = 1 /\ lines[i] = line
    BY <1>0
  <1>4. TypeOK'
    BY <1>1, <1>a, <1>d, SMTT(30), Z3T(30) DEF TraceInv, TypeOK
  <1>5. DepsFollow'
    <2>1. \A i \in 1 .. Len(lines) : lines[i][1] # "DEP"
      BY <1>3, <1>c
    <2> QED
      BY <1>0, <1>1, <2>1, DepsStep DEF TraceInv
  <1>6. Cardinality(EndsBefore(n + 1, f)) = c - 1
    BY <1>1, <1>a, <1>n, SMTT(30), Z3T(30) DEF TraceInv, EndsCounted
  <1>7. CallsNumbered'
    <2>1. EndsBefore(n + 1, f)' = EndsBefore(n + 1, f)
      BY <1>0, <1>1, PrefixKept
    <2>2. c = 1 + Cardinality(EndsBefore(n + 1, f))'
      BY <1>6, <1>n, <2>1
    <2>3. \A i \in 1 .. Len(lines) : lines[i][1] \in CallKinds =>
            lines[i][3] = 1 + Cardinality(EndsBefore(n + i, lines[i][2]))'
      BY <1>3, <1>c, <2>2
    <2> QED
      BY <1>0, <1>1, <2>3, NumbersStep, SMTT(30), Z3T(30) DEF TraceInv
  <1>8. TracedInLog'
    BY <1>0, <1>d, TracedStays DEF TraceInv, TracedInLog
  <1>9. EndsCounted'
    <2>1. ASSUME NEW g \in Funcs \ {f}
          PROVE  EndsBefore(Len(entries) + 1, g)' = EndsBefore(n + 1, g)
      <3>1. NoEnd(lines, g)
        BY <1>3, <1>c DEF NoEnd
      <3> QED
        BY <1>0, <1>1, <3>1, EndsGrow
    <2>2. EndsBefore(Len(entries) + 1, f)' = EndsBefore(n + 1, f) \cup {n + 1}
      <3>1. EndsBefore(Len(entries) + 1, f)'
              = {j \in 1 .. n + 1 : Line(j)'[1] = "FUNC_END" /\ Line(j)'[2] = f}
        BY <1>1 DEF EndsBefore
      <3>2. EndsBefore(n + 1, f) = {j \in 1 .. n : Line(j)[1] = "FUNC_END" /\ Line(j)[2] = f}
        BY <1>1 DEF EndsBefore
      <3>3. \A j : j \in 1 .. n + 1 <=> j \in 1 .. n \/ j = n + 1
        BY <1>1
      <3> QED
        BY <1>2, <1>c, <3>1, <3>2, <3>3
    <2>3. n + 1 \notin EndsBefore(n + 1, f) /\ IsFiniteSet(EndsBefore(n + 1, f))
      <3>1. EndsBefore(n + 1, f) \subseteq 1 .. n
        BY <1>1 DEF EndsBefore
      <3>2. IsFiniteSet(1 .. n)
        BY <1>1, FS_Interval
      <3>3. n + 1 \notin 1 .. n
        BY <1>1
      <3> QED
        BY <3>1, <3>2, <3>3, FS_Subset
    <2>4. Cardinality(EndsBefore(Len(entries) + 1, f))' = c
      <3>1. Cardinality(EndsBefore(n + 1, f) \cup {n + 1}) = Cardinality(EndsBefore(n + 1, f)) + 1
        BY <2>3, FS_AddElement, Zenon
      <3>2. Cardinality(EndsBefore(n + 1, f) \cup {n + 1}) = c
        BY <1>6, <1>n, <3>1
      <3> QED
        BY <2>2, <3>2, Zenon
    <2>5. Cardinality(EndsBefore(Len(entries) + 1, f))' = count'[f] - 1
      BY <1>a, <1>n, <2>4
    <2> QED
      BY <1>1, <1>a, <2>1, <2>5, SMTT(30), Z3T(30) DEF TraceInv, EndsCounted
  <1>10. BegunCounted' /\ QuietUntilReady'
    <2>1. \A i \in 1 .. n + 1 : i \in 1 .. n \/ i = n + 1
      BY <1>1
    <2>2. \A g \in Funcs : count[g] # 0 => count'[g] # 0
      BY <1>a
    <2>3. \A i \in 1 .. n : Line(i) \in Lines
      <3>1. \A i \in 1 .. n : entries[i] \in Tagged
        BY <1>1 DEF TraceInv, TypeOK
      <3> QED
        BY <3>1 DEF Line, Tagged
    <2>4. \A i \in 1 .. n : Line(i)[1] = "FUNC_BEGIN" => count'[Line(i)[2]] # 0
      BY <1>1, <2>2, <2>3, CallLine, SMTT(30), Z3T(30) DEF TraceInv, BegunCounted, CallKinds
    <2> QED
      BY <1>1, <1>2, <1>c, <1>d, <2>1, <2>4 DEF BegunCounted, QuietUntilReady
  <1> QED
    BY <1>4, <1>5, <1>7, <1>8, <1>9, <1>10 DEF TraceInv

(* Initialize empties the tables; what is in the log announces ranges. *)
LEMMA InitializeStep ==
  ASSUME TraceInv, Initialize
  PROVE  TraceInv'
  <1> USE DEF TraceInv
  <1>1. entries' = entries /\ ~ready /\ ready' /\ count' = [f \in Funcs |-> 0]
        /\ traced' = {} /\ dep' = {}
    BY DEF Initialize
  <1>2. TypeOK'
    BY <1>1, SMTT(30), Z3T(30) DEF TypeOK
  <1>3. DepsFollow' /\ CallsNumbered'
    BY <1>1 DEF DepsFollow, CallsNumbered, Traced, Follows, EndsBefore, Line
  <1>4. Len(entries) \in Nat /\ DOMAIN entries = 1 .. Len(entries)
    BY SMTT(30), Z3T(30) DEF TypeOK
  <1>5. \A i \in 1 .. Len(entries) : Line(i)'[1] = "Adding"
    BY <1>1, <1>4 DEF QuietUntilReady, Line
  <1>6. \A f : EndsBefore(Len(entries) + 1, f)' = {}
    BY <1>1, <1>4, <1>5 DEF EndsBefore
  <1>7. EndsCounted'
    <2>1. \A f \in Funcs : count'[f] = 0
      BY <1>1
    <2> QED
      BY <1>6, <2>1, FS_EmptySet, Zenon DEF EndsCounted
  <1>8. TracedInLog' /\ BegunCounted' /\ QuietUntilReady'
    BY <1>1, <1>4, <1>5 DEF TracedInLog, BegunCounted, QuietUntilReady
  <1> QED
    BY <1>2, <1>3, <1>7, <1>8

(* A step that leaves the log and the tables it agrees with. *)
LEMMA QuietStep ==
  ASSUME TraceInv, UNCHANGED <<ready, count, traced, entries>>, dep' \subseteq Ids \X Ids
  PROVE  TraceInv'
  <1>1. TypeOK'
    BY SMTT(30), Z3T(30) DEF TraceInv, TypeOK
  <1>2. DepsFollow' /\ CallsNumbered' /\ TracedInLog'
    BY SMTT(30), Z3T(30) DEF TraceInv, DepsFollow, CallsNumbered, TracedInLog, Traced, Follows, EndsBefore, Line
  <1>3. EndsCounted' /\ BegunCounted' /\ QuietUntilReady'
    BY DEF TraceInv, EndsCounted, BegunCounted, QuietUntilReady, EndsBefore, Line
  <1> QED
    BY <1>1, <1>2, <1>3 DEF TraceInv
(* The line of an access and its DEP lines, as one record. *)
LEMMA DepRecord ==
  ASSUME NEW line \in Lines, NEW m \in Nat, NEW deps \in [1 .. m -> Lines],
         NEW lines, lines = << line >> \o deps
  PROVE  /\ lines \in Seq(Lines) /\ Len(lines) = 1 + m
         /\ lines[1] = line
         /\ \A i \in 2 .. 1 + m : i - 1 \in 1 .. m /\ lines[i] = deps[i - 1]
  <1> DEFINE first == << line >>
  <1>1. first \in Seq(Lines) /\ Len(first) = 1 /\ first[1] = line
    BY OneLine
  <1>2. deps \in Seq(Lines) /\ Len(deps) = m
    BY FunctionSeq
  <1>3. lines = first \o deps
    OBVIOUS
  <1> HIDE DEF first
  <1>4. /\ first \o deps \in Seq(Lines) /\ Len(first \o deps) = Len(first) + Len(deps)
        /\ \A i \in 1 .. Len(first) : (first \o deps)[i] = first[i]
        /\ \A i \in 1 .. Len(deps) : (first \o deps)[Len(first) + i] = deps[i]
    <2>1. first \in Seq(Lines) /\ deps \in Seq(Lines)
      BY <1>1, <1>2
    <2> QED
      BY <2>1, ConcatFacts
  <1>5. /\ lines \in Seq(Lines) /\ Len(lines) = Len(first) + Len(deps)
        /\ \A i \in 1 .. Len(first) : lines[i] = first[i]
        /\ \A i \in 1 .. Len(deps) : lines[Len(first) + i] = deps[i]
    BY <1>3, <1>4, Zenon
  <1>6. Len(first) = 1 /\ Len(deps) = m
    BY <1>1, <1>2
  <1>7. /\ lines \in Seq(Lines) /\ Len(lines) = 1 + m /\ lines[1] = first[1]
        /\ \A i \in 1 .. m : lines[1 + i] = deps[i]
    BY <1>5, <1>6
  <1>8. \A i \in 2 .. 1 + m : i - 1 \in 1 .. m /\ i = 1 + (i - 1)
    OBVIOUS
  <1> QED
    BY <1>1, <1>7, <1>8

(* The lines of an access that depends on the ids of q. *)
IsRecord(lines, kind, id, m, q) ==
  /\ Len(lines) = 1 + m /\ lines[1][1] = kind /\ lines[1][2] = id
  /\ \A i \in 2 .. 1 + m : /\ lines[i][1] = "DEP" /\ lines[i][2] = q[i - 1]
                           /\ lines[i][3] = id

(* A record of an access: its DEP lines name ids of the log, and follow it. *)
LEMMA RecordStep ==
  ASSUME KindsApart, TraceInv, NEW t \in Threads, NEW kind \in AccessKinds, NEW a \in Addrs,
         NEW id \in Ids, NEW m \in Nat, NEW q \in [1 .. m -> traced \cup {id}],
         ready, traced' = traced \cup {id}, UNCHANGED <<ready, count, dep>>,
         NEW lines \in Seq(Lines), Extend(t, lines), IsRecord(lines, kind, id, m, q)
  PROVE  TraceInv'
  <1> /\ Len(lines) = 1 + m /\ lines[1][1] = kind /\ lines[1][2] = id
      /\ \A i \in 2 .. 1 + m : /\ lines[i][1] = "DEP" /\ lines[i][2] = q[i - 1]
                               /\ lines[i][3] = id
    BY DEF IsRecord
  <1>0. TypeOK /\ Extend(t, lines)
    BY DEF TraceInv
  <1>1. PICK n \in Nat : /\ n = Len(entries) /\ Len(entries') = n + (1 + m)
                         /\ entries' \in Seq(Tagged)
                         /\ DOMAIN entries = 1 .. n /\ DOMAIN entries' = 1 .. n + (1 + m)
                         /\ \A i \in 1 .. n : entries'[i] = entries[i]
                         /\ \A i \in 1 .. Len(lines) : entries'[n + i] = Entry(t, lines[i])
    BY <1>0, Extended, Zenon
  <1>2. /\ \A i \in 1 .. n : Line(i)' = Line(i)
        /\ \A i \in 1 .. 1 + m : Line(n + i)' = lines[i] /\ entries'[n + i].tid = t
    <2>1. \A i \in 1 .. 1 + m : entries'[n + i] = Entry(t, lines[i])
      BY <1>1
    <2>2. \A x : Entry(t, x).text.line = x /\ Entry(t, x).tid = t
      BY SMTT(30), Z3T(30) DEF Entry
    <2>3. \A i \in 1 .. n : Line(i)' = Line(i)
      BY <1>1 DEF Line
    <2>4. \A i \in 1 .. 1 + m : Line(n + i)' = lines[i] /\ entries'[n + i].tid = t
      BY <2>1, <2>2, Zenon DEF Line
    <2> QED
      BY <2>3, <2>4
  <1>3. \A i \in 2 .. 1 + m : i - 1 \in 1 .. m
    OBVIOUS
  <1>4. TypeOK'
    BY <1>1 DEF TraceInv, TypeOK
  <1>5. ASSUME NEW s \in traced \cup {id}, NEW i \in Nat, i > n + 1
        PROVE  Traced(s, i)'
    <2>1. CASE s = id
      <3>1. Line(n + 1)' = lines[1] /\ n + 1 \in 1 .. i - 1
        BY <1>2, <1>5
      <3> QED
        BY <1>3, <2>1, <3>1, SMTT(30), Z3T(30) DEF Traced
    <2>2. CASE s \in traced
      <3>1. PICK j \in 1 .. n : Line(j)[1] \in AccessKinds /\ Line(j)[2] = s
        BY <1>1, <2>2, SMTT(30), Z3T(30) DEF TraceInv, TracedInLog, Traced
      <3>2. Line(j)' = Line(j) /\ j \in 1 .. i - 1
        BY <1>2, <1>5
      <3> QED
        BY <3>1, <3>2, SMTT(30), Z3T(30) DEF Traced
    <2> QED
      BY <2>1, <2>2
  <1>6. DepsFollow'
    <2>1. ASSUME NEW i \in 1 .. Len(lines), lines[i][1] = "DEP"
          PROVE  Traced(lines[i][2], n + i)' /\ Follows(n + i)'
      <3>1. i \in 2 .. 1 + m
        BY <1>3, <2>1, SMTT(30), Z3T(30) DEF AccessKinds
      <3>2. lines[i][2] \in traced \cup {id}
        BY <1>3, <3>1, SMTT(30), Z3T(30)
      <3>3. Traced(lines[i][2], n + i)'
        <4>1. n + i \in Nat /\ n + i > n + 1
          BY <3>1
        <4>2. PICK s \in traced \cup {id} : s = lines[i][2]
          BY <3>2
        <4>3. Traced(s, n + i)'
          BY <1>5, <4>1
        <4> QED
          BY <4>2, <4>3, SMTT(30), Z3T(30)
      <3>4. /\ n + 1 \in 1 .. (n + i) - 1
            /\ Line(n + 1)'[1] \in AccessKinds /\ Line(n + 1)'[2] = Line(n + i)'[3]
        <4>1. n + 1 \in 1 .. (n + i) - 1 /\ 1 \in 1 .. 1 + m /\ i \in 1 .. 1 + m
          BY <3>1
        <4>2. Line(n + 1)' = lines[1] /\ Line(n + i)' = lines[i]
          BY <1>2, <4>1, Zenon
        <4> QED
          BY <3>1, <4>1, <4>2, SMTT(30), Z3T(30)
      <3>5. \A k \in n + 1 .. (n + i) - 1 : entries'[k].tid = entries'[n + i].tid
        <4> TAKE k \in n + 1 .. (n + i) - 1
        <4>1. k - n \in 1 .. 1 + m /\ k = n + (k - n) /\ i \in 1 .. 1 + m
          BY <3>1
        <4> QED
          BY <1>2, <4>1, SMTT(30), Z3T(30)
      <3>6. \A k \in (n + 1) + 1 .. (n + i) - 1 : Line(k)'[1] = "DEP"
        <4> TAKE k \in (n + 1) + 1 .. (n + i) - 1
        <4>1. PICK j \in 2 .. 1 + m : k = n + j
          <5>1. k - n \in 2 .. 1 + m /\ k = n + (k - n)
            BY <3>1
          <5> QED
            BY <5>1
        <4>2. Line(n + j)' = lines[j]
          <5>1. j \in 1 .. 1 + m
            OBVIOUS
          <5> QED
            BY <1>2, <5>1, Zenon
        <4> QED
          BY <4>1, <4>2, SMTT(30), Z3T(30)
      <3>7. Follows(n + i)'
        BY <3>4, <3>5, <3>6 DEF Follows
      <3> QED
        BY <3>3, <3>7
    <2> QED
      BY <1>0, <1>1, <2>1, DepsStep, Zenon DEF TraceInv
  <1>7. \A i \in 1 .. Len(lines) : lines[i][1] \notin CallKinds
    <2>1. \A i \in 1 .. Len(lines) : i = 1 \/ i \in 2 .. 1 + m
      OBVIOUS
    <2> QED
      BY <1>3, <2>1, Zenon DEF AccessKinds, CallKinds
  <1>8. CallsNumbered'
    BY <1>0, <1>1, <1>7, NumbersStep, Zenon DEF TraceInv
  <1>9. TracedInLog'
    <2>1. n + (1 + m) + 1 \in Nat /\ n + (1 + m) + 1 > n + 1
      BY SMTT(30), Z3T(30)
    <2> QED
      BY <1>1, <1>5, <2>1, SMTT(30), Z3T(30) DEF TracedInLog
  <1>10. EndsCounted'
    <2>1. \A f : EndsBefore(Len(entries) + 1, f)' = EndsBefore(n + 1, f)
      <3> TAKE f
      <3>1. NoEnd(lines, f)
        BY <1>7, SMTT(30), Z3T(30) DEF CallKinds, NoEnd
      <3> QED
        <4>1. TypeOK /\ Extend(t, lines) /\ n = Len(entries)
          BY <1>0, <1>1
        <4> QED
          BY <3>1, <4>1, EndsGrow, SMTT(30), Z3T(30)
    <2> QED
      BY <1>1, <2>1, SMTT(30), Z3T(30) DEF TraceInv, EndsCounted
  <1>11. BegunCounted' /\ QuietUntilReady'
    <2>1. \A i \in 1 .. n + (1 + m) : i \in 1 .. n \/ \E k \in 1 .. 1 + m : i = n + k
      <3>1. n \in Nat /\ 1 + m \in Nat
        OBVIOUS
      <3> QED
        BY <3>1, Places, Zenon
    <2>2. \A k \in 1 .. 1 + m : Line(n + k)'[1] # "FUNC_BEGIN"
      BY <1>2, <1>7, ZenonT(30) DEF CallKinds
    <2>3. \A i \in 1 .. n : Line(i)'[1] = "FUNC_BEGIN" => count[Line(i)'[2]] # 0
      <3> TAKE i \in 1 .. n
      <3>1. Line(i)' = Line(i) /\ i \in DOMAIN entries
        BY <1>1, <1>2
      <3> QED
        BY <3>1 DEF TraceInv, BegunCounted
    <2>4. \A i \in DOMAIN entries' : Line(i)'[1] = "FUNC_BEGIN" => count[Line(i)'[2]] # 0
      <3> TAKE i \in DOMAIN entries'
      <3>1. CASE i \in 1 .. n
        BY <2>3, <3>1, Zenon
      <3>2. ASSUME NEW k \in 1 .. 1 + m, i = n + k PROVE Line(i)'[1] # "FUNC_BEGIN"
        BY <2>2, <3>2
      <3>3. i \in 1 .. n \/ \E k \in 1 .. 1 + m : i = n + k
        BY <1>1, <2>1, Zenon
      <3> QED
        BY <3>1, <3>2, <3>3, Zenon
    <2> QED
      BY <2>4 DEF BegunCounted, QuietUntilReady
  <1> QED
    BY <1>4, <1>6, <1>8, <1>9, <1>10, <1>11, SMTT(30), Z3T(30) DEF TraceInv
(* Every step of the specification keeps the invariant. *)
LEMMA TraceStep ==
  ASSUME KindsApart, TraceInv, [Next]_avars
  PROVE  TraceInv'
  <1>1. CASE Initialize
    BY <1>1, InitializeStep
  <1>2. ASSUME NEW t \in Threads, NEW line \in Lines, Extend(t, << line >>),
               line[1] = "Adding" \/ (ready /\ line[1] \in PlainKinds),
               UNCHANGED <<ready, count, dep, traced>>
        PROVE  TraceInv'
    <2>1. line[1] \notin {"DEP"} \cup CallKinds
      BY <1>2 DEF KindsApart, CallKinds
    <2> QED
      BY <1>2, <2>1, OtherStep
  <1>3. ASSUME NEW t \in Threads, NEW b \in Addrs, NEW e \in Ends, Register(t, b, e)
        PROVE  TraceInv'
    <2>1. <<"Adding", b, e>> \in Lines
      BY DEF Lines
    <2> QED
      BY <1>2, <1>3, <2>1 DEF Register
  <1>4. ASSUME NEW t \in Threads, NEW b \in Addrs, Unregister(t, b)
        PROVE  TraceInv'
    <2>1. <<"Adding", b, 0>> \in Lines
      BY DEF Lines
    <2> QED
      BY <1>2, <1>4, <2>1 DEF Unregister
  <1>5. ASSUME NEW t \in Threads, NEW kind \in PlainKinds, Plain(t, kind)
        PROVE  TraceInv'
    <2>1. <<kind, 0, 0>> \in Lines
      BY DEF Lines
    <2> QED
      BY <1>2, <1>5, <2>1 DEF Plain
  <1>6. ASSUME NEW t \in Threads, NEW f \in Funcs, Begin(t, f) \/ End(t, f)
        PROVE  TraceInv'
    BY <1>6, BeginStep, EndStep, SMTT(30), Z3T(30)
  <1>7. ASSUME NEW t \in Threads, NEW kind \in {"Store", "Load"}, NEW a \in Addrs,
               NEW n \in Sizes, NEW id \in Ids, Record(t, kind, a, n, id)
        PROVE  TraceInv'
    <2> DEFINE S == {s \in traced' : <<s, id>> \in dep}
    <2>1. ready /\ traced' = traced \cup {id} /\ UNCHANGED <<ready, count, dep>>
      BY <1>7 DEF Record
    <2>2. PICK q \in [1 .. Cardinality(S) -> S] :
            Extend(t, << <<kind, id, a>> >> \o [i \in DOMAIN q |-> <<"DEP", q[i], id>>])
      BY <1>7, Zenon DEF Record
    <2>3. PICK m \in Nat : m = Cardinality(S)
      <3>1. S \subseteq Ids
        BY <2>1 DEF TraceInv, TypeOK
      <3>2. IsFiniteSet(S)
        BY <3>1, FS_Subset, Zenon DEF KindsApart
      <3> QED
        BY <3>2, FS_CardinalityType, Zenon
    <2>4. q \in [1 .. m -> traced \cup {id}] /\ q \in [1 .. m -> Ids]
      BY <2>1, <2>3, Zenon DEF TraceInv, TypeOK
    <2> HIDE DEF S
    <2>5. PICK deps : deps = [i \in DOMAIN q |-> <<"DEP", q[i], id>>]
      BY Zenon
    <2>6. /\ deps \in [1 .. m -> Lines]
          /\ \A i \in 1 .. m : deps[i] = <<"DEP", q[i], id>>
      <3>1. \A i \in 1 .. m : <<"DEP", q[i], id>> \in Lines
        BY <2>4, Zenon DEF Lines
      <3> QED
        BY <2>4, <2>5, <3>1, Zenon
    <2>7. PICK lines : lines = << <<kind, id, a>> >> \o deps
      BY Zenon
    <2>8. Extend(t, lines) /\ kind \in AccessKinds
      BY <2>2, <2>5, <2>7, Zenon DEF AccessKinds
    <2>9. /\ lines \in Seq(Lines) /\ Len(lines) = 1 + m
          /\ lines[1] = <<kind, id, a>>
          /\ \A i \in 2 .. 1 + m : i - 1 \in 1 .. m /\ lines[i] = deps[i - 1]
      <3>1. <<kind, id, a>> \in Lines
        BY <2>8 DEF Lines
      <3>2. PICK line \in Lines : line = <<kind, id, a>>
        BY <3>1, Zenon
      <3>3. lines = << line >> \o deps
        BY <2>7, <3>2, Zenon
      <3>4. /\ lines \in Seq(Lines) /\ Len(lines) = 1 + m /\ lines[1] = line
            /\ \A i \in 2 .. 1 + m : i - 1 \in 1 .. m /\ lines[i] = deps[i - 1]
        BY <2>6, <3>3, DepRecord
      <3> QED
        BY <3>2, <3>4, Zenon
    <2>10. /\ lines[1][1] = kind /\ lines[1][2] = id
           /\ \A i \in 2 .. 1 + m : /\ lines[i][1] = "DEP" /\ lines[i][2] = q[i - 1]
                                    /\ lines[i][3] = id
      BY <2>6, <2>9
    <2>11. IsRecord(lines, kind, id, m, q)
      BY <2>9, <2>10 DEF IsRecord
    <2> QED
      BY <2>1, <2>4, <2>8, <2>9, <2>11, RecordStep, SMTT(30), Z3T(30)
  <1>8. ASSUME NEW s \in Ids, NEW d \in Ids, Depend(s, d)
        PROVE  TraceInv'
    <2>1. dep' \subseteq Ids \X Ids
      BY <1>8 DEF Depend, TraceInv, TypeOK
    <2> QED
      BY <1>8, <2>1, QuietStep DEF Depend
  <1>9. CASE UNCHANGED avars
    <2>1. dep' \subseteq Ids \X Ids
      BY <1>9, SMTT(30), Z3T(30) DEF avars, TraceInv, TypeOK
    <2> QED
      BY <1>9, <2>1, QuietStep DEF avars
  <1> QED
    BY <1>1, <1>3, <1>4, <1>5, <1>6, <1>7, <1>8, <1>9, Zenon DEF Next

(* The empty log and the empty tables. *)
LEMMA TraceInit ==
  ASSUME Init
  PROVE  TraceInv
  <1>1. /\ entries = <<>> /\ Len(entries) = 0 /\ DOMAIN entries = {} /\ traced = {}
        /\ \A f \in Funcs : count[f] = 0
    BY DEF Init
  <1>2. TypeOK
    <2>1. ready \in BOOLEAN
      BY Zenon DEF Init
    <2>2. count \in [Funcs -> Nat] /\ entries \in Seq(Tagged)
      BY DEF Init
    <2> QED
      BY <2>1, <2>2 DEF Init, TypeOK
  <1>3. EndsCounted
    <2>1. \A f : EndsBefore(Len(entries) + 1, f) = {}
      BY <1>1 DEF EndsBefore
    <2> QED
      BY <1>1, <2>1, FS_EmptySet DEF EndsCounted
  <1> QED
    BY <1>1, <1>2, <1>3
      DEF TraceInv, DepsFollow, CallsNumbered, TracedInLog, BegunCounted, QuietUntilReady

(* A log that grows by whole records, each computed from the tables at one *)
(* instant, is sound: every DEP line follows its access and names a source *)
(* printed before, and the lines of the calls of a function are numbered.  *)
THEOREM TraceSound ==
  ASSUME KindsApart
  PROVE  Spec => []TraceInv
  <1>1. Init => TraceInv
    BY TraceInit
  <1>2. TraceInv /\ [Next]_avars => TraceInv'
    BY TraceStep
  <1> QED
    BY <1>1, <1>2, PTL DEF Spec
=============================================================================
