------------------------ MODULE RemoveDeadlocksProofs ------------------------
(***************************************************************************)
(* removeDeadlocks returns a trace whose locks are bracketed, whatever     *)
(* trace it is given.                                                      *)
(***************************************************************************)
EXTENDS RemoveDeadlocks, WellFoundedInduction, TLAPS

(* Induction over the numbers, for a set in place of a predicate. *)
LEMMA LessWF == IsWellFoundedOn({ss \in Nat \X Nat : ss[1] < ss[2]}, Nat)
  BY NatLessThanWellFounded, Zenon DEF OpToRel

LEMMA SetInduction ==
  ASSUME NEW S, 0 \in S, \A n \in Nat : n \in S => n + 1 \in S
  PROVE  Nat \subseteq S
  <1> DEFINE T == Nat \ S
  <1> DEFINE R == {ss \in Nat \X Nat : ss[1] < ss[2]}
  <1>1. SUFFICES ASSUME T # {} PROVE FALSE
    OBVIOUS
  <1>2. PICK x \in T : \A y \in T : ~(<<y, x>> \in R)
    <2>1. T \subseteq Nat
      OBVIOUS
    <2>2. IsWellFoundedOn(R, Nat)
      BY LessWF
    <2> HIDE DEF R, T
    <2> QED
      BY <1>1, <2>1, <2>2, WFMin, Zenon
  <1>3. \A y \in T : ~(y < x)
    BY <1>2, Zenon
  <1>4. x # 0 /\ x - 1 \in Nat /\ x - 1 \notin T
    BY <1>3
  <1>5. (x - 1) + 1 \in S
    BY <1>4
  <1> QED
    BY <1>5

(* kept, over the first m statements, value by value. *)
KeptStep(f, tr, n) == IF IsLocking(tr[n]) THEN f[n - 1] ELSE Append(f[n - 1], tr[n])

KeptOf(f, tr, m) ==
  /\ f = [n \in 0..m |-> f[n]]
  /\ f[0] = <<>>
  /\ \A n \in 1..m : f[n] = KeptStep(f, tr, n)

(* This is what the definition of kept says. *)
LEMMA KeptAsDefined ==
  ASSUME NEW tr, NEW m \in Nat, NEW f
  PROVE  KeptOf(f, tr, m) <=>
         f = [n \in 0..m |->
               IF n = 0 THEN <<>>
               ELSE IF IsLocking(tr[n]) THEN f[n - 1] ELSE Append(f[n - 1], tr[n])]
  <1> DEFINE e(n) == IF n = 0 THEN <<>>
                     ELSE IF IsLocking(tr[n]) THEN f[n - 1] ELSE Append(f[n - 1], tr[n])
  <1>1. ASSUME f = [n \in 0..m |-> e(n)]
        PROVE  KeptOf(f, tr, m)
    <2>1. \A n \in 0..m : f[n] = e(n)
      <3> HIDE DEF e
      <3> QED
        BY <1>1, Zenon
    <2>2. f = [n \in 0..m |-> f[n]]
      <3> HIDE DEF e
      <3> QED
        BY <1>1, <2>1, Zenon
    <2>3. 0 \in 0..m /\ \A n \in 1..m : n \in 0..m /\ n # 0
      OBVIOUS
    <2> QED
      BY <2>1, <2>2, <2>3, Zenon DEF KeptOf, KeptStep
  <1>2. ASSUME KeptOf(f, tr, m)
        PROVE  f = [n \in 0..m |-> e(n)]
    <2>1. \A n \in 0..m : n # 0 => n \in 1..m
      OBVIOUS
    <2>2. \A n \in 0..m : f[n] = e(n)
      BY <1>2, <2>1, Zenon DEF KeptOf, KeptStep
    <2>3. f = [n \in 0..m |-> f[n]]
      BY <1>2, Zenon DEF KeptOf
    <2> HIDE DEF e
    <2> QED
      BY <2>2, <2>3, Zenon
  <1> QED
    BY <1>1, <1>2, Zenon

(* There is such a function: each is extended by one statement. *)
LEMMA KeptExists ==
  ASSUME NEW tr, NEW m \in Nat
  PROVE  \E f : KeptOf(f, tr, m)
  <1> DEFINE S == {n \in Nat : \E f : KeptOf(f, tr, n)}
  <1>1. 0 \in S
    <2>1. KeptOf([n \in 0..0 |-> <<>>], tr, 0)
      BY DEF KeptOf
    <2> QED
      BY <2>1
  <1>2. ASSUME NEW n \in Nat, n \in S PROVE n + 1 \in S
    <2>1. PICK f : KeptOf(f, tr, n)
      BY <1>2
    <2> DEFINE g == [k \in 0..n + 1 |->
                       IF k <= n THEN f[k]
                       ELSE IF IsLocking(tr[n + 1]) THEN f[n] ELSE Append(f[n], tr[n + 1])]
    <2>2. /\ \A k \in 0..n : g[k] = f[k]
          /\ g[n + 1] = IF IsLocking(tr[n + 1]) THEN f[n] ELSE Append(f[n], tr[n + 1])
          /\ g = [k \in 0..n + 1 |-> g[k]]
      OBVIOUS
    <2> HIDE DEF g
    <2>3. /\ f[0] = <<>>
          /\ \A k \in 1..n : f[k] = KeptStep(f, tr, k)
      BY <2>1 DEF KeptOf
    <2>4. ASSUME NEW k \in 1..n + 1
          PROVE  g[k] = KeptStep(g, tr, k)
      <3>1. CASE k <= n
        <4>1. k \in 1..n /\ k \in 0..n /\ k - 1 \in 0..n
          BY <3>1
        <4>2. g[k] = f[k] /\ g[k - 1] = f[k - 1] /\ f[k] = KeptStep(f, tr, k)
          BY <2>2, <2>3, <4>1, Zenon
        <4> QED
          BY <4>2, Zenon DEF KeptStep
      <3>2. CASE k = n + 1
        <4>1. k - 1 = n /\ n \in 0..n
          BY <3>2
        <4>2. g[k - 1] = f[n]
          BY <2>2, <4>1, Zenon
        <4> QED
          BY <2>2, <3>2, <4>2, Zenon DEF KeptStep
      <3> QED
        BY <3>1, <3>2
    <2>5. g[0] = <<>>
      <3>1. 0 \in 0..n
        OBVIOUS
      <3> QED
        BY <2>2, <2>3, <3>1, Zenon
    <2>6. KeptOf(g, tr, n + 1)
      BY <2>2, <2>4, <2>5, Zenon DEF KeptOf
    <2> QED
      BY <2>6
  <1>3. Nat \subseteq S
    <2> HIDE DEF S
    <2> QED
      BY <1>1, <1>2, SetInduction
  <1> QED
    BY <1>3

(* Two traces that start alike have the same statements left there. *)
SameAt(f, g, m) == f[m] = g[m]
SameStart(tr, tt, m) == \A k \in 1..m : tr[k] = tt[k]

LEMMA KeptUnique ==
  ASSUME NEW tr, NEW tt, NEW f, NEW g, NEW m \in Nat, NEW n \in Nat,
         KeptOf(f, tr, m), KeptOf(g, tt, n), m <= n,
         SameStart(tr, tt, m)
  PROVE  SameAt(f, g, m)
  <1> DEFINE S == {k \in Nat : k <= m => f[k] = g[k]}
  <1>1. 0 \in S
    BY DEF KeptOf
  <1>2. ASSUME NEW k \in Nat, k \in S PROVE k + 1 \in S
    <2>1. SUFFICES ASSUME k + 1 <= m PROVE f[k + 1] = g[k + 1]
      OBVIOUS
    <2>2. k + 1 \in 1..m /\ k + 1 \in 1..n /\ (k + 1) - 1 = k
      BY <2>1
    <2>3. f[k + 1] = KeptStep(f, tr, k + 1) /\ g[k + 1] = KeptStep(g, tt, k + 1)
      BY <2>2, SMTT(30) DEF KeptOf
    <2>4. f[k] = g[k] /\ tr[k + 1] = tt[k + 1]
      BY <1>2, <2>1, <2>2 DEF SameStart
    <2> QED
      BY <2>2, <2>3, <2>4 DEF KeptStep
  <1>3. Nat \subseteq S
    <2> HIDE DEF S
    <2> QED
      BY <1>1, <1>2, SetInduction
  <1> QED
    BY <1>3 DEF SameAt

(* Others is its last value. *)
LEMMA OthersIs ==
  ASSUME NEW tr, NEW n \in Nat, n = Len(tr), NEW f, KeptOf(f, tr, n)
  PROVE  Others(tr) = f[n]
  <1> DEFINE g == CHOOSE k : k = [j \in 0..n |->
                    IF j = 0 THEN <<>>
                    ELSE IF IsLocking(tr[j]) THEN k[j - 1] ELSE Append(k[j - 1], tr[j])]
  <1>1. \E k : k = [j \in 0..n |->
                    IF j = 0 THEN <<>>
                    ELSE IF IsLocking(tr[j]) THEN k[j - 1] ELSE Append(k[j - 1], tr[j])]
    <2>1. f = [j \in 0..n |->
                IF j = 0 THEN <<>>
                ELSE IF IsLocking(tr[j]) THEN f[j - 1] ELSE Append(f[j - 1], tr[j])]
      BY KeptAsDefined
    <2> QED
      BY <2>1, Zenon
  <1>2. g = [j \in 0..n |->
              IF j = 0 THEN <<>>
              ELSE IF IsLocking(tr[j]) THEN g[j - 1] ELSE Append(g[j - 1], tr[j])]
    BY <1>1, Zenon
  <1>3. Others(tr) = g[n]
    BY Zenon DEF Others
  <1> HIDE DEF g
  <1>4. KeptOf(g, tr, n)
    BY <1>2, KeptAsDefined, Zenon
  <1>5. n <= n /\ SameStart(tr, tr, n)
    BY DEF SameStart
  <1>6. SameAt(f, g, n)
    BY <1>4, <1>5, KeptUnique, Zenon
  <1> QED
    BY <1>3, <1>6, Zenon DEF SameAt

(* Nothing is left of nothing. *)
LEMMA OthersEmpty == Others(<<>>) = <<>>
  <1>1. PICK f : KeptOf(f, <<>>, 0)
    BY KeptExists
  <1>2. f[0] = <<>>
    BY <1>1 DEF KeptOf
  <1>3. Len(<<>>) = 0
    OBVIOUS
  <1> QED
    BY <1>1, <1>2, <1>3, OthersIs, Zenon

(* A statement more adds itself, or nothing when it locks or unlocks. *)
LEMMA OthersAppend ==
  ASSUME NEW R, NEW tr \in Seq(R), NEW s \in R
  PROVE  Others(Append(tr, s)) = IF IsLocking(s) THEN Others(tr) ELSE Append(Others(tr), s)
  <1>1. PICK tt : tt = Append(tr, s)
    BY Zenon
  <1>2. PICK n \in Nat : n = Len(tr)
    OBVIOUS
  <1>3. PICK m \in Nat : m = n + 1
    OBVIOUS
  <1>4. /\ Len(tt) = m /\ tt[m] = s /\ n <= m
        /\ SameStart(tr, tt, n)
    BY <1>1, <1>2, <1>3 DEF SameStart
  <1>5. PICK f : KeptOf(f, tr, n)
    BY KeptExists, Zenon
  <1>6. PICK g : KeptOf(g, tt, m)
    BY KeptExists, Zenon
  <1>7. SameAt(f, g, n)
    BY <1>4, <1>5, <1>6, KeptUnique, Zenon
  <1>8. g[m] = IF IsLocking(s) THEN g[n] ELSE Append(g[n], s)
    <2>1. m \in 1..m /\ m - 1 = n
      BY <1>3
    <2>2. g[m] = KeptStep(g, tt, m)
      BY <1>6, <2>1, Zenon DEF KeptOf
    <2> QED
      BY <1>4, <2>1, <2>2 DEF KeptStep
  <1>9. Others(tt) = g[m] /\ Others(tr) = f[n]
    BY <1>2, <1>4, <1>5, <1>6, OthersIs, Zenon
  <1> QED
    BY <1>1, <1>7, <1>8, <1>9 DEF SameAt

(* The open lock is the last locking statement kept, and every lock that   *)
(* is not the open one has been released.                                  *)
IsOpen(k) == acc.out[k].id = acc.open /\ QuietBetween(k, Len(acc.out) + 1)

Released(k) ==
  \E u \in k + 1..Len(acc.out) :
    Releases(acc.out[u], acc.out[k].id) /\ QuietBetween(k, u)

HeldInv ==
  acc.open # Free => \E k \in DOMAIN acc.out : acc.out[k].op = "lock" /\ IsOpen(k)

ReleaseInv ==
  \A k \in DOMAIN acc.out : acc.out[k].op = "lock" => Released(k) \/ IsOpen(k)

ScanInv == TypeOK /\ HeldInv /\ ReleaseInv /\ OnlyHeldReleased

(* What one iteration does to the fields of acc. *)
LEMMA ScanFields ==
  ASSUME NEW a, NEW s
  PROVE  /\ DOMAIN Scan(a, s) = {"out", "open", "dropped"}
         /\ Scan(a, s).out = IF Kept(a.open, s) THEN Append(a.out, s) ELSE a.out
         /\ Scan(a, s).open = Opened(a.open, s)
         /\ Scan(a, s).dropped = IF Kept(a.open, s) THEN a.dropped ELSE a.dropped + 1
  BY DEF Scan

(* The scan starts with an empty result and no open lock. *)
LEMMA ScanInit == Init => ScanInv
  <1> SUFFICES ASSUME Init PROVE ScanInv
    OBVIOUS
  <1>1. /\ DOMAIN acc = {"out", "open", "dropped"}
        /\ acc.out = <<>> /\ acc.open = Free /\ acc.dropped = 0
    BY DEF Init, Start
  <1>2. TypeOK
    <2>1. trace \in Seq(Statements) /\ i = 1
      BY StatementAssumption DEF Init
    <2>2. 1 \in 1..Len(trace) + 1
      BY <2>1
    <2>3. acc.out \in Seq(Statements) /\ Len(acc.out) + acc.dropped = i - 1
      BY <1>1, <2>1
    <2>4. acc.open \in {Free} \cup {s.id : s \in Statements}
      BY <1>1, Zenon
    <2>5. acc.dropped \in Nat /\ i \in 1..Len(trace) + 1
      BY <1>1, <2>1, <2>2
    <2> QED
      BY <1>1, <2>1, <2>3, <2>4, <2>5, Zenon DEF TypeOK
  <1>3. DOMAIN acc.out = {}
    BY <1>1
  <1> QED
    BY <1>1, <1>2, <1>3 DEF ScanInv, HeldInv, ReleaseInv, OnlyHeldReleased

(* A dropped statement changes neither the result nor the open lock. *)
LEMMA DropStep ==
  ASSUME ScanInv, Step, ~Kept(acc.open, trace[i])
  PROVE  ScanInv'
  <1> DEFINE s == trace[i]
  <1>1. s \in Statements
    BY DEF ScanInv, TypeOK, Step
  <1>2. /\ DOMAIN acc' = {"out", "open", "dropped"}
        /\ acc'.out = acc.out /\ acc'.open = acc.open
        /\ acc'.dropped = acc.dropped + 1
    BY ScanFields DEF Step, Opened
  <1>3. TypeOK'
    BY <1>2 DEF ScanInv, TypeOK, Step
  <1>4. HeldInv' /\ ReleaseInv' /\ OnlyHeldReleased'
    BY <1>2 DEF ScanInv, HeldInv, ReleaseInv, OnlyHeldReleased, IsOpen, Released,
                QuietBetween, IsLocking
  <1> QED
    BY <1>3, <1>4 DEF ScanInv

(* What a kept statement leaves as it was: the result up to its end. *)
LEMMA KeepFacts ==
  ASSUME ScanInv, Step, Kept(acc.open, trace[i])
  PROVE  /\ TypeOK'
         /\ trace[i] \in Statements
         /\ Len(acc.out) \in Nat
         /\ Len(acc'.out) = Len(acc.out) + 1
         /\ DOMAIN acc.out = 1..Len(acc.out)
         /\ DOMAIN acc'.out = 1..Len(acc.out) + 1
         /\ \A k \in 1..Len(acc.out) : acc'.out[k] = acc.out[k]
         /\ acc'.out[Len(acc.out) + 1] = trace[i]
         /\ acc'.open = Opened(acc.open, trace[i])
  <1> DEFINE s == trace[i]
  <1>1. s \in Statements
    BY DEF ScanInv, TypeOK, Step
  <1>2. /\ DOMAIN acc' = {"out", "open", "dropped"}
        /\ acc'.out = Append(acc.out, s) /\ acc'.open = Opened(acc.open, s)
        /\ acc'.dropped = acc.dropped
    BY ScanFields, Zenon DEF Step
  <1>3. acc'.open \in {Free} \cup {t.id : t \in Statements}
    BY <1>1, <1>2 DEF Opened, ScanInv, TypeOK
  <1>4. acc.out \in Seq(Statements)
    BY DEF ScanInv, TypeOK
  <1>5. /\ acc'.out \in Seq(Statements)
        /\ Len(acc'.out) = Len(acc.out) + 1
    BY <1>1, <1>2, <1>4
  <1>6. TypeOK'
    BY <1>2, <1>3, <1>5 DEF ScanInv, TypeOK, Step
  <1> QED
    BY <1>1, <1>2, <1>4, <1>5, <1>6

(* Between two statements of the old result nothing changes, nor between   *)
(* one of them and the new end.                                            *)
LEMMA QuietKept ==
  ASSUME ScanInv, Step, Kept(acc.open, trace[i]),
         NEW k \in Nat, NEW m \in Nat, m <= Len(acc.out) + 1, QuietBetween(k, m)
  PROVE  QuietBetween(k, m)'
  <1>1. /\ Len(acc.out) \in Nat
        /\ \A q \in 1..Len(acc.out) : acc'.out[q] = acc.out[q]
    BY KeepFacts
  <1>2. ASSUME NEW q \in k + 1..m - 1
        PROVE  ~IsLocking(acc'.out[q])
    <2>1. q \in 1..Len(acc.out)
      BY <1>1
    <2> QED
      BY <1>1, <2>1 DEF QuietBetween
  <1> QED
    BY <1>2 DEF QuietBetween

(* A lock that has been released stays released. *)
LEMMA ReleasedKept ==
  ASSUME ScanInv, Step, Kept(acc.open, trace[i]),
         NEW k \in 1..Len(acc.out), Released(k)
  PROVE  Released(k)'
  <1>1. /\ Len(acc.out) \in Nat
        /\ Len(acc'.out) = Len(acc.out) + 1
        /\ \A q \in 1..Len(acc.out) : acc'.out[q] = acc.out[q]
    BY KeepFacts
  <1>2. PICK u \in k + 1..Len(acc.out) :
          Releases(acc.out[u], acc.out[k].id) /\ QuietBetween(k, u)
    BY DEF Released
  <1>3. u \in Nat /\ u <= Len(acc.out) + 1 /\ u \in 1..Len(acc.out)
    BY <1>1
  <1>4. Releases(acc'.out[u], acc'.out[k].id)
    BY <1>1, <1>2, <1>3
  <1>5. QuietBetween(k, u)'
    BY <1>2, <1>3, QuietKept
  <1>6. u \in k + 1..Len(acc'.out)
    BY <1>1, <1>3
  <1> QED
    BY <1>4, <1>5, <1>6 DEF Released

(* Appending keeps the unlocks of the old result matched. *)
LEMMA UnlocksKept ==
  ASSUME ScanInv, Step, Kept(acc.open, trace[i]),
         NEW u \in 1..Len(acc.out), acc'.out[u].op = "unlock"
  PROVE  \E k \in 1..u - 1 : /\ acc'.out[k].op = "lock"
                             /\ Releases(acc'.out[u], acc'.out[k].id)
                             /\ QuietBetween(k, u)'
  <1>1. /\ Len(acc.out) \in Nat
        /\ DOMAIN acc.out = 1..Len(acc.out)
        /\ \A q \in 1..Len(acc.out) : acc'.out[q] = acc.out[q]
    BY KeepFacts
  <1>2. acc.out[u].op = "unlock"
    BY <1>1
  <1>3. PICK k \in 1..u - 1 : /\ acc.out[k].op = "lock"
                             /\ Releases(acc.out[u], acc.out[k].id)
                             /\ QuietBetween(k, u)
    BY <1>1, <1>2 DEF ScanInv, OnlyHeldReleased
  <1>4. QuietBetween(k, u)'
    BY <1>1, <1>3, QuietKept
  <1>5. acc'.out[k] = acc.out[k] /\ acc'.out[u] = acc.out[u]
    BY <1>1
  <1> QED
    BY <1>3, <1>4, <1>5

(* A kept lock is the open one; all earlier locks have been released. *)
LEMMA LockStep ==
  ASSUME ScanInv, Step, Kept(acc.open, trace[i]), trace[i].op = "lock"
  PROVE  ScanInv'
  <1>0. PICK n \in Nat : /\ n = Len(acc.out) /\ n + 1 = Len(acc'.out)
                         /\ DOMAIN acc.out = 1..n /\ DOMAIN acc'.out = 1..n + 1
                         /\ \A k \in 1..n : acc'.out[k] = acc.out[k]
                         /\ acc'.out[n + 1] = trace[i]
    BY KeepFacts
  <1>1. acc.open = Free /\ acc'.open = trace[i].id
    BY KeepFacts DEF Kept, Opened, Releases
  <1>2. IsOpen(n + 1)'
    BY <1>0, <1>1 DEF IsOpen, QuietBetween
  <1>3. HeldInv'
    BY <1>0, <1>2 DEF HeldInv
  <1>4. ASSUME NEW k \in 1..n, acc.out[k].op = "lock"
        PROVE  Released(k)'
    <2>1. acc.out[k] \in Statements
      BY <1>0 DEF ScanInv, TypeOK
    <2>2. ~IsOpen(k)
      BY <1>1, <1>4, <2>1, StatementAssumption DEF IsOpen
    <2>3. Released(k)
      BY <1>0, <1>4, <2>2 DEF ScanInv, ReleaseInv
    <2> QED
      BY <1>0, <2>3, ReleasedKept
  <1>5. ReleaseInv'
    BY <1>0, <1>2, <1>4 DEF ReleaseInv
  <1>6. OnlyHeldReleased'
    BY <1>0, UnlocksKept DEF OnlyHeldReleased
  <1> QED
    BY <1>3, <1>5, <1>6, KeepFacts DEF ScanInv

(* A kept unlock releases the open lock. *)
LEMMA UnlockStep ==
  ASSUME ScanInv, Step, Kept(acc.open, trace[i]), trace[i].op = "unlock"
  PROVE  ScanInv'
  <1>0. PICK n \in Nat : /\ n = Len(acc.out) /\ n + 1 = Len(acc'.out)
                         /\ DOMAIN acc.out = 1..n /\ DOMAIN acc'.out = 1..n + 1
                         /\ \A k \in 1..n : acc'.out[k] = acc.out[k]
                         /\ acc'.out[n + 1] = trace[i]
    BY KeepFacts
  <1>1. /\ acc.open # Free /\ Releases(trace[i], acc.open)
        /\ acc'.open = Free
    BY KeepFacts DEF Kept, Opened
  <1>2. HeldInv'
    BY <1>1 DEF HeldInv
  <1>3. ASSUME NEW k \in 1..n, IsOpen(k)
        PROVE  Releases(acc'.out[n + 1], acc'.out[k].id) /\ QuietBetween(k, n + 1)'
    <2>1. acc.out[k].id = acc.open /\ QuietBetween(k, n + 1)
      BY <1>0, <1>3 DEF IsOpen
    <2>2. QuietBetween(k, n + 1)'
      BY <1>0, <2>1, QuietKept
    <2> QED
      BY <1>0, <1>1, <2>1, <2>2
  <1>4. ASSUME NEW k \in 1..n, acc.out[k].op = "lock"
        PROVE  Released(k)'
    <2>1. CASE IsOpen(k)
      BY <1>0, <1>3, <2>1, SMTT(30) DEF Released
    <2>2. CASE Released(k)
      BY <1>0, <2>2, ReleasedKept
    <2> QED
      BY <1>0, <1>4, <2>1, <2>2 DEF ScanInv, ReleaseInv
  <1>5. ReleaseInv'
    <2>1. acc'.out[n + 1].op # "lock"
      BY <1>0
    <2> QED
      BY <1>0, <1>4, <2>1 DEF ReleaseInv
  <1>6. PICK k \in 1..n : acc.out[k].op = "lock" /\ IsOpen(k)
    BY <1>0, <1>1 DEF ScanInv, HeldInv
  <1>7. OnlyHeldReleased'
    <2>1. /\ k \in 1..(n + 1) - 1
          /\ acc'.out[k].op = "lock"
          /\ Releases(acc'.out[n + 1], acc'.out[k].id) /\ QuietBetween(k, n + 1)'
      BY <1>0, <1>3, <1>6
    <2>2. \A u \in 1..n + 1 : u \in 1..n \/ u = n + 1
      OBVIOUS
    <2> QED
      BY <1>0, <2>1, <2>2, UnlocksKept, SMTT(60), Z3T(60) DEF OnlyHeldReleased
  <1> QED
    BY <1>2, <1>5, <1>7, KeepFacts DEF ScanInv

(* Any other statement leaves the open lock as it is. *)
LEMMA OtherStep ==
  ASSUME ScanInv, Step, ~IsLocking(trace[i])
  PROVE  ScanInv'
  <1>1. Kept(acc.open, trace[i])
    BY DEF Kept, IsLocking
  <1>0. PICK n \in Nat : /\ n = Len(acc.out) /\ n + 1 = Len(acc'.out)
                         /\ DOMAIN acc.out = 1..n /\ DOMAIN acc'.out = 1..n + 1
                         /\ \A k \in 1..n : acc'.out[k] = acc.out[k]
                         /\ acc'.out[n + 1] = trace[i]
    BY <1>1, KeepFacts
  <1>2. acc'.open = acc.open
    BY <1>1, KeepFacts DEF Opened, IsLocking
  <1>3. ASSUME NEW k \in 1..n, IsOpen(k)
        PROVE  IsOpen(k)'
    <2>1. \A q \in k + 1..n : ~IsLocking(acc.out[q])
      BY <1>0, <1>3 DEF IsOpen, QuietBetween
    <2>2. \A q \in k + 1..n + 1 : ~IsLocking(acc'.out[q])
      BY <1>0, <2>1, SMTT(30)
    <2>3. QuietBetween(k, n + 2)'
      BY <2>2 DEF QuietBetween
    <2>4. acc'.out[k].id = acc'.open
      BY <1>0, <1>2, <1>3 DEF IsOpen
    <2>5. Len(acc'.out) + 1 = n + 2
      BY <1>0
    <2> QED
      BY <2>3, <2>4, <2>5 DEF IsOpen
  <1>4. HeldInv'
    BY <1>0, <1>2, <1>3 DEF ScanInv, HeldInv
  <1>5. ReleaseInv'
    BY <1>0, <1>1, <1>3, ReleasedKept DEF ScanInv, ReleaseInv, IsLocking
  <1>6. OnlyHeldReleased'
    BY <1>0, <1>1, UnlocksKept DEF OnlyHeldReleased, IsLocking
  <1> QED
    BY <1>1, <1>4, <1>5, <1>6, KeepFacts DEF ScanInv

(* The invariant of the scan, for traces of any length. *)
THEOREM ScanInvariant == Spec => []ScanInv
  <1>1. ScanInv /\ [Next]_vars => ScanInv'
    <2>1. CASE Step
      BY <2>1, DropStep, LockStep, UnlockStep, OtherStep DEF IsLocking
    <2>2. CASE UNCHANGED vars
      BY <2>2 DEF vars, ScanInv, TypeOK, HeldInv, ReleaseInv, OnlyHeldReleased, IsOpen,
                  Released, QuietBetween, IsLocking
    <2> QED
      BY <2>1, <2>2 DEF Next
  <1> QED
    BY ScanInit, <1>1, PTL DEF Spec

(* removeDeadlocks: every statement is in the result or counted. *)
THEOREM ScanTypeCorrect == Spec => []TypeOK
  <1>1. ScanInv => TypeOK
    BY DEF ScanInv
  <1> QED
    BY <1>1, ScanInvariant, PTL

(* removeDeadlocks: in the trace it returns no lock is taken while another *)
(* one is held.                                                            *)
THEOREM NeverTwiceHolds == Spec => []NeverTwice
  <1>1. ScanInv => NeverTwice
    BY DEF ScanInv, ReleaseInv, NeverTwice, Released, IsOpen
  <1> QED
    BY <1>1, ScanInvariant, PTL

(* removeDeadlocks: nor is one released that is not held. *)
THEOREM OnlyHeldReleasedHolds == Spec => []OnlyHeldReleased
  <1>1. ScanInv => OnlyHeldReleased
    BY DEF ScanInv
  <1> QED
    BY <1>1, ScanInvariant, PTL

(* removeDeadlocks: the locks of the result do not nest and each unlock    *)
(* belongs to the lock before it.                                          *)
THEOREM LocksNestHolds == Spec => []LocksNest
  <1>1. NeverTwice /\ OnlyHeldReleased => LocksNest
    BY DEF LocksNest
  <1> QED
    BY <1>1, NeverTwiceHolds, OnlyHeldReleasedHolds, PTL

(* One statement of the scan keeps the other statements. *)
LEMMA OthersStep ==
  ASSUME ScanInv, Step, OthersKept
  PROVE  OthersKept'
  <1> DEFINE s == trace[i]
             seen == SubSeq(trace, 1, i - 1)
  <1>1. /\ trace \in Seq(Statements) /\ i \in 1..Len(trace) /\ s \in Statements
        /\ acc.out \in Seq(Statements) /\ trace' = trace /\ i' = i + 1
    BY DEF ScanInv, TypeOK, Step
  <1>2. seen \in Seq(Statements) /\ SubSeq(trace, 1, i) = Append(seen, s)
    BY <1>1
  <1>3. SubSeq(trace, 1, i - 1)' = Append(seen, s)
    <2>1. i' - 1 = i
      BY <1>1
    <2> QED
      BY <1>1, <1>2, <2>1
  <1>4. Others(acc.out) = Others(seen)
    BY DEF OthersKept
  <1>5. acc'.out = IF Kept(acc.open, s) THEN Append(acc.out, s) ELSE acc.out
    BY ScanFields, Zenon DEF Step
  <1>6. ~IsLocking(s) => Kept(acc.open, s)
    BY DEF Kept, IsLocking
  <1>7. Others(Append(seen, s)) = IF IsLocking(s) THEN Others(seen) ELSE Append(Others(seen), s)
    BY <1>1, <1>2, OthersAppend, Zenon
  <1>8. Others(Append(acc.out, s)) = IF IsLocking(s) THEN Others(acc.out)
                                     ELSE Append(Others(acc.out), s)
    BY <1>1, OthersAppend, Zenon
  <1>9. Others(acc'.out) = Others(Append(seen, s))
    <2> HIDE DEF s, seen
    <2> QED
      BY <1>4, <1>5, <1>6, <1>7, <1>8, Zenon
  <1> QED
    BY <1>3, <1>9, Zenon DEF OthersKept

(* removeDeadlocks loses, adds and moves no statement other than locks and *)
(* unlocks.                                                                *)
THEOREM OthersKeptHolds == Spec => []OthersKept
  <1>1. Init => OthersKept
    <2> SUFFICES ASSUME Init PROVE OthersKept
      OBVIOUS
    <2>1. acc.out = <<>> /\ i = 1 /\ trace \in Seq(Statements)
      BY StatementAssumption DEF Init, Start
    <2>2. SubSeq(trace, 1, i - 1) = <<>>
      BY <2>1
    <2> QED
      BY <2>1, <2>2, Zenon DEF OthersKept
  <1>2. ScanInv /\ OthersKept /\ [Next]_vars => OthersKept'
    <2>1. CASE Step
      BY <2>1, OthersStep
    <2>2. CASE UNCHANGED vars
      BY <2>2, Zenon DEF vars, OthersKept
    <2> QED
      BY <2>1, <2>2 DEF Next
  <1> QED
    BY <1>1, <1>2, ScanInvariant, PTL DEF Spec
=============================================================================
