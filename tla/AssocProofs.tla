----------------------------- MODULE AssocProofs -----------------------------
(***************************************************************************)
(* memcached's hash table keeps every key where a lookup searches it while *)
(* the maintenance thread doubles the table: with any keys, hashes and     *)
(* threads, and any sizes with fewer locks than buckets.                   *)
(***************************************************************************)
EXTENDS Assoc, WellFoundedInduction, FiniteSetTheorems, TLAPS

(* Induction over the numbers, for a set in place of a predicate. *)
LEMMA LessWF == IsWellFoundedOn({ss \in Nat \X Nat : ss[1] < ss[2]}, Nat)
  BY NatLessThanWellFounded, Zenon DEF OpToRel

(* A set of numbers with 0 and every successor of its numbers has them all; *)
(* a set, and not a predicate, so that it can be cited.                     *)
LEMMA SetInduction ==
  ASSUME NEW S, 0 \in S, \A n \in Nat : n \in S => n + 1 \in S
  PROVE  Nat \subseteq S
  <1> DEFINE T == Nat \ S
  <1> DEFINE R == {ss \in Nat \X Nat : ss[1] < ss[2]}
  <1>1. SUFFICES ASSUME T # {} PROVE FALSE
    OBVIOUS
  <1>2. PICK x \in T : \A y \in T : ~(<<y, x>> \in R)
    <2>1. T \subseteq Nat
      OBVIOUS
    <2>2. IsWellFoundedOn(R, Nat)
      BY LessWF
    <2> HIDE DEF R, T
    <2> QED
      BY <1>1, <2>1, <2>2, WFMin, Zenon
  <1>3. \A y \in T : ~(y < x)
    BY <1>2, Zenon
  <1>4. x # 0 /\ x - 1 \in Nat /\ x - 1 \notin T
    BY <1>3
  <1>5. (x - 1) + 1 \in S
    BY <1>4
  <1> QED
    BY <1>5

-----------------------------------------------------------------------------
(* The multiples of a number are at least that number apart. *)
LEMMA Multiple ==
  ASSUME NEW a \in Nat \ {0}, NEW u \in Int, NEW v \in Int, u < v
  PROVE  a * v >= a * u + a
  <1>1. PICK d \in Nat : v = u + 1 + d
    <2>1. v - u - 1 \in Nat /\ v = u + 1 + (v - u - 1)
      OBVIOUS
    <2> QED
      BY <2>1
  <1>2. a * v = a * u + a + a * d
    BY <1>1
  <1>3. a * d >= 0
    OBVIOUS
  <1>4. a * v \in Int /\ a * u \in Int /\ a * d \in Int
    OBVIOUS
  <1> QED
    BY <1>2, <1>3, <1>4

(* Division with remainder. *)
LEMMA IntDivMod ==
  ASSUME NEW x \in Int, NEW a \in Int, a > 0
  PROVE  x = a * (x \div a) + (x % a)
  OBVIOUS

(* What a remainder is, for a number and a size. *)
LEMMA DivMod ==
  ASSUME NEW x \in Nat, NEW a \in Nat \ {0}
  PROVE  /\ x \div a \in Nat /\ x % a \in 0..a - 1
         /\ x = a * (x \div a) + (x % a)
  <1>1. x \div a \in Int /\ x % a \in 0..a - 1
    OBVIOUS
  <1>2. x = a * (x \div a) + (x % a)
    BY IntDivMod
  <1>3. x \div a \in Nat
    <2>1. SUFFICES ASSUME x \div a < 0 PROVE FALSE
      BY <1>1
    <2> DEFINE d == x \div a
    <2>2. d \in Int /\ d < 0 /\ x = a * d + (x % a)
      BY <1>1, <1>2, <2>1
    <2> HIDE DEF d
    <2>3. a * 0 >= a * d + a
      BY <2>2, Multiple
    <2>4. a * d \in Int /\ a * 0 = 0
      BY <2>2
    <2> QED
      <3>1. PICK r \in Int : r = x % a /\ r < a
        BY <1>1
      <3>2. PICK m \in Int : m = a * d
        BY <2>4
      <3>3. x = m + r /\ 0 >= m + a
        BY <2>2, <2>3, <2>4, <3>1, <3>2, Zenon
      <3> QED
        BY <3>1, <3>3
  <1> QED
    BY <1>1, <1>2, <1>3

(* There is one remainder only. *)
LEMMA OneRemainder ==
  ASSUME NEW a \in Nat \ {0}, NEW u \in Nat, NEW v \in Nat,
         NEW r \in 0..a - 1, NEW s \in 0..a - 1, a * u + r = a * v + s
  PROVE  r = s
  <1>1. a * u \in Nat /\ a * v \in Nat
    OBVIOUS
  <1>2. CASE u < v
    <2>1. a * v >= a * u + a
      BY <1>2, Multiple
    <2> QED
      BY <1>1, <2>1
  <1>3. CASE v < u
    <2>1. a * u >= a * v + a
      BY <1>3, Multiple
    <2> QED
      BY <1>1, <2>1
  <1>4. CASE u = v
    BY <1>1, <1>4
  <1> QED
    BY <1>2, <1>3, <1>4

(* The low bits of the low bits of a number are its low bits. *)
LEMMA ModMod ==
  ASSUME NEW x \in Nat, NEW a \in Nat \ {0}, NEW q \in Nat \ {0}
  PROVE  (x % (q * a)) % a = x % a
  <1>1. PICK b \in Nat \ {0} : b = q * a
    OBVIOUS
  <1>2. PICK c \in Nat, r \in 0..b - 1 : x = b * c + r /\ r = x % b
    BY DivMod, Zenon
  <1>20. r \in Nat
    OBVIOUS
  <1>3. PICK d \in Nat, s \in 0..a - 1 : r = a * d + s /\ s = r % a
    BY <1>20, DivMod, Zenon
  <1>4. PICK e \in Nat, t \in 0..a - 1 : x = a * e + t /\ t = x % a
    BY DivMod, Zenon
  <1>5. b * c = a * (q * c)
    BY <1>1
  <1>6. q * c \in Nat /\ b * c \in Nat /\ a * (q * c) \in Nat /\ a * d \in Nat
    OBVIOUS
  <1>7. a * (q * c + d) = a * (q * c) + a * d
    BY <1>6
  <1>8. x = a * (q * c + d) + s
    <2>1. PICK m \in Nat : m = b * c
      BY <1>6
    <2>2. PICK n \in Nat : n = a * d
      BY <1>6
    <2>3. x = m + r /\ r = n + s
      BY <1>2, <1>3, <2>1, <2>2, Zenon
    <2>4. a * (q * c + d) = m + n
      BY <1>5, <1>7, <2>1, <2>2, Zenon
    <2>5. x = (m + n) + s
      BY <2>3
    <2> QED
      BY <2>4, <2>5, Zenon
  <1>9. q * c + d \in Nat
    BY <1>6
  <1>10. s = t
    BY <1>4, <1>8, <1>9, OneRemainder, Zenon
  <1> QED
    BY <1>1, <1>2, <1>3, <1>4, <1>10, Zenon

(* hashsize, up to m, value by value. *)
SizesOf(f, m) ==
  /\ f \in [0..m -> Nat \ {0}]
  /\ f[0] = 1
  /\ \A n \in 1..m : f[n] = 2 * f[n - 1]

(* There is such a function: each is extended by one value. *)
LEMMA SizesExist ==
  ASSUME NEW m \in Nat
  PROVE  \E f : SizesOf(f, m)
  <1> DEFINE S == {n \in Nat : \E f : SizesOf(f, n)}
  <1>1. 0 \in S
    <2>1. SizesOf([n \in 0..0 |-> 1], 0)
      BY DEF SizesOf
    <2> QED
      BY <2>1
  <1>2. ASSUME NEW n \in Nat, n \in S PROVE n + 1 \in S
    <2>1. PICK f : SizesOf(f, n)
      BY <1>2
    <2>2. /\ f \in [0..n -> Nat \ {0}] /\ f[0] = 1
          /\ \A k \in 1..n : f[k] = 2 * f[k - 1]
      BY <2>1 DEF SizesOf
    <2> DEFINE g == [k \in 0..n + 1 |-> IF k <= n THEN f[k] ELSE 2 * f[n]]
    <2>3. /\ \A k \in 0..n : g[k] = f[k]
          /\ g[n + 1] = 2 * f[n]
          /\ g = [k \in 0..n + 1 |-> g[k]]
      OBVIOUS
    <2> HIDE DEF g
    <2>4. ASSUME NEW k \in 1..n + 1
          PROVE  g[k] = 2 * g[k - 1]
      <3>1. CASE k <= n
        <4>1. k \in 1..n /\ k \in 0..n /\ k - 1 \in 0..n
          BY <3>1
        <4> QED
          BY <2>2, <2>3, <4>1, Zenon
      <3>2. CASE k = n + 1
        <4>1. k - 1 = n /\ n \in 0..n
          BY <3>2
        <4> QED
          BY <2>3, <3>2, <4>1, Zenon
      <3> QED
        BY <3>1, <3>2
    <2>5. g[0] = 1 /\ 0 \in 0..n
      BY <2>2, <2>3, SMTT(30)
    <2>6. \A k \in 0..n + 1 : g[k] \in Nat \ {0}
      <3>1. \A k \in 0..n + 1 : k \in 0..n \/ k = n + 1
        OBVIOUS
      <3>2. 2 * f[n] \in Nat \ {0}
        BY <2>2
      <3> QED
        BY <2>2, <2>3, <3>1, <3>2, Zenon
    <2>7. SizesOf(g, n + 1)
      BY <2>3, <2>4, <2>5, <2>6, Zenon DEF SizesOf
    <2> QED
      BY <2>7
  <1>3. Nat \subseteq S
    <2> HIDE DEF S
    <2> QED
      BY <1>1, <1>2, SetInduction
  <1> QED
    BY <1>3

(* hashsize has the values its definition says. *)
LEMMA HashSizes == SizesOf(hashsize, HASHPOWER_MAX)
  <1>1. PICK f : SizesOf(f, HASHPOWER_MAX)
    BY AssocAssumption, SizesExist
  <1>2. f = [n \in 0..HASHPOWER_MAX |-> IF n = 0 THEN 1 ELSE 2 * f[n - 1]]
    <2>1. ASSUME NEW n \in 0..HASHPOWER_MAX
          PROVE  f[n] = IF n = 0 THEN 1 ELSE 2 * f[n - 1]
      <3>1. n # 0 => n \in 1..HASHPOWER_MAX
        BY AssocAssumption
      <3> QED
        BY <1>1, <3>1, Zenon DEF SizesOf
    <2>2. f = [n \in 0..HASHPOWER_MAX |-> f[n]]
      BY <1>1, Zenon DEF SizesOf
    <2> QED
      BY <2>1, <2>2, Zenon
  <1> DEFINE e(g, n) == IF n = 0 THEN 1 ELSE 2 * g[n - 1]
  <1>3. hashsize = [n \in 0..HASHPOWER_MAX |-> e(hashsize, n)]
    BY <1>2, Zenon DEF hashsize
  <1>4. \A n \in 0..HASHPOWER_MAX : hashsize[n] = e(hashsize, n)
    <2> HIDE DEF e
    <2> QED
      BY <1>3, Zenon
  <1>5. /\ hashsize[0] = 1
        /\ \A n \in 1..HASHPOWER_MAX : hashsize[n] = 2 * hashsize[n - 1]
    <2>1. 0 \in 0..HASHPOWER_MAX /\ \A n \in 1..HASHPOWER_MAX : n \in 0..HASHPOWER_MAX /\ n # 0
      BY AssocAssumption
    <2> QED
      BY <1>4, <2>1, Zenon
  <1> DEFINE S == {n \in Nat : n <= HASHPOWER_MAX => hashsize[n] \in Nat \ {0}}
  <1>6. 0 \in S
    BY <1>5
  <1>7. ASSUME NEW n \in Nat, n \in S PROVE n + 1 \in S
    <2>1. SUFFICES ASSUME n + 1 <= HASHPOWER_MAX PROVE hashsize[n + 1] \in Nat \ {0}
      OBVIOUS
    <2>2. hashsize[n] \in Nat \ {0}
      BY <1>7, <2>1, AssocAssumption
    <2>3. n + 1 \in 1..HASHPOWER_MAX /\ (n + 1) - 1 = n
      BY <2>1, AssocAssumption
    <2>4. hashsize[n + 1] = 2 * hashsize[n]
      BY <1>5, <2>3
    <2> QED
      BY <2>2, <2>4
  <1>8. Nat \subseteq S
    <2> HIDE DEF S
    <2> QED
      BY <1>6, <1>7, SetInduction
  <1>9. \A n \in 0..HASHPOWER_MAX : hashsize[n] \in Nat \ {0}
    BY <1>8, AssocAssumption
  <1>10. hashsize = [n \in 0..HASHPOWER_MAX |-> hashsize[n]]
    BY <1>3, <1>4, Zenon
  <1> QED
    BY <1>5, <1>9, <1>10, Zenon DEF SizesOf

(* A smaller table's size divides a larger one's. *)
LEMMA SizeDivides ==
  ASSUME NEW a \in 0..HASHPOWER_MAX, NEW b \in a..HASHPOWER_MAX
  PROVE  \E q \in Nat \ {0} : hashsize[b] = q * hashsize[a]
  <1> DEFINE S == {n \in Nat : a + n <= HASHPOWER_MAX =>
                     \E q \in Nat \ {0} : hashsize[a + n] = q * hashsize[a]}
  <1>1. hashsize[a] \in Nat \ {0}
    BY HashSizes DEF SizesOf
  <1>2. 0 \in S
    <2>1. a + 0 = a /\ hashsize[a] = 1 * hashsize[a]
      BY <1>1, AssocAssumption
    <2> QED
      BY <2>1
  <1>3. ASSUME NEW n \in Nat, n \in S PROVE n + 1 \in S
    <2>1. SUFFICES ASSUME a + (n + 1) <= HASHPOWER_MAX
                   PROVE  \E q \in Nat \ {0} : hashsize[a + (n + 1)] = q * hashsize[a]
      OBVIOUS
    <2>2. PICK q \in Nat \ {0} : hashsize[a + n] = q * hashsize[a]
      BY <1>3, <2>1, AssocAssumption
    <2>3. a + (n + 1) \in 1..HASHPOWER_MAX /\ (a + (n + 1)) - 1 = a + n
      BY <2>1, AssocAssumption
    <2>4. hashsize[a + (n + 1)] = 2 * hashsize[a + n]
      BY <2>3, HashSizes DEF SizesOf
    <2>5. PICK h \in Nat : h = hashsize[a]
      BY <1>1
    <2>6. 2 * (q * h) = (2 * q) * h /\ 2 * q \in Nat \ {0}
      OBVIOUS
    <2> QED
      BY <2>2, <2>4, <2>5, <2>6
  <1>4. Nat \subseteq S
    <2> HIDE DEF S
    <2> QED
      BY <1>2, <1>3, SetInduction
  <1>5. b - a \in Nat /\ a + (b - a) = b /\ b <= HASHPOWER_MAX
    BY AssocAssumption
  <1>6. b - a \in S
    BY <1>4, <1>5
  <1> QED
    BY <1>5, <1>6

-----------------------------------------------------------------------------
(* "the bucket of hash table is the lowest N bits of the hv, and the       *)
(* bucket of item_locks is also the lowest M bits of hv, and N is greater  *)
(* than M" (assoc.c:222-225): a bucket has the lock of its keys.           *)
LEMMA LockOfBucket ==
  ASSUME NEW p \in Powers, NEW hv \in Nat
  PROVE  LockOf(hv % hashsize[p]) = LockOf(hv)
  <1>1. /\ item_lock_hashpower \in 0..HASHPOWER_MAX
        /\ p \in item_lock_hashpower..HASHPOWER_MAX
        /\ p \in 0..HASHPOWER_MAX
    BY AssocAssumption DEF Powers
  <1>2. PICK q \in Nat \ {0} : hashsize[p] = q * hashsize[item_lock_hashpower]
    BY <1>1, SizeDivides
  <1>3. hashsize[item_lock_hashpower] \in Nat \ {0}
    BY <1>1, HashSizes DEF SizesOf
  <1>4. PICK h \in Nat \ {0} : h = hashsize[item_lock_hashpower]
    BY <1>3
  <1>5. (hv % (q * h)) % h = hv % h
    BY ModMod, Zenon
  <1>6. hashsize[p] = q * h
    BY <1>2, <1>4, Zenon
  <1>7. (hv % hashsize[p]) % h = hv % h
    BY <1>5, <1>6, Zenon
  <1> QED
    BY <1>4, <1>7, Zenon DEF LockOf

(* Every hash has an item lock. *)
LEMMA LockIn ==
  ASSUME NEW hv \in Nat
  PROVE  LockOf(hv) \in Locks
  <1>1. item_lock_hashpower \in 0..HASHPOWER_MAX
    BY AssocAssumption
  <1>2. PICK h \in Nat \ {0} : h = hashsize[item_lock_hashpower]
    BY <1>1, HashSizes DEF SizesOf
  <1>3. hv % h \in 0..h - 1
    OBVIOUS
  <1> QED
    BY <1>2, <1>3 DEF LockOf, Locks

(* A power is a number, and its table has buckets. *)
LEMMA PowerSize ==
  ASSUME NEW p \in Powers
  PROVE  hashsize[p] \in Nat \ {0} /\ p \in Nat
  <1>1. p \in 0..HASHPOWER_MAX
    BY AssocAssumption DEF Powers
  <1> QED
    BY <1>1, HashSizes DEF SizesOf

(* The buckets of a table of a power are places. *)
LEMMA InPlaces ==
  ASSUME NEW p \in Powers, NEW b \in Nat, b < hashsize[p]
  PROVE  <<p, b>> \in Places
  <1>1. b \in 0..(hashsize[p] - 1)
    BY PowerSize
  <1>2. <<p, b>> \in {p} \X (0..(hashsize[p] - 1))
    BY <1>1
  <1> QED
    BY <1>2, Zenon DEF Places

(* The bucket of a hash in a table of a power is one of its places. *)
LEMMA HomeIn ==
  ASSUME NEW p \in Powers, NEW hv \in Nat
  PROVE  /\ Home(p, hv) \in Places
         /\ hv % hashsize[p] \in Nat
         /\ hv % hashsize[p] < hashsize[p]
  <1>1. PICK h \in Nat \ {0} : h = hashsize[p]
    BY PowerSize
  <1>2. hv % h \in Nat /\ hv % h < h
    OBVIOUS
  <1>3. hv % hashsize[p] \in Nat /\ hv % hashsize[p] < hashsize[p]
    BY <1>1, <1>2
  <1>4. <<p, hv % hashsize[p]>> \in Places
    BY <1>3, InPlaces
  <1> QED
    BY <1>3, <1>4, Zenon DEF Home

-----------------------------------------------------------------------------
PCs == {"idle", "hang"} \cup Working

TypeInv ==
  /\ tables \in [Places -> [Keys -> Nat]]
  /\ hashpower \in Powers /\ expanding \in BOOLEAN /\ expand_bucket \in Nat
  /\ hash_items \in Int
  /\ item_locks \in [Locks -> Threads \cup {NoOne, Maint}]
  /\ thread \in [Threads -> [pc : PCs, k : Keys, at : Places]]
  /\ pauses \subseteq Workers /\ init_count \in Nat /\ hang \in BOOLEAN
  /\ own \subseteq Background \cup {Maint} /\ present \subseteq Keys

(* A thread at work has the lock of its key, and the maintenance thread    *)
(* that of the bucket it moves.                                            *)
LockInv ==
  /\ \A t \in Threads : thread[t].pc \in Working => item_locks[LockOf(Hash[thread[t].k])] = t
  /\ maint = "move" => expanding /\ item_locks[LockOf(expand_bucket)] = Maint

(* What a thread has found is still true.                                  *)
OpInv ==
  \A t \in Threads :
    /\ thread[t].pc = "insert" => thread[t].k \notin present
    /\ thread[t].pc \in {"delete", "cut"} => thread[t].k \in present
    /\ thread[t].pc \in {"insert", "delete", "cut"} => thread[t].at = Bucket(Hash[thread[t].k])

(* There is an old table while the table is expanding, and no expansion    *)
(* starts before the last one is done.                                     *)
ExpandInv ==
  /\ expanding => hashpower - 1 \in Powers /\ expand_bucket < hashsize[hashpower - 1]
  /\ maint \in {"done", "wait", "signalled", "pause", "pausing", "expand"} => ~expanding

(* The maintenance thread has the locks of the background threads while it *)
(* pauses the workers, and init_count counts the workers that hang.        *)
PauseInv ==
  /\ \A t \in Background : thread[t].pc \in Working => t \in own
  /\ maint \in {"pause", "pausing", "expand", "resume"} => own = {Maint}
  /\ maint \in {"pausing", "expand"} =>
       /\ hang /\ init_count = Cardinality(Workers \ pauses)
       /\ \A w \in Workers \ pauses : thread[w].pc = "hang"
  /\ maint = "expand" => pauses = {}

AssocInv == TypeInv /\ EachKeyOnce /\ LockInv /\ OpInv /\ ExpandInv /\ PauseInv /\ CountExact

(* The threads between the chain and the counter. *)
Pending == {t \in Threads : thread[t].pc \in {"count", "cut"}}

(* The hash of a key, and its lock. *)
LEMMA KeyHash ==
  ASSUME NEW k \in Keys
  PROVE  Hash[k] \in Nat /\ LockOf(Hash[k]) \in Locks
  <1>1. Hash[k] \in Nat
    BY AssocAssumption
  <1> QED
    BY <1>1, LockIn

(* A lookup searches a bucket of one of the tables. *)
LEMMA BucketIn ==
  ASSUME TypeInv, ExpandInv, NEW hv \in Nat
  PROVE  Bucket(hv) \in Places
  <1>1. hashpower \in Powers /\ (expanding => hashpower - 1 \in Powers)
    BY DEF TypeInv, ExpandInv
  <1> QED
    BY <1>1, HomeIn, Zenon DEF Bucket

(* Where a lookup searches depends on these three only. *)
LEMMA BucketSame ==
  ASSUME UNCHANGED <<hashpower, expanding, expand_bucket>>, NEW hv
  PROVE  Bucket(hv)' = Bucket(hv)
  BY Zenon DEF Bucket

(* The fields of a thread record. *)
LEMMA ThreadType ==
  ASSUME TypeInv, NEW t \in Threads
  PROVE  /\ thread[t].pc \in PCs /\ thread[t].k \in Keys /\ thread[t].at \in Places
         /\ Hash[thread[t].k] \in Nat
         /\ LockOf(Hash[thread[t].k]) \in Locks
  <1>1. thread[t] \in [pc : PCs, k : Keys, at : Places]
    BY DEF TypeInv
  <1> QED
    BY <1>1, KeyHash

(* One thread goes on to another place. *)
LEMMA GoesFacts ==
  ASSUME TypeInv, NEW t \in Threads, NEW pc \in PCs, Goes(t, pc)
  PROVE  /\ thread' \in [Threads -> [pc : PCs, k : Keys, at : Places]]
         /\ thread'[t].pc = pc /\ thread'[t].k = thread[t].k /\ thread'[t].at = thread[t].at
         /\ \A s \in Threads : s # t => thread'[s] = thread[s]
  <1>1. thread \in [Threads -> [pc : PCs, k : Keys, at : Places]]
    BY DEF TypeInv
  <1>2. thread' = [thread EXCEPT ![t].pc = pc]
    BY DEF Goes
  <1> QED
    BY <1>1, <1>2

(* Two threads at work have different locks. *)
LEMMA OneWorker ==
  ASSUME TypeInv, LockInv, NEW s \in Threads, NEW t \in Threads, s # t,
         thread[s].pc \in Working, thread[t].pc \in Working
  PROVE  LockOf(Hash[thread[s].k]) # LockOf(Hash[thread[t].k]) /\ thread[s].k # thread[t].k
  BY DEF LockInv

(* The sets that are counted are finite. *)
LEMMA Finite ==
  ASSUME TypeInv
  PROVE  /\ IsFiniteSet(present) /\ IsFiniteSet(Pending) /\ IsFiniteSet(Workers)
         /\ Cardinality(present) \in Nat /\ Cardinality(Pending) \in Nat
  <1>1. present \subseteq Keys /\ Pending \subseteq Threads /\ Workers \subseteq Threads
    BY DEF TypeInv, Pending, Threads
  <1>2. IsFiniteSet(Keys) /\ IsFiniteSet(Threads)
    BY AssocAssumption
  <1>3. IsFiniteSet(present) /\ IsFiniteSet(Pending) /\ IsFiniteSet(Workers)
    BY <1>1, <1>2, FS_Subset
  <1> QED
    BY <1>3, FS_CardinalityType

(* The counter stays right when no thread comes between chain and counter. *)
LEMMA CountKept ==
  ASSUME CountExact, UNCHANGED <<hash_items, present>>, Pending' = Pending
  PROVE  CountExact'
  BY Zenon DEF CountExact, Pending

(* The start: the keys that are never touched are in the first table.      *)
LEMMA AssocStart == AInit => AssocInv
  <1> SUFFICES ASSUME AInit PROVE AssocInv
    OBVIOUS
  <1>1. InitialPower \in Powers
    BY AssocAssumption DEF Powers
  <1>2. PICK k0 \in Keys : k0 = CHOOSE k \in Keys : TRUE
    BY AssocAssumption
  <1>3. <<InitialPower, 0>> \in Places
    <2>1. hashsize[InitialPower] \in Nat \ {0}
      BY <1>1, PowerSize, Zenon
    <2> QED
      BY <1>1, <2>1, InPlaces
  <1>4. thread = [t \in Threads |-> Idle] /\ Idle \in [pc : PCs, k : Keys, at : Places]
        /\ Idle.pc = "idle"
    BY <1>2, <1>3 DEF AInit, Idle, PCs
  <1>5. \A t \in Threads : thread[t].pc = "idle"
    BY <1>4
  <1>6. Pending = {}
    BY <1>5 DEF Pending
  <1>7. IsFiniteSet(Keys \ Busy) /\ IsFiniteSet(Workers)
    BY AssocAssumption, FS_Subset DEF Threads
  <1>8. Cardinality(Keys \ Busy) \in Nat /\ Cardinality(Workers) \in Nat /\ Cardinality({}) = 0
    BY <1>7, FS_CardinalityType, FS_EmptySet
  <1>9. TypeInv
    <2>1. tables \in [Places -> [Keys -> Nat]]
      BY DEF AInit
    <2>2. item_locks \in [Locks -> Threads \cup {NoOne, Maint}]
      BY DEF AInit
    <2>3. thread \in [Threads -> [pc : PCs, k : Keys, at : Places]]
      BY <1>4
    <2>4. hashpower \in Powers /\ expanding \in BOOLEAN /\ hang \in BOOLEAN
      BY <1>1, Zenon DEF AInit
    <2>5. expand_bucket \in Nat /\ hash_items \in Int /\ init_count \in Nat
      BY <1>8 DEF AInit
    <2>6. pauses \subseteq Workers /\ own \subseteq Background \cup {Maint} /\ present \subseteq Keys
      BY DEF AInit
    <2> QED
      BY <2>1, <2>2, <2>3, <2>4, <2>5, <2>6, Zenon DEF TypeInv
  <1>10. EachKeyOnce
    <2>1. ASSUME NEW k \in Keys PROVE Bucket(Hash[k]) = Home(InitialPower, Hash[k])
      BY DEF AInit, Bucket
    <2>2. ASSUME NEW k \in Keys, NEW x \in Places
          PROVE  tables[x][k] = IF k \notin Busy /\ x = Home(InitialPower, Hash[k]) THEN 1 ELSE 0
      BY Zenon DEF AInit
    <2>3. ASSUME NEW k \in Keys PROVE k \in present <=> k \notin Busy
      BY DEF AInit
    <2> QED
      BY <2>1, <2>2, <2>3, Zenon DEF EachKeyOnce
  <1>11. LockInv /\ OpInv /\ ExpandInv /\ PauseInv
    <2>1. ~expanding /\ maint \notin {"move", "pause", "pausing", "expand", "resume"}
      BY DEF AInit
    <2>2. \A t \in Threads : thread[t].pc \notin Working
      BY <1>5 DEF Working
    <2>3. \A t \in Threads : thread[t].pc \notin {"insert", "delete", "cut"}
      BY <1>5
    <2> QED
      BY <2>1, <2>2, <2>3 DEF LockInv, OpInv, ExpandInv, PauseInv, Threads
  <1>12. CountExact
    <2>1. hash_items = Cardinality(present)
      BY DEF AInit
    <2>2. Cardinality(Pending) = 0 /\ Cardinality(present) \in Nat
      BY <1>6, <1>8 DEF AInit
    <2>3. hash_items = Cardinality(present) - Cardinality(Pending)
      BY <2>1, <2>2
    <2> QED
      BY <2>3, Zenon DEF CountExact, Pending
  <1> QED
    BY <1>9, <1>10, <1>11, <1>12, Zenon DEF AssocInv

-----------------------------------------------------------------------------
(* Steps that leave the tables and what is in them alone.                  *)
LEMMA TablesKept ==
  ASSUME EachKeyOnce, UNCHANGED <<tables, hashpower, expanding, expand_bucket, present>>
  PROVE  EachKeyOnce'
  <1>1. \A k \in Keys : Bucket(Hash[k])' = Bucket(Hash[k])
    BY BucketSame
  <1> QED
    BY <1>1, Zenon DEF EachKeyOnce

(* Steps of the maintenance thread that move nothing.                      *)
LEMMA ThreadsKept ==
  ASSUME OpInv, UNCHANGED <<hashpower, expanding, expand_bucket, present, thread>>
  PROVE  OpInv'
  <1>1. \A t \in Threads : Bucket(Hash[thread[t].k])' = Bucket(Hash[thread[t].k])
    <2>1. ASSUME NEW t \in Threads PROVE Bucket(Hash[thread[t].k])' = Bucket(Hash[thread[t].k])
      BY Zenon DEF Bucket
    <2> QED
      BY <2>1
  <1> QED
    BY <1>1, Zenon DEF OpInv

(* Threads that stay where they are leave the counter as much behind. *)
LEMMA PendingKept ==
  ASSUME UNCHANGED thread
  PROVE  Pending' = Pending
  BY DEF Pending

(* A background thread that takes or returns its own lock (thread.c:118-146). *)
LEMMA WakeUpStep ==
  ASSUME AssocInv, NEW t \in Background, WakeUp(t) \/ GoToSleep(t)
  PROVE  AssocInv'
  <1>1. UNCHANGED <<tables, hashpower, expanding, expand_bucket, hash_items, item_locks, thread, maint,
                    hang, pauses, init_count, present>>
    BY DEF WakeUp, GoToSleep, table
  <1>2. own' \subseteq Background \cup {Maint}
    BY DEF WakeUp, GoToSleep, AssocInv, TypeInv
  <1>3. TypeInv'
    BY <1>1, <1>2 DEF AssocInv, TypeInv
  <1>4. EachKeyOnce'
    BY <1>1, TablesKept, Zenon DEF AssocInv
  <1>5. LockInv' /\ ExpandInv'
    BY <1>1 DEF AssocInv, LockInv, ExpandInv
  <1>6. OpInv'
    BY <1>1, ThreadsKept, Zenon DEF AssocInv
  <1>7. PauseInv'
    <2>1. t # Maint /\ t \in Threads
      BY AssocAssumption, Zenon DEF Threads
    <2>2. maint \notin {"pause", "pausing", "expand", "resume"}
      BY <2>1, Zenon DEF AssocInv, PauseInv, WakeUp, GoToSleep
    <2>3. \A s \in Background : thread[s].pc \in Working => s \in own'
      BY DEF AssocInv, PauseInv, WakeUp, GoToSleep, Working
    <2> QED
      BY <1>1, <2>2, <2>3, Zenon DEF PauseInv
  <1>8. CountExact'
    BY <1>1, PendingKept, CountKept DEF AssocInv
  <1> QED
    BY <1>3, <1>4, <1>5, <1>6, <1>7, <1>8, Zenon DEF AssocInv

(* A thread that takes the lock of a key: no other thread has it. *)
LEMMA item_lockStep ==
  ASSUME AssocInv, NEW t \in Threads, NEW k \in Keys, item_lock(t, k)
  PROVE  AssocInv'
  <1>1. /\ UNCHANGED <<tables, hashpower, expanding, expand_bucket, hash_items, maint, hang, pauses,
                       init_count, own, present>>
        /\ thread[t].pc = "idle" /\ (t \in Workers \/ t \in own)
        /\ item_locks[LockOf(Hash[k])] = NoOne
        /\ item_locks' = [item_locks EXCEPT ![LockOf(Hash[k])] = t]
    BY DEF item_lock, table, pausing
  <1>2. LockOf(Hash[k]) \in Locks /\ NoOne # Maint /\ NoOne \notin Threads /\ Maint \notin Threads
    BY KeyHash, AssocAssumption, Zenon DEF NoOne, Maint
  <1>3. /\ thread' \in [Threads -> [pc : PCs, k : Keys, at : Places]]
        /\ thread'[t].pc = "locked" /\ thread'[t].k = k
        /\ \A s \in Threads : s # t => thread'[s] = thread[s]
    <2>1. thread \in [Threads -> [pc : PCs, k : Keys, at : Places]]
      BY DEF AssocInv, TypeInv
    <2>2. thread' = [thread EXCEPT ![t] = [thread[t] EXCEPT !.pc = "locked", !.k = k]]
      BY DEF item_lock
    <2>3. thread[t] \in [pc : PCs, k : Keys, at : Places] /\ "locked" \in PCs
      BY <2>1 DEF PCs, Working
    <2>4. [thread[t] EXCEPT !.pc = "locked", !.k = k] \in [pc : PCs, k : Keys, at : Places]
      BY <2>3, Zenon
    <2>5. /\ [thread[t] EXCEPT !.pc = "locked", !.k = k].pc = "locked"
          /\ [thread[t] EXCEPT !.pc = "locked", !.k = k].k = k
      BY <2>3
    <2> QED
      BY <2>1, <2>2, <2>4, <2>5, Zenon
  <1>4. item_locks \in [Locks -> Threads \cup {NoOne, Maint}]
    BY Zenon DEF AssocInv, TypeInv
  <1>5. /\ item_locks' \in [Locks -> Threads \cup {NoOne, Maint}]
        /\ item_locks'[LockOf(Hash[k])] = t
        /\ \A l \in Locks : l # LockOf(Hash[k]) => item_locks'[l] = item_locks[l]
    BY <1>1, <1>2, <1>4, Zenon
  <1>6. TypeInv'
    BY <1>1, <1>3, <1>5, Zenon DEF AssocInv, TypeInv
  <1>7. EachKeyOnce'
    BY <1>1, TablesKept, Zenon DEF AssocInv
  <1>8. LockInv'
    <2>1. ASSUME NEW s \in Threads, thread'[s].pc \in Working
          PROVE  item_locks'[LockOf(Hash[thread'[s].k])] = s
      <3>1. CASE s = t
        BY <1>3, <1>5, <3>1, Zenon
      <3>2. CASE s # t
        <4>1. thread'[s] = thread[s] /\ LockOf(Hash[thread[s].k]) \in Locks
          BY <1>3, <3>2, ThreadType, Zenon DEF AssocInv
        <4>2. item_locks[LockOf(Hash[thread[s].k])] = s
          BY <2>1, <4>1, Zenon DEF AssocInv, LockInv
        <4>3. LockOf(Hash[thread[s].k]) # LockOf(Hash[k])
          BY <1>1, <1>2, <4>2, Zenon
        <4> QED
          BY <1>5, <4>1, <4>2, <4>3, Zenon
      <3> QED
        BY <3>1, <3>2, Zenon
    <2>2. maint = "move" => item_locks'[LockOf(expand_bucket)] = Maint
      <3>1. LockOf(expand_bucket) \in Locks
        BY LockIn, Zenon DEF AssocInv, TypeInv
      <3> QED
        BY <1>1, <1>2, <1>5, <3>1, Zenon DEF AssocInv, LockInv
    <2> QED
      BY <1>1, <2>1, <2>2, Zenon DEF AssocInv, LockInv
  <1>9. OpInv'
    <2>1. ASSUME NEW s \in Threads
          PROVE  /\ thread'[s].pc = "insert" => thread'[s].k \notin present
                 /\ thread'[s].pc \in {"delete", "cut"} => thread'[s].k \in present
                 /\ thread'[s].pc \in {"insert", "delete", "cut"} =>
                      thread'[s].at = Bucket(Hash[thread'[s].k])
      BY <1>3, Zenon DEF AssocInv, OpInv
    <2>2. \A hv : Bucket(hv)' = Bucket(hv)
      BY <1>1, BucketSame, Zenon
    <2> QED
      BY <1>1, <2>1, <2>2, Zenon DEF OpInv
  <1>10. ExpandInv'
    BY <1>1, Zenon DEF AssocInv, ExpandInv
  <1>11. PauseInv'
    <2>1. \A s \in Background : thread'[s].pc \in Working => s \in own
      BY <1>1, <1>3, AssocAssumption, Zenon DEF AssocInv, PauseInv, Threads
    <2>2. \A w \in Workers : thread[w].pc = "hang" => thread'[w].pc = "hang"
      BY <1>1, <1>3, Zenon DEF Threads
    <2> QED
      BY <1>1, <2>1, <2>2, Zenon DEF AssocInv, PauseInv
  <1>12. CountExact'
    <2>1. Pending' = Pending
      BY <1>1, <1>3, Zenon DEF Pending
    <2> QED
      BY <1>1, <2>1, CountKept, Zenon DEF AssocInv
  <1> QED
    BY <1>6, <1>7, <1>8, <1>9, <1>10, <1>11, <1>12, Zenon DEF AssocInv

-----------------------------------------------------------------------------
(* One thread at work goes on with its key, and the others stay.           *)
WorksOn(t) ==
  /\ thread[t].pc \in Working
  /\ thread' \in [Threads -> [pc : PCs, k : Keys, at : Places]]
  /\ thread'[t].k = thread[t].k
  /\ \A s \in Threads : s # t => thread'[s] = thread[s]

(* The signal to the maintenance thread that waits.                        *)
MaintStays == maint' = maint \/ (maint = "wait" /\ maint' = "signalled")

(* A step under an item lock leaves the locks as they are. *)
LEMMA WorkLocks ==
  ASSUME AssocInv, NEW t \in Threads, WorksOn(t), MaintStays,
         UNCHANGED <<item_locks, expanding, expand_bucket>>
  PROVE  LockInv'
  <1>1. ASSUME NEW s \in Threads, thread'[s].pc \in Working
        PROVE  item_locks[LockOf(Hash[thread'[s].k])] = s
    <2>1. thread'[s].k = thread[s].k /\ thread[s].pc \in Working
      BY <1>1 DEF WorksOn
    <2> QED
      BY <2>1, Zenon DEF AssocInv, LockInv
  <1>2. maint' = "move" => maint = "move"
    BY Zenon DEF MaintStays
  <1> QED
    BY <1>1, <1>2, Zenon DEF AssocInv, LockInv

(* A thread that works is none of those the maintenance thread waits for. *)
LEMMA WorkPauses ==
  ASSUME AssocInv, NEW t \in Threads, WorksOn(t), MaintStays,
         UNCHANGED <<hang, pauses, init_count, own>>
  PROVE  PauseInv'
  <1>1. \A s \in Background : thread'[s].pc \in Working => s \in own
    BY DEF WorksOn, AssocInv, PauseInv, Threads
  <1>2. \A w \in Workers : thread[w].pc = "hang" => thread'[w].pc = "hang"
    BY DEF WorksOn, Threads, Working
  <1>3. \A m \in {"pause", "pausing", "expand", "resume"} : maint' = m => maint = m
    BY DEF MaintStays
  <1> QED
    BY <1>1, <1>2, <1>3, Zenon DEF AssocInv, PauseInv

(* A step of a thread does not change the state of the expansion. *)
LEMMA WorkExpands ==
  ASSUME AssocInv, MaintStays, UNCHANGED <<hashpower, expanding, expand_bucket>>
  PROVE  ExpandInv'
  BY Zenon DEF AssocInv, ExpandInv, MaintStays

(* A step of one thread does not change what the others have found.        *)
LEMMA WorkFinds ==
  ASSUME AssocInv, NEW t \in Threads, WorksOn(t), UNCHANGED <<hashpower, expanding, expand_bucket>>,
         \A s \in Threads : s # t /\ thread[s].pc \in Working =>
           (thread[s].k \in present <=> thread[s].k \in present'),
         thread'[t].pc = "insert" => thread[t].k \notin present',
         thread'[t].pc \in {"delete", "cut"} => thread[t].k \in present',
         thread'[t].pc \in {"insert", "delete", "cut"} => thread'[t].at = Bucket(Hash[thread[t].k])
  PROVE  OpInv'
  <1>1. \A hv : Bucket(hv)' = Bucket(hv)
    BY BucketSame, Zenon
  <1>2. ASSUME NEW s \in Threads
        PROVE  /\ thread'[s].pc = "insert" => thread'[s].k \notin present'
               /\ thread'[s].pc \in {"delete", "cut"} => thread'[s].k \in present'
               /\ thread'[s].pc \in {"insert", "delete", "cut"} =>
                    thread'[s].at = Bucket(Hash[thread'[s].k])
    <2>1. CASE s = t
      BY <2>1, Zenon DEF WorksOn
    <2>2. CASE s # t
      <3>1. thread'[s] = thread[s]
        BY <2>2, Zenon DEF WorksOn
      <3>2. /\ thread[s].pc = "insert" => thread[s].k \notin present
            /\ thread[s].pc \in {"delete", "cut"} => thread[s].k \in present
            /\ thread[s].pc \in {"insert", "delete", "cut"} =>
                    thread[s].at = Bucket(Hash[thread[s].k])
        BY Zenon DEF AssocInv, OpInv
      <3>3. thread[s].pc \in {"insert", "delete", "cut"} =>
              (thread[s].k \in present <=> thread[s].k \in present')
        BY <2>2 DEF Working
      <3> QED
        BY <3>1, <3>2, <3>3, Zenon
    <2> QED
      BY <2>1, <2>2, Zenon
  <1> QED
    BY <1>1, <1>2, Zenon DEF OpInv

(* What a thread finds under the lock of the key is true (assoc.c:79-112). *)
LEMMA assoc_findStep ==
  ASSUME AssocInv, NEW t \in Threads, assoc_find(t)
  PROVE  AssocInv'
  <1> DEFINE k == thread[t].k
             pc == IF Found(Hash[k], k) THEN "delete"
                   ELSE IF t \in Workers THEN "insert" ELSE "unlock"
  <1>1. /\ UNCHANGED <<tables, hashpower, expanding, expand_bucket, hash_items, item_locks, maint, hang,
                       pauses, init_count, own, present>>
        /\ thread[t].pc = "locked"
    BY DEF assoc_find, table, pausing
  <1>2. k \in Keys /\ Hash[k] \in Nat /\ Bucket(Hash[k]) \in Places
    BY ThreadType, BucketIn DEF AssocInv
  <1>3. pc \in PCs /\ pc \in {"delete", "insert", "unlock"}
    BY DEF PCs, Working
  <1>4. thread' = [thread EXCEPT ![t] = [thread[t] EXCEPT !.pc = pc, !.at = Bucket(Hash[k])]]
    BY Zenon DEF assoc_find
  <1>5. /\ thread' \in [Threads -> [pc : PCs, k : Keys, at : Places]]
        /\ thread'[t].pc = pc /\ thread'[t].k = k /\ thread'[t].at = Bucket(Hash[k])
        /\ \A s \in Threads : s # t => thread'[s] = thread[s]
    <2>1. thread \in [Threads -> [pc : PCs, k : Keys, at : Places]]
      BY DEF AssocInv, TypeInv
    <2>2. thread[t] \in [pc : PCs, k : Keys, at : Places]
      BY <2>1
    <2> HIDE DEF pc, k
    <2> DEFINE new == [thread[t] EXCEPT !.pc = pc, !.at = Bucket(Hash[k])]
    <2>3. /\ new \in [pc : PCs, k : Keys, at : Places]
          /\ new.pc = pc /\ new.k = thread[t].k /\ new.at = Bucket(Hash[k])
      BY <1>2, <1>3, <2>2, Zenon
    <2>4. thread' = [thread EXCEPT ![t] = new]
      BY <1>4
    <2> HIDE DEF new
    <2>5. thread'[t] = new /\ \A s \in Threads : s # t => thread'[s] = thread[s]
      BY <2>1, <2>4, Zenon
    <2>6. thread' \in [Threads -> [pc : PCs, k : Keys, at : Places]]
      BY <2>1, <2>3, <2>4, Zenon
    <2> QED
      BY <2>3, <2>5, <2>6, Zenon DEF k
  <1>6. Found(Hash[k], k) <=> k \in present
    BY <1>2 DEF AssocInv, EachKeyOnce, Found
  <1>7. WorksOn(t) /\ MaintStays
    BY <1>1, <1>5, Zenon DEF WorksOn, MaintStays, Working
  <1>8. TypeInv'
    BY <1>1, <1>5, Zenon DEF AssocInv, TypeInv
  <1>9. EachKeyOnce'
    BY <1>1, TablesKept, Zenon DEF AssocInv
  <1>10. LockInv'
    BY <1>1, <1>7, WorkLocks, Zenon
  <1>11. PauseInv'
    BY <1>1, <1>7, WorkPauses, Zenon
  <1>12. ExpandInv'
    BY <1>1, <1>7, WorkExpands, Zenon
  <1>13. OpInv'
    <2>1. /\ thread'[t].pc = "insert" => k \notin present
          /\ thread'[t].pc \in {"delete", "cut"} => k \in present
      BY <1>5, <1>6, Zenon
    <2> QED
      BY <1>1, <1>5, <1>7, <2>1, WorkFinds, Zenon
  <1>14. CountExact'
    <2>1. Pending' = Pending
      BY <1>1, <1>3, <1>5 DEF Pending
    <2> QED
      BY <1>1, <2>1, CountKept, Zenon DEF AssocInv
  <1> QED
    BY <1>8, <1>9, <1>10, <1>11, <1>12, <1>13, <1>14, Zenon DEF AssocInv

(* The key goes once into the bucket that was found, which is still its bucket. *)
LEMMA assoc_insertStep ==
  ASSUME AssocInv, NEW t \in Threads, assoc_insert(t)
  PROVE  AssocInv'
  <1> DEFINE k == thread[t].k
             at == thread[t].at
  <1>1. /\ UNCHANGED <<hashpower, expanding, expand_bucket, hash_items, item_locks, maint, hang,
                       pauses, init_count, own>>
        /\ thread[t].pc = "insert" /\ Goes(t, "count")
        /\ tables' = [tables EXCEPT ![at][k] = @ + 1]
        /\ present' = present \cup {k}
    BY Zenon DEF assoc_insert, pausing
  <1>2. k \in Keys /\ at \in Places /\ at = Bucket(Hash[k]) /\ k \notin present
    BY <1>1, ThreadType, Zenon DEF AssocInv, OpInv
  <1>3. /\ thread' \in [Threads -> [pc : PCs, k : Keys, at : Places]]
        /\ thread'[t].pc = "count" /\ thread'[t].k = thread[t].k
        /\ \A s \in Threads : s # t => thread'[s] = thread[s]
    <2>1. "count" \in PCs
      BY DEF PCs, Working
    <2> QED
      BY <1>1, <2>1, GoesFacts, Zenon DEF AssocInv
  <1> HIDE DEF k, at
  <1>4. tables \in [Places -> [Keys -> Nat]]
    BY Zenon DEF AssocInv, TypeInv
  <1>5. /\ tables' \in [Places -> [Keys -> Nat]]
        /\ \A j \in Keys, x \in Places :
             tables'[x][j] = IF x = at /\ j = k THEN tables[x][j] + 1 ELSE tables[x][j]
    BY <1>1, <1>2, <1>4
  <1>6. WorksOn(t) /\ MaintStays
    BY <1>1, <1>3, Zenon DEF WorksOn, MaintStays, Working
  <1>7. TypeInv'
    BY <1>1, <1>2, <1>3, <1>5, Zenon DEF AssocInv, TypeInv
  <1>8. EachKeyOnce'
    <2>1. \A j \in Keys : Bucket(Hash[j])' = Bucket(Hash[j])
      BY <1>1, BucketSame, Zenon
    <2>2. ASSUME NEW j \in Keys, NEW x \in Places
          PROVE  tables'[x][j] = IF j \in present' /\ x = Bucket(Hash[j]) THEN 1 ELSE 0
      <3>1. tables[x][j] = IF j \in present /\ x = Bucket(Hash[j]) THEN 1 ELSE 0
        BY Zenon DEF AssocInv, EachKeyOnce
      <3>2. j \in present' <=> j \in present \/ j = k
        BY <1>1, Zenon
      <3> QED
        BY <1>2, <1>5, <3>1, <3>2
    <2> QED
      BY <2>1, <2>2, Zenon DEF EachKeyOnce
  <1>9. LockInv'
    BY <1>1, <1>6, WorkLocks, Zenon
  <1>10. PauseInv'
    BY <1>1, <1>6, WorkPauses, Zenon
  <1>11. ExpandInv'
    BY <1>1, <1>6, WorkExpands, Zenon
  <1>12. OpInv'
    <2>1. ASSUME NEW s \in Threads, s # t, thread[s].pc \in Working
          PROVE  thread[s].k \in present <=> thread[s].k \in present'
      <3>1. thread[s].k # k
        BY <1>6, <2>1, OneWorker DEF AssocInv, WorksOn, k
      <3> QED
        BY <1>1, <3>1, Zenon
    <2> QED
      BY <1>1, <1>3, <1>6, <2>1, WorkFinds, Zenon
  <1>13. CountExact'
    <2>1. Pending' = Pending \cup {t} /\ t \notin Pending
      BY <1>1, <1>3 DEF Pending
    <2>2. Cardinality(Pending') = Cardinality(Pending) + 1
      BY <2>1, Finite, FS_AddElement, Zenon DEF AssocInv
    <2>3. Cardinality(present') = Cardinality(present) + 1
      BY <1>1, <1>2, Finite, FS_AddElement, Zenon DEF AssocInv
    <2>4. hash_items = Cardinality(present) - Cardinality(Pending)
      BY Zenon DEF AssocInv, CountExact, Pending
    <2>5. hash_items' = Cardinality(present') - Cardinality(Pending')
      BY <1>1, <2>2, <2>3, <2>4, Finite DEF AssocInv
    <2> QED
      BY <2>5, Zenon DEF CountExact, Pending
  <1> QED
    BY <1>7, <1>8, <1>9, <1>10, <1>11, <1>12, <1>13, Zenon DEF AssocInv

(* The key leaves the one bucket it is in. *)
LEMMA assoc_deleteStep ==
  ASSUME AssocInv, NEW t \in Threads, assoc_delete(t)
  PROVE  AssocInv'
  <1> DEFINE k == thread[t].k
             at == thread[t].at
  <1>1. /\ UNCHANGED <<hashpower, expanding, expand_bucket, hash_items, item_locks, maint, hang,
                       pauses, init_count, own>>
        /\ thread[t].pc = "cut" /\ Goes(t, "unlock")
        /\ tables' = [tables EXCEPT ![at][k] = @ - 1]
        /\ present' = present \ {k}
    BY Zenon DEF assoc_delete, pausing
  <1>2. k \in Keys /\ at \in Places /\ at = Bucket(Hash[k]) /\ k \in present
    BY <1>1, ThreadType, Zenon DEF AssocInv, OpInv
  <1>3. /\ thread' \in [Threads -> [pc : PCs, k : Keys, at : Places]]
        /\ thread'[t].pc = "unlock" /\ thread'[t].k = thread[t].k
        /\ \A s \in Threads : s # t => thread'[s] = thread[s]
    <2>1. "unlock" \in PCs
      BY Zenon DEF PCs, Working
    <2> QED
      BY <1>1, <2>1, GoesFacts, Zenon DEF AssocInv
  <1> HIDE DEF k, at
  <1>4. tables \in [Places -> [Keys -> Nat]] /\ tables[at][k] = 1
    BY <1>2, Zenon DEF AssocInv, TypeInv, EachKeyOnce
  <1>5. /\ tables' \in [Places -> [Keys -> Nat]]
        /\ \A j \in Keys, x \in Places :
             tables'[x][j] = IF x = at /\ j = k THEN tables[x][j] - 1 ELSE tables[x][j]
    BY <1>1, <1>2, <1>4
  <1>6. WorksOn(t) /\ MaintStays
    BY <1>1, <1>3, Zenon DEF WorksOn, MaintStays, Working
  <1>7. TypeInv'
    BY <1>1, <1>2, <1>3, <1>5, Zenon DEF AssocInv, TypeInv
  <1>8. EachKeyOnce'
    <2>1. \A j \in Keys : Bucket(Hash[j])' = Bucket(Hash[j])
      BY <1>1, BucketSame, Zenon
    <2>2. ASSUME NEW j \in Keys, NEW x \in Places
          PROVE  tables'[x][j] = IF j \in present' /\ x = Bucket(Hash[j]) THEN 1 ELSE 0
      <3>1. tables[x][j] = IF j \in present /\ x = Bucket(Hash[j]) THEN 1 ELSE 0
        BY DEF AssocInv, EachKeyOnce
      <3>2. j \in present' <=> j \in present /\ j # k
        BY <1>1, Zenon
      <3> QED
        BY <1>2, <1>5, <3>1, <3>2
    <2> QED
      BY <2>1, <2>2, Zenon DEF EachKeyOnce
  <1>9. LockInv'
    BY <1>1, <1>6, WorkLocks, Zenon
  <1>10. PauseInv'
    BY <1>1, <1>6, WorkPauses, Zenon
  <1>11. ExpandInv'
    BY <1>1, <1>6, WorkExpands, Zenon
  <1>12. OpInv'
    <2>1. ASSUME NEW s \in Threads, s # t, thread[s].pc \in Working
          PROVE  thread[s].k \in present <=> thread[s].k \in present'
      <3>1. thread[s].k # k
        BY <1>6, <2>1, OneWorker, Zenon DEF AssocInv, WorksOn, k
      <3> QED
        BY <1>1, <3>1, Zenon
    <2> QED
      BY <1>1, <1>3, <1>6, <2>1, WorkFinds, Zenon
  <1>13. CountExact'
    <2>1. Pending' = Pending \ {t} /\ t \in Pending
      BY <1>1, <1>3 DEF Pending
    <2>2. Cardinality(Pending') = Cardinality(Pending) - 1
      BY <2>1, Finite, FS_RemoveElement, Zenon DEF AssocInv
    <2>3. Cardinality(present') = Cardinality(present) - 1
      BY <1>1, <1>2, Finite, FS_RemoveElement, Zenon DEF AssocInv
    <2>4. hash_items = Cardinality(present) - Cardinality(Pending)
      BY Zenon DEF AssocInv, CountExact, Pending
    <2>5. hash_items' = Cardinality(present') - Cardinality(Pending')
      BY <1>1, <2>2, <2>3, <2>4, Finite DEF AssocInv
    <2> QED
      BY <2>5, Zenon DEF CountExact, Pending
  <1> QED
    BY <1>7, <1>8, <1>9, <1>10, <1>11, <1>12, <1>13, Zenon DEF AssocInv

(* hash_items catches up with the insertion; the maintenance thread may be woken. *)
LEMMA CountUpStep ==
  ASSUME AssocInv, NEW t \in Threads, CountUp(t)
  PROVE  AssocInv'
  <1>1. /\ UNCHANGED <<tables, hashpower, expanding, expand_bucket, item_locks, hang,
                       pauses, init_count, own, present>>
        /\ thread[t].pc = "count" /\ Goes(t, "unlock")
        /\ hash_items' = hash_items + 1
    BY Zenon DEF CountUp, table, pausing
  <1>2. /\ thread' \in [Threads -> [pc : PCs, k : Keys, at : Places]]
        /\ thread'[t].pc = "unlock" /\ thread'[t].k = thread[t].k /\ thread'[t].at = thread[t].at
        /\ \A s \in Threads : s # t => thread'[s] = thread[s]
    <2>1. "unlock" \in PCs
      BY Zenon DEF PCs, Working
    <2> QED
      BY <1>1, <2>1, GoesFacts DEF AssocInv
  <1>3. MaintStays
    BY Zenon DEF CountUp, MaintStays
  <1>4. WorksOn(t)
    BY <1>1, <1>2, Zenon DEF WorksOn, Working
  <1>5. TypeInv'
    <2>1. hash_items' \in Int
      BY <1>1 DEF AssocInv, TypeInv
    <2> QED
      BY <1>1, <1>2, <2>1, Zenon DEF AssocInv, TypeInv
  <1>6. EachKeyOnce'
    BY <1>1, TablesKept, Zenon DEF AssocInv
  <1>7. LockInv'
    BY <1>1, <1>3, <1>4, WorkLocks, Zenon
  <1>8. PauseInv'
    BY <1>1, <1>3, <1>4, WorkPauses, Zenon
  <1>9. ExpandInv'
    BY <1>1, <1>3, WorkExpands, Zenon
  <1>10. OpInv'
    <2>1. thread'[t].pc \in {"delete", "cut"} =>
            thread[t].k \in present /\ thread'[t].at = Bucket(Hash[thread[t].k])
      BY <1>1, <1>2 DEF AssocInv, OpInv
    <2> QED
      BY <1>1, <1>2, <1>4, <2>1, WorkFinds, Zenon
  <1>11. CountExact'
    <2>1. Pending' = Pending \ {t} /\ t \in Pending
      BY <1>1, <1>2 DEF Pending
    <2>2. Cardinality(Pending') = Cardinality(Pending) - 1
      BY <2>1, Finite, FS_RemoveElement, Zenon DEF AssocInv
    <2>3. hash_items = Cardinality(present) - Cardinality(Pending)
      BY Zenon DEF AssocInv, CountExact, Pending
    <2>4. hash_items' = Cardinality(present) - Cardinality(Pending')
      BY <1>1, <2>2, <2>3, Finite DEF AssocInv
    <2> QED
      BY <1>1, <2>4, Zenon DEF CountExact, Pending
  <1> QED
    BY <1>5, <1>6, <1>7, <1>8, <1>9, <1>10, <1>11, Zenon DEF AssocInv

(* hash_items goes down before the key is taken out of its chain. *)
LEMMA CountDownStep ==
  ASSUME AssocInv, NEW t \in Threads, CountDown(t)
  PROVE  AssocInv'
  <1>1. /\ UNCHANGED <<tables, hashpower, expanding, expand_bucket, item_locks, hang,
                       pauses, init_count, own, present>>
        /\ thread[t].pc = "delete" /\ Goes(t, "cut")
        /\ hash_items' = hash_items - 1
    BY Zenon DEF CountDown, table, pausing
  <1>2. /\ thread' \in [Threads -> [pc : PCs, k : Keys, at : Places]]
        /\ thread'[t].pc = "cut" /\ thread'[t].k = thread[t].k /\ thread'[t].at = thread[t].at
        /\ \A s \in Threads : s # t => thread'[s] = thread[s]
    <2>1. "cut" \in PCs
      BY DEF PCs, Working
    <2> QED
      BY <1>1, <2>1, GoesFacts, Zenon DEF AssocInv
  <1>3. MaintStays
    BY Zenon DEF CountDown, MaintStays
  <1>4. WorksOn(t)
    BY <1>1, <1>2, Zenon DEF WorksOn, Working
  <1>5. TypeInv'
    <2>1. hash_items' \in Int
      BY <1>1 DEF AssocInv, TypeInv
    <2> QED
      BY <1>1, <1>2, <2>1, Zenon DEF AssocInv, TypeInv
  <1>6. EachKeyOnce'
    BY <1>1, TablesKept, Zenon DEF AssocInv
  <1>7. LockInv'
    BY <1>1, <1>3, <1>4, WorkLocks, Zenon
  <1>8. PauseInv'
    BY <1>1, <1>3, <1>4, WorkPauses, Zenon
  <1>9. ExpandInv'
    BY <1>1, <1>3, WorkExpands, Zenon
  <1>10. OpInv'
    <2>1. thread'[t].pc \in {"delete", "cut"} =>
            thread[t].k \in present /\ thread'[t].at = Bucket(Hash[thread[t].k])
      BY <1>1, <1>2 DEF AssocInv, OpInv
    <2> QED
      BY <1>1, <1>2, <1>4, <2>1, WorkFinds, Zenon
  <1>11. CountExact'
    <2>1. Pending' = Pending \cup {t} /\ t \notin Pending
      BY <1>1, <1>2 DEF Pending
    <2>2. Cardinality(Pending') = Cardinality(Pending) + 1
      BY <2>1, Finite, FS_AddElement, Zenon DEF AssocInv
    <2>3. hash_items = Cardinality(present) - Cardinality(Pending)
      BY Zenon DEF AssocInv, CountExact, Pending
    <2>4. hash_items' = Cardinality(present) - Cardinality(Pending')
      BY <1>1, <2>2, <2>3, Finite DEF AssocInv
    <2> QED
      BY <1>1, <2>4, Zenon DEF CountExact, Pending
  <1> QED
    BY <1>5, <1>6, <1>7, <1>8, <1>9, <1>10, <1>11, Zenon DEF AssocInv

(* A thread returns the lock of its key. *)
LEMMA item_unlockStep ==
  ASSUME AssocInv, NEW t \in Threads, item_unlock(t)
  PROVE  AssocInv'
  <1> DEFINE l == LockOf(Hash[thread[t].k])
  <1>1. /\ UNCHANGED <<tables, hashpower, expanding, expand_bucket, hash_items, maint, hang,
                       pauses, init_count, own, present>>
        /\ thread[t].pc = "unlock" /\ thread' = [thread EXCEPT ![t] = Idle]
        /\ item_locks' = [item_locks EXCEPT ![l] = NoOne]
    BY Zenon DEF item_unlock, table, pausing
  <1>2. l \in Locks /\ item_locks[l] = t
    BY <1>1, ThreadType, Zenon DEF AssocInv, LockInv, Working
  <1>3. Idle \in [pc : PCs, k : Keys, at : Places] /\ Idle.pc = "idle"
    <2>1. PICK k0 \in Keys : k0 = CHOOSE k \in Keys : TRUE
      BY AssocAssumption
    <2>2. InitialPower \in Powers
      BY AssocAssumption DEF Powers
    <2>3. <<InitialPower, 0>> \in Places
      BY <2>2, PowerSize, InPlaces
    <2> QED
      BY <2>1, <2>3, Zenon DEF Idle, PCs
  <1>4. thread \in [Threads -> [pc : PCs, k : Keys, at : Places]]
    BY Zenon DEF AssocInv, TypeInv
  <1>5. /\ thread' \in [Threads -> [pc : PCs, k : Keys, at : Places]]
        /\ thread'[t].pc = "idle"
        /\ \A s \in Threads : s # t => thread'[s] = thread[s]
    <2> HIDE DEF Idle
    <2> QED
      BY <1>1, <1>3, <1>4, Zenon
  <1>6. item_locks \in [Locks -> Threads \cup {NoOne, Maint}]
    BY Zenon DEF AssocInv, TypeInv
  <1> HIDE DEF l
  <1>7. /\ item_locks' \in [Locks -> Threads \cup {NoOne, Maint}]
        /\ \A m \in Locks : m # l => item_locks'[m] = item_locks[m]
    BY <1>1, <1>2, <1>6, Zenon
  <1>8. TypeInv'
    BY <1>1, <1>5, <1>7, Zenon DEF AssocInv, TypeInv
  <1>9. EachKeyOnce'
    BY <1>1, TablesKept, Zenon DEF AssocInv
  <1>10. LockInv'
    <2>1. ASSUME NEW s \in Threads, thread'[s].pc \in Working
          PROVE  item_locks'[LockOf(Hash[thread'[s].k])] = s
      <3>1. s # t
        BY <1>5, <2>1, Zenon DEF Working
      <3>2. thread'[s] = thread[s] /\ LockOf(Hash[thread[s].k]) \in Locks
        BY <1>5, <3>1, ThreadType, Zenon DEF AssocInv
      <3>3. item_locks[LockOf(Hash[thread[s].k])] = s
        BY <2>1, <3>2, Zenon DEF AssocInv, LockInv
      <3>4. LockOf(Hash[thread[s].k]) # l
        BY <1>2, <3>1, <3>3, Zenon
      <3> QED
        BY <1>7, <3>2, <3>3, <3>4, Zenon
    <2>2. maint = "move" => item_locks'[LockOf(expand_bucket)] = Maint
      <3>1. LockOf(expand_bucket) \in Locks /\ t # Maint
        BY LockIn, AssocAssumption, Zenon DEF AssocInv, TypeInv
      <3> QED
        BY <1>2, <1>7, <3>1, Zenon DEF AssocInv, LockInv
    <2> QED
      BY <1>1, <2>1, <2>2, Zenon DEF AssocInv, LockInv
  <1>11. OpInv'
    <2>1. ASSUME NEW s \in Threads
          PROVE  /\ thread'[s].pc = "insert" => thread'[s].k \notin present
                 /\ thread'[s].pc \in {"delete", "cut"} => thread'[s].k \in present
                 /\ thread'[s].pc \in {"insert", "delete", "cut"} =>
                      thread'[s].at = Bucket(Hash[thread'[s].k])
      BY <1>5, Zenon DEF AssocInv, OpInv
    <2>2. \A hv : Bucket(hv)' = Bucket(hv)
      BY <1>1, BucketSame, Zenon
    <2> QED
      BY <1>1, <2>1, <2>2, Zenon DEF OpInv
  <1>12. ExpandInv'
    BY <1>1, Zenon DEF AssocInv, ExpandInv
  <1>13. PauseInv'
    <2>1. \A s \in Background : thread'[s].pc \in Working => s \in own
      BY <1>1, <1>5, Zenon DEF AssocInv, PauseInv, Threads, Working
    <2>2. \A w \in Workers : thread[w].pc = "hang" => thread'[w].pc = "hang"
      BY <1>1, <1>5, Zenon DEF Threads
    <2> QED
      BY <1>1, <2>1, <2>2, Zenon DEF AssocInv, PauseInv
  <1>14. CountExact'
    <2>1. Pending' = Pending
      BY <1>1, <1>5 DEF Pending
    <2> QED
      BY <1>1, <2>1, CountKept, Zenon DEF AssocInv
  <1> QED
    BY <1>8, <1>9, <1>10, <1>11, <1>12, <1>13, <1>14, Zenon DEF AssocInv

(* A worker that registers counts itself and hangs; one that is resumed    *)
(* does so only when nobody is waited for.                                 *)
LEMMA HangStep ==
  ASSUME AssocInv, NEW t \in Workers, register_thread_initialized(t) \/ Resumed(t)
  PROVE  AssocInv'
  <1>1. /\ UNCHANGED <<tables, hashpower, expanding, expand_bucket, hash_items, item_locks, maint, hang,
                       own, present>>
        /\ thread[t].pc \in {"idle", "hang"}
    BY Zenon DEF register_thread_initialized, Resumed, table, pausing
  <1>2. PICK pc \in {"idle", "hang"} :
          /\ Goes(t, pc)
          /\ register_thread_initialized(t) => pc = "hang"
          /\ pc = "idle" => Resumed(t)
    BY Zenon DEF register_thread_initialized, Resumed
  <1>3. /\ thread' \in [Threads -> [pc : PCs, k : Keys, at : Places]]
        /\ thread'[t].pc = pc
        /\ \A s \in Threads : s # t => thread'[s] = thread[s]
    <2>1. pc \in PCs /\ t \in Threads
      BY Zenon DEF PCs, Threads
    <2> QED
      BY <1>2, <2>1, GoesFacts DEF AssocInv
  <1>4. \A s \in Threads : thread'[s].pc \in Working =>
          thread[s].pc \in Working /\ thread'[s] = thread[s]
    BY <1>3, Zenon DEF Working
  <1>5. TypeInv'
    <2>1. pauses' \subseteq Workers /\ init_count' \in Nat
      BY DEF AssocInv, TypeInv, register_thread_initialized, Resumed, pausing
    <2> QED
      BY <1>1, <1>3, <2>1, Zenon DEF AssocInv, TypeInv
  <1>6. EachKeyOnce'
    BY <1>1, TablesKept, Zenon DEF AssocInv
  <1>7. LockInv'
    BY <1>1, <1>4, Zenon DEF AssocInv, LockInv
  <1>8. OpInv'
    <2>1. \A hv : Bucket(hv)' = Bucket(hv)
      BY <1>1, BucketSame, Zenon
    <2>2. \A s \in Threads : thread'[s].pc \in {"insert", "delete", "cut"} =>
            thread'[s] = thread[s]
      BY <1>4, Zenon DEF Working
    <2> QED
      BY <1>1, <2>1, <2>2, Zenon DEF AssocInv, OpInv
  <1>9. ExpandInv'
    BY <1>1, Zenon DEF AssocInv, ExpandInv
  <1>10. PauseInv'
    <2>1. \A s \in Background : thread'[s].pc \in Working => s \in own
      BY <1>4, Zenon DEF AssocInv, PauseInv, Threads
    <2>2. ASSUME maint \in {"pausing", "expand"}, register_thread_initialized(t)
          PROVE  /\ init_count' = Cardinality(Workers \ pauses')
                 /\ \A w \in Workers \ pauses' : thread'[w].pc = "hang"
                 /\ maint # "expand"
      <3>1. /\ t \in pauses /\ pauses' = pauses \ {t} /\ init_count' = init_count + 1
            /\ init_count = Cardinality(Workers \ pauses)
        BY <2>2 DEF register_thread_initialized, AssocInv, PauseInv
      <3>2. Workers \ pauses' = (Workers \ pauses) \cup {t} /\ t \notin Workers \ pauses
        BY <3>1
      <3>3. IsFiniteSet(Workers \ pauses)
        BY Finite, FS_Subset DEF AssocInv
      <3>4. Cardinality(Workers \ pauses') = Cardinality(Workers \ pauses) + 1
        BY <3>2, <3>3, FS_AddElement, Zenon
      <3>5. \A w \in Workers \ pauses' : thread'[w].pc = "hang"
        BY <1>2, <1>3, <2>2, <3>2, Zenon DEF AssocInv, PauseInv, Threads
      <3>6. maint # "expand"
        BY <3>1, Zenon DEF AssocInv, PauseInv
      <3> QED
        BY <3>1, <3>4, <3>5, <3>6, Zenon
    <2>3. ASSUME maint \in {"pausing", "expand"}, Resumed(t)
          PROVE  FALSE
      BY <2>3, Zenon DEF Resumed, AssocInv, PauseInv
    <2> QED
      BY <1>1, <2>1, <2>2, <2>3, Zenon DEF AssocInv, PauseInv
  <1>11. CountExact'
    <2>1. Pending' = Pending
      BY <1>1, <1>3 DEF Pending
    <2> QED
      BY <1>1, <2>1, CountKept, Zenon DEF AssocInv
  <1> QED
    BY <1>5, <1>6, <1>7, <1>8, <1>9, <1>10, <1>11, Zenon DEF AssocInv

-----------------------------------------------------------------------------
(* The maintenance thread gets the lock of the bucket only when no thread has it. *)
LEMMA item_trylockStep ==
  ASSUME AssocInv, item_trylock
  PROVE  AssocInv'
  <1> DEFINE l == LockOf(expand_bucket)
  <1>1. /\ UNCHANGED <<tables, hashpower, expanding, expand_bucket, hash_items, thread, hang,
                       pauses, init_count, own, present>>
        /\ expanding /\ maint' = "move" /\ item_locks[l] = NoOne
        /\ item_locks' = [item_locks EXCEPT ![l] = Maint]
    BY Zenon DEF item_trylock, MaintGoes, table, pausing
  <1>2. l \in Locks /\ NoOne \notin Threads
    BY LockIn, AssocAssumption, Zenon DEF AssocInv, TypeInv
  <1>3. item_locks \in [Locks -> Threads \cup {NoOne, Maint}]
    BY Zenon DEF AssocInv, TypeInv
  <1> HIDE DEF l
  <1>4. /\ item_locks' \in [Locks -> Threads \cup {NoOne, Maint}]
        /\ item_locks'[l] = Maint
        /\ \A m \in Locks : m # l => item_locks'[m] = item_locks[m]
    BY <1>1, <1>2, <1>3, Zenon
  <1>5. TypeInv'
    BY <1>1, <1>4, Zenon DEF AssocInv, TypeInv
  <1>6. EachKeyOnce'
    BY <1>1, TablesKept, Zenon DEF AssocInv
  <1>7. LockInv'
    <2>1. ASSUME NEW s \in Threads, thread[s].pc \in Working
          PROVE  item_locks'[LockOf(Hash[thread[s].k])] = s
      <3>1. LockOf(Hash[thread[s].k]) \in Locks
        BY ThreadType, Zenon DEF AssocInv
      <3>2. item_locks[LockOf(Hash[thread[s].k])] = s
        BY <2>1 DEF AssocInv, LockInv
      <3> QED
        BY <1>1, <1>2, <1>4, <3>1, <3>2, Zenon
    <2> QED
      BY <1>1, <1>4, <2>1, Zenon DEF LockInv, l
  <1>8. OpInv'
    BY <1>1, ThreadsKept, Zenon DEF AssocInv
  <1>9. ExpandInv' /\ PauseInv'
    BY <1>1 DEF AssocInv, ExpandInv, PauseInv
  <1>10. CountExact'
    BY <1>1, PendingKept, CountKept, Zenon DEF AssocInv
  <1> QED
    BY <1>5, <1>6, <1>7, <1>8, <1>9, <1>10, Zenon DEF AssocInv

(* Moving a bucket changes where the keys of that bucket are searched, and *)
(* of no other.                                                            *)
LEMMA BucketMoves ==
  ASSUME AssocInv, MoveBucket, NEW hv \in Nat
  PROVE  /\ hv % hashsize[hashpower - 1] = expand_bucket =>
              Bucket(hv) = <<hashpower - 1, expand_bucket>> /\ Bucket(hv)' = Home(hashpower, hv)
         /\ hv % hashsize[hashpower - 1] # expand_bucket =>
              Bucket(hv) # <<hashpower - 1, expand_bucket>> /\ Bucket(hv)' = Bucket(hv)
  <1>1. /\ expanding /\ hashpower - 1 \in Powers /\ hashpower \in Powers
        /\ expand_bucket < hashsize[hashpower - 1] /\ expand_bucket \in Nat
    BY DEF AssocInv, MoveBucket, LockInv, ExpandInv, TypeInv
  <1>2. /\ hashpower' = hashpower /\ expand_bucket' = expand_bucket + 1
        /\ expanding' <=> expand_bucket + 1 # hashsize[hashpower - 1]
    BY Zenon DEF MoveBucket
  <1>3. PICK b \in Nat : b = hv % hashsize[hashpower - 1]
    BY <1>1, HomeIn, Zenon
  <1>4. PICK h \in Nat : h = hashsize[hashpower - 1] /\ b < h
    BY <1>1, <1>3, HomeIn, PowerSize, Zenon
  <1>5. hashpower \in Nat /\ hashpower - 1 # hashpower
    BY <1>1, PowerSize
  <1>6. Bucket(hv) = IF b >= expand_bucket THEN <<hashpower - 1, b>> ELSE Home(hashpower, hv)
    BY <1>1, <1>3, Zenon DEF Bucket, Home
  <1>7. Bucket(hv)' = IF expand_bucket + 1 # h /\ b >= expand_bucket + 1
                      THEN <<hashpower - 1, b>> ELSE Home(hashpower, hv)
    BY <1>2, <1>3, <1>4, Zenon DEF Bucket, Home
  <1>8. Home(hashpower, hv) # <<hashpower - 1, expand_bucket>>
    BY <1>5, Zenon DEF Home
  <1>9. CASE b = expand_bucket
    BY <1>3, <1>6, <1>7, <1>9
  <1>10. CASE b # expand_bucket
    <2>1. Bucket(hv)' = Bucket(hv)
      BY <1>1, <1>4, <1>6, <1>7, <1>10
    <2>2. Bucket(hv) # <<hashpower - 1, expand_bucket>>
      BY <1>6, <1>8, <1>10
    <2> QED
      BY <1>3, <1>10, <2>1, <2>2, Zenon
  <1> QED
    BY <1>9, <1>10, Zenon

(* Moving a bucket. A thread at work has another lock, so its key is in another *)
(* bucket of the old table, and where it searches does not change.              *)
LEMMA MoveBucketStep ==
  ASSUME AssocInv, MoveBucket
  PROVE  AssocInv'
  <1> DEFINE old == <<hashpower - 1, expand_bucket>>
  <1>1. /\ UNCHANGED <<hashpower, hash_items, thread, hang, pauses, init_count, own, present>>
        /\ maint = "move" /\ maint' = "loop"
        /\ expand_bucket' = expand_bucket + 1
        /\ expanding' = (expand_bucket + 1 # hashsize[hashpower - 1])
        /\ item_locks' = [l \in Locks |-> IF item_locks[l] = Maint THEN NoOne ELSE item_locks[l]]
        /\ tables' = [x \in Places |-> [k \in Keys |->
             IF x = old THEN 0
             ELSE IF x = Home(hashpower, Hash[k]) THEN tables[x][k] + tables[old][k]
             ELSE tables[x][k]]]
    BY Zenon DEF MoveBucket, MaintGoes, pausing
  <1>2. /\ expanding /\ hashpower - 1 \in Powers /\ hashpower \in Powers
        /\ expand_bucket < hashsize[hashpower - 1] /\ expand_bucket \in Nat
        /\ item_locks[LockOf(expand_bucket)] = Maint
    BY <1>1 DEF AssocInv, LockInv, ExpandInv, TypeInv
  <1>3. old \in Places
    BY <1>2, InPlaces, Zenon
  <1>4. tables \in [Places -> [Keys -> Nat]]
        /\ item_locks \in [Locks -> Threads \cup {NoOne, Maint}]
    BY DEF AssocInv, TypeInv
  <1>5. hashpower \in Nat /\ hashpower - 1 # hashpower
    BY <1>2, PowerSize
  <1>6. \A hv : Home(hashpower, hv) # old
    BY <1>5 DEF Home
  <1> HIDE DEF old
  <1>7. \A k \in Keys, x \in Places :
          tables'[x][k] = IF x = old THEN 0
                          ELSE IF x = Home(hashpower, Hash[k]) THEN tables[x][k] + tables[old][k]
                          ELSE tables[x][k]
    BY <1>1, Zenon
  <1>8. TypeInv'
    <2>1. tables' \in [Places -> [Keys -> Nat]]
      <3>1. \A k \in Keys, x \in Places : tables[x][k] \in Nat /\ tables[old][k] \in Nat
        BY <1>3, <1>4, Zenon
      <3>2. ASSUME NEW k \in Keys, NEW x \in Places
            PROVE  (IF x = old THEN 0
                    ELSE IF x = Home(hashpower, Hash[k]) THEN tables[x][k] + tables[old][k]
                    ELSE tables[x][k]) \in Nat
        BY <3>1
      <3> QED
        BY <1>1, <3>2, Zenon
    <2>2. item_locks' \in [Locks -> Threads \cup {NoOne, Maint}]
      BY <1>1, <1>4, Zenon
    <2>3. expand_bucket' \in Nat /\ expanding' \in BOOLEAN
      BY <1>1, <1>2
    <2> QED
      BY <1>1, <2>1, <2>2, <2>3, Zenon DEF AssocInv, TypeInv
  <1>9. EachKeyOnce'
    <2>1. ASSUME NEW k \in Keys, NEW x \in Places
          PROVE  tables'[x][k] = IF k \in present /\ x = Bucket(Hash[k])' THEN 1 ELSE 0
      <3>1. Hash[k] \in Nat /\ Home(hashpower, Hash[k]) # old
        BY <1>6, KeyHash, Zenon
      <3>2. /\ tables[x][k] = IF k \in present /\ x = Bucket(Hash[k]) THEN 1 ELSE 0
            /\ tables[old][k] = IF k \in present /\ old = Bucket(Hash[k]) THEN 1 ELSE 0
        BY <1>3, Zenon DEF AssocInv, EachKeyOnce
      <3>3. CASE Hash[k] % hashsize[hashpower - 1] = expand_bucket
        <4>1. Bucket(Hash[k]) = old /\ Bucket(Hash[k])' = Home(hashpower, Hash[k])
          BY <3>1, <3>3, BucketMoves, Zenon DEF old
        <4> QED
          BY <1>7, <3>1, <3>2, <4>1
      <3>4. CASE Hash[k] % hashsize[hashpower - 1] # expand_bucket
        <4>1. Bucket(Hash[k]) # old /\ Bucket(Hash[k])' = Bucket(Hash[k])
          BY <3>1, <3>4, BucketMoves, Zenon DEF old
        <4> QED
          BY <1>7, <3>1, <3>2, <4>1
      <3> QED
        BY <3>3, <3>4, Zenon
    <2> QED
      BY <1>1, <2>1, Zenon DEF EachKeyOnce
  <1>10. ASSUME NEW s \in Threads, thread[s].pc \in Working
         PROVE  /\ LockOf(Hash[thread[s].k]) \in Locks
                /\ item_locks[LockOf(Hash[thread[s].k])] = s /\ s # Maint
                /\ Bucket(Hash[thread[s].k])' = Bucket(Hash[thread[s].k])
    <2>1. Hash[thread[s].k] \in Nat /\ LockOf(Hash[thread[s].k]) \in Locks
      BY ThreadType, Zenon DEF AssocInv
    <2>2. item_locks[LockOf(Hash[thread[s].k])] = s /\ s # Maint
      BY <1>10, AssocAssumption, Zenon DEF AssocInv, LockInv
    <2>3. Hash[thread[s].k] % hashsize[hashpower - 1] # expand_bucket
      BY <1>2, <2>1, <2>2, LockOfBucket, Zenon
    <2>4. PICK hv \in Nat : hv = Hash[thread[s].k]
      BY <2>1, Zenon
    <2>5. Bucket(hv)' = Bucket(hv)
      BY <2>3, <2>4, BucketMoves, Zenon
    <2>6. Hash[thread[s].k]' = hv
      BY <1>1, <2>4, Zenon
    <2> QED
      BY <2>1, <2>2, <2>4, <2>5, <2>6, Zenon DEF Bucket
  <1>11. LockInv'
    BY <1>1, <1>10, Zenon DEF LockInv
  <1>12. OpInv'
    <2>1. ASSUME NEW s \in Threads, thread[s].pc \in {"insert", "delete", "cut"}
          PROVE  thread[s].at = Bucket(Hash[thread[s].k])'
      BY <1>10, <2>1, Zenon DEF AssocInv, OpInv, Working
    <2> QED
      BY <1>1, <2>1, Zenon DEF AssocInv, OpInv
  <1>13. ExpandInv'
    <2>1. hashsize[hashpower - 1] \in Nat
      BY <1>2, PowerSize, Zenon
    <2>2. expand_bucket + 1 # hashsize[hashpower - 1] => expand_bucket + 1 < hashsize[hashpower - 1]
      BY <1>2, <2>1
    <2>3. expanding' => hashpower' - 1 \in Powers /\ expand_bucket' < hashsize[hashpower' - 1]
      BY <1>1, <1>2, <2>2, Zenon
    <2>4. maint' \notin {"done", "wait", "signalled", "pause", "pausing", "expand"}
      BY <1>1, Zenon
    <2> QED
      BY <2>3, <2>4, Zenon DEF ExpandInv
  <1>14. PauseInv'
    BY <1>1, Zenon DEF AssocInv, PauseInv
  <1>15. CountExact'
    BY <1>1, PendingKept, CountKept DEF AssocInv
  <1> QED
    BY <1>8, <1>9, <1>11, <1>12, <1>13, <1>14, <1>15, Zenon DEF AssocInv

(* What the maintenance thread does without the tables and the locks.      *)
Prepares ==
  \/ DoneExpanding \/ CondWait \/ PauseBackground \/ pause_threads \/ wait_for_thread_registration
  \/ ResumeAll \/ stop_assoc_maintenance_thread

(* The steps to a pause and back. All workers hang when their number is reached, *)
(* since init_count was set to 0 when each got its message.                      *)
LEMMA PreparesStep ==
  ASSUME AssocInv, Prepares
  PROVE  AssocInv'
  <1>1. UNCHANGED <<tables, hashpower, expanding, expand_bucket, hash_items, item_locks, thread, present>>
    BY Zenon DEF Prepares, DoneExpanding, CondWait, PauseBackground, pause_threads,
           wait_for_thread_registration, ResumeAll, stop_assoc_maintenance_thread, table
  <1>2. /\ maint' # "move"
        /\ maint' \in {"done", "wait", "signalled", "pause", "pausing", "expand"} => ~expanding
    BY Zenon DEF Prepares, DoneExpanding, CondWait, PauseBackground, pause_threads, MaintGoes,
           wait_for_thread_registration, ResumeAll, stop_assoc_maintenance_thread, AssocInv, ExpandInv
  <1>3. TypeInv'
    <2>1. own' \subseteq Background \cup {Maint} /\ pauses' \subseteq Workers /\ init_count' \in Nat
      BY DEF Prepares, DoneExpanding, CondWait, PauseBackground, pause_threads, pausing,
             wait_for_thread_registration, ResumeAll, stop_assoc_maintenance_thread, AssocInv, TypeInv
    <2>2. hang' \in {TRUE, FALSE, hang}
      BY Zenon DEF Prepares, DoneExpanding, CondWait, PauseBackground, pause_threads, pausing,
             wait_for_thread_registration, ResumeAll, stop_assoc_maintenance_thread
    <2>3. hang' \in BOOLEAN
      BY <2>2, Zenon DEF AssocInv, TypeInv
    <2> QED
      BY <1>1, <2>1, <2>3, Zenon DEF AssocInv, TypeInv
  <1>4. EachKeyOnce'
    BY <1>1, TablesKept, Zenon DEF AssocInv
  <1>5. LockInv' /\ ExpandInv'
    BY <1>1, <1>2, Zenon DEF AssocInv, LockInv, ExpandInv
  <1>6. OpInv'
    BY <1>1, ThreadsKept, Zenon DEF AssocInv
  <1>7. PauseInv'
    <2>1. CASE DoneExpanding \/ CondWait \/ stop_assoc_maintenance_thread
      <3>1. /\ UNCHANGED <<hang, pauses, init_count, own>>
            /\ maint' \in {"done", "wait", "signalled"}
        BY <2>1, Zenon DEF DoneExpanding, CondWait, stop_assoc_maintenance_thread, MaintGoes, pausing
      <3> QED
        BY <1>1, <3>1, Zenon DEF AssocInv, PauseInv
    <2>2. CASE PauseBackground
      BY <1>1, <2>2, Zenon DEF PauseBackground, MaintGoes, AssocInv, PauseInv
    <2>3. CASE pause_threads
      <3>1. Workers \ pauses' = {} /\ Cardinality({}) = 0
        BY <2>3, FS_EmptySet, Zenon DEF pause_threads
      <3>2. own' = own /\ own = {Maint} /\ maint' = "pausing" /\ hang' /\ init_count' = 0
        BY <2>3, Zenon DEF pause_threads, MaintGoes, AssocInv, PauseInv
      <3> QED
        BY <1>1, <3>1, <3>2, Zenon DEF AssocInv, PauseInv
    <2>4. CASE wait_for_thread_registration
      <3>1. /\ UNCHANGED <<hang, pauses, init_count, own>> /\ maint = "pausing" /\ maint' = "expand"
            /\ init_count = Cardinality(Workers)
        BY <2>4, Zenon DEF wait_for_thread_registration, MaintGoes, pausing
      <3>2. Cardinality(Workers \ pauses) = Cardinality(Workers)
        BY <3>1, Zenon DEF AssocInv, PauseInv
      <3>3. Workers \ pauses = Workers
        BY <3>2, Finite, FS_Subset, Zenon DEF AssocInv
      <3>4. pauses = {}
        BY <3>3, Zenon DEF AssocInv, TypeInv
      <3> QED
        BY <1>1, <3>1, <3>4, Zenon DEF AssocInv, PauseInv
    <2>5. CASE ResumeAll
      <3>1. maint' \notin {"pause", "pausing", "expand", "resume"} /\ own = {Maint}
        BY <2>5, Zenon DEF ResumeAll, MaintGoes, AssocInv, PauseInv
      <3>2. \A t \in Background : thread[t].pc \notin Working
        BY <3>1, AssocAssumption, Zenon DEF AssocInv, PauseInv, Threads
      <3> QED
        BY <1>1, <3>1, <3>2, Zenon DEF PauseInv
    <2> QED
      BY <2>1, <2>2, <2>3, <2>4, <2>5, Zenon DEF Prepares
  <1>8. CountExact'
    BY <1>1, PendingKept, CountKept DEF AssocInv
  <1> QED
    BY <1>3, <1>4, <1>5, <1>6, <1>7, <1>8, Zenon DEF AssocInv

(* When the tables are swapped the old one is the one that was used.       *)
LEMMA BucketKept ==
  ASSUME AssocInv, assoc_expand, NEW hv \in Nat
  PROVE  Bucket(hv)' = Bucket(hv)
  <1>1. ~expanding /\ hashpower \in Powers
    BY DEF assoc_expand, AssocInv, ExpandInv, TypeInv
  <1>2. CASE UNCHANGED <<hashpower, expanding, expand_bucket>>
    BY <1>2, BucketSame
  <1>3. CASE hashpower' = hashpower + 1 /\ expanding' = TRUE /\ expand_bucket' = 0
    <2>1. hashpower \in Nat /\ hashpower' - 1 = hashpower
      BY <1>1, <1>3, PowerSize
    <2>2. hv % hashsize[hashpower] \in Nat
      BY <1>1, HomeIn
    <2>3. hv % hashsize[hashpower' - 1] >= expand_bucket'
      BY <1>3, <2>1, <2>2
    <2>4. Bucket(hv)' = Home(hashpower' - 1, hv)
      BY <1>3, <2>3, Zenon DEF Bucket
    <2> QED
      BY <1>1, <2>1, <2>4, Zenon DEF Bucket
  <1> QED
    BY <1>2, <1>3, Zenon DEF assoc_expand

(* The swap: every key is now in the old table, which is searched first. *)
LEMMA assoc_expandStep ==
  ASSUME AssocInv, assoc_expand
  PROVE  AssocInv'
  <1>1. /\ UNCHANGED <<tables, hash_items, item_locks, thread, hang, pauses, init_count, own, present>>
        /\ maint = "expand" /\ maint' = "resume"
    BY Zenon DEF assoc_expand, MaintGoes, pausing
  <1>2. ~expanding /\ hashpower \in Powers /\ expand_bucket \in Nat /\ expanding \in BOOLEAN
    BY <1>1 DEF AssocInv, ExpandInv, TypeInv
  <1>3. /\ hashpower' \in Powers /\ expanding' \in BOOLEAN /\ expand_bucket' \in Nat
        /\ expanding' => hashpower' - 1 \in Powers /\ expand_bucket' < hashsize[hashpower' - 1]
    <2>1. CASE UNCHANGED <<hashpower, expanding, expand_bucket>>
      BY <1>2, <2>1, Zenon
    <2>2. CASE /\ hashpower < HASHPOWER_MAX
               /\ hashpower' = hashpower + 1 /\ expanding' = TRUE /\ expand_bucket' = 0
      <3>1. hashpower \in Nat /\ hashpower' - 1 = hashpower /\ hashsize[hashpower] \in Nat
            /\ hashsize[hashpower] > 0
        BY <1>2, <2>2, PowerSize
      <3>2. hashpower' \in Powers
        BY <1>2, <2>2, <3>1, AssocAssumption DEF Powers
      <3> QED
        BY <1>2, <2>2, <3>1, <3>2, Zenon
    <2> QED
      BY <2>1, <2>2, Zenon DEF assoc_expand
  <1>4. \A k \in Keys : Bucket(Hash[k])' = Bucket(Hash[k])
    <2>1. ASSUME NEW k \in Keys PROVE Bucket(Hash[k])' = Bucket(Hash[k])
      BY KeyHash, BucketKept, Zenon
    <2> QED
      BY <2>1
  <1>5. TypeInv'
    BY <1>1, <1>3, Zenon DEF AssocInv, TypeInv
  <1>6. EachKeyOnce'
    BY <1>1, <1>4, Zenon DEF AssocInv, EachKeyOnce
  <1>7. LockInv'
    BY <1>1, Zenon DEF AssocInv, LockInv
  <1>8. OpInv'
    <2>1. \A t \in Threads : Bucket(Hash[thread[t].k])' = Bucket(Hash[thread[t].k])
      <3>1. ASSUME NEW t \in Threads PROVE Bucket(Hash[thread[t].k])' = Bucket(Hash[thread[t].k])
        <4>1. PICK k \in Keys : k = thread[t].k
          BY ThreadType, Zenon DEF AssocInv
        <4> QED
          BY <1>1, <1>4, <4>1, Zenon
      <3> QED
        BY <3>1, Zenon
    <2> QED
      BY <1>1, <2>1, Zenon DEF AssocInv, OpInv
  <1>9. ExpandInv'
    BY <1>1, <1>3, Zenon DEF ExpandInv
  <1>10. PauseInv'
    BY <1>1, Zenon DEF AssocInv, PauseInv
  <1>11. CountExact'
    BY <1>1, PendingKept, CountKept DEF AssocInv
  <1> QED
    BY <1>5, <1>6, <1>7, <1>8, <1>9, <1>10, <1>11, Zenon DEF AssocInv

-----------------------------------------------------------------------------
(* Every step of every thread keeps the invariant. *)
LEMMA AssocStep ==
  ASSUME AssocInv, [ANext]_aVars
  PROVE  AssocInv'
  <1>1. CASE UNCHANGED aVars
    <2>1. UNCHANGED <<tables, hashpower, expanding, expand_bucket, hash_items, item_locks, thread, maint,
                      hang, pauses, init_count, own, present>>
      BY <1>1, Zenon DEF aVars, table, pausing
    <2>2. EachKeyOnce' /\ OpInv' /\ CountExact'
      BY <2>1, TablesKept, ThreadsKept, PendingKept, CountKept, Zenon DEF AssocInv
    <2>3. TypeInv' /\ LockInv' /\ ExpandInv' /\ PauseInv'
      BY <2>1 DEF AssocInv, TypeInv, LockInv, ExpandInv, PauseInv
    <2> QED
      BY <2>2, <2>3, Zenon DEF AssocInv
  <1>2. ASSUME NEW t \in Threads, Operate(t)
        PROVE  AssocInv'
    BY <1>2, assoc_findStep, assoc_insertStep, CountUpStep, CountDownStep, assoc_deleteStep,
       item_unlockStep, Zenon DEF Operate
  <1>3. ASSUME NEW t \in Threads, NEW k \in Busy, item_lock(t, k)
        PROVE  AssocInv'
    <2>1. k \in Keys
      BY AssocAssumption
    <2> QED
      BY <1>3, <2>1, item_lockStep, Zenon
  <1>4. ASSUME NEW t \in Background, WakeUp(t) \/ GoToSleep(t)
        PROVE  AssocInv'
    BY <1>4, WakeUpStep, Zenon
  <1>5. ASSUME NEW w \in Workers, register_thread_initialized(w) \/ Resumed(w)
        PROVE  AssocInv'
    BY <1>5, HangStep, Zenon
  <1>6. CASE MaintStep \/ stop_assoc_maintenance_thread
    BY <1>6, item_trylockStep, MoveBucketStep, PreparesStep, assoc_expandStep, Zenon
       DEF MaintStep, Prepares
  <1> QED
    BY <1>1, <1>2, <1>3, <1>4, <1>5, <1>6, Zenon DEF ANext

(* Keys in their buckets, locks with their holders, findings still true, the *)
(* state of the expansion and the pause, and the counter: for any number of  *)
(* threads, keys and locks (assoc.c, thread.c:56-183).                       *)
THEOREM AssocInvariant == ASpec => []AssocInv
  BY AssocStart, AssocStep, PTL DEF ASpec

(* While the tables are swapped every worker hangs and the maintenance     *)
(* thread has the locks of the background threads.                         *)
LEMMA SwapIsAlone ==
  ASSUME AssocInv
  PROVE  SwappedAlone
  <1>1. ASSUME maint = "expand", NEW t \in Threads
        PROVE  thread[t].pc \notin Working
    <2>1. CASE t \in Workers
      BY <1>1, <2>1, Zenon DEF AssocInv, PauseInv, Working
    <2>2. CASE t \in Background
      <3>1. own = {Maint} /\ t # Maint
        BY <1>1, <2>2, AssocAssumption DEF AssocInv, PauseInv
      <3> QED
        BY <2>2, <3>1, Zenon DEF AssocInv, PauseInv
    <2> QED
      BY <2>1, <2>2, Zenon DEF Threads
  <1> QED
    BY <1>1 DEF SwappedAlone

(* Before, during and after an expansion a lookup finds exactly the keys that    *)
(* were inserted and not deleted, each once; the counter of items is right;      *)
(* and no thread is at work in the tables when they are swapped (assoc.c:79-203, *)
(* 205-276).                                                                     *)
THEOREM LookupsExactHolds == ASpec => []LookupsExact
  <1>1. AssocInv => LookupsExact
    BY SwapIsAlone DEF AssocInv, LookupsExact
  <1> QED
    BY <1>1, AssocInvariant, PTL
=============================================================================
