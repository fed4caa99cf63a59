------------------------------- MODULE Assoc -------------------------------
(***************************************************************************)
(* memcached's hash table: worker threads find, insert and delete under    *)
(* the lock of a key's hash while one maintenance thread doubles the table *)
(* bucket by bucket.  The table is swapped with every worker paused.       *)
(***************************************************************************)
EXTENDS Integers, FiniteSets

CONSTANTS Keys,
          Hash,                \* key -> hash value
          Busy,                \* keys the threads insert and delete
          Workers,             \* libevent worker threads
          Background,          \* LRU maintainer, slab mover and crawler: they take an item
                               \* lock only if it is free and hold a lock of their own meanwhile
          item_lock_hashpower,
          InitialPower,        \* hashpower when the first thread starts
          HASHPOWER_MAX,
          PromptResume         \* whether a resumed worker runs before the next expansion

NoOne == "no one"
Maint == "maintenance"
Threads == Workers \cup Background

(* memcached_thread_init refuses to start with as many locks as buckets.   *)
ASSUME AssocAssumption ==
  /\ item_lock_hashpower \in Nat /\ InitialPower \in Nat /\ HASHPOWER_MAX \in Nat
  /\ item_lock_hashpower < InitialPower /\ InitialPower <= HASHPOWER_MAX
  /\ Hash \in [Keys -> Nat]
  /\ Busy \subseteq Keys /\ Keys # {}
  /\ IsFiniteSet(Keys) /\ IsFiniteSet(Threads)
  /\ Workers \cap Background = {} /\ {NoOne, Maint} \cap Threads = {}

VARIABLES tables,          \* bucket of a table -> key -> how often it is in the chain
          hashpower, expanding, started_expanding, expand_bucket, hash_items,
          item_locks,      \* lock -> thread that holds it, or NoOne
          thread,          \* worker or background thread -> where it is
          maint,           \* where the maintenance thread is
          running,         \* do_run_maintenance_thread
          hang,            \* whether maintenance holds worker_hang_lock
          pauses,          \* workers with a 'p' in their notify pipe
          init_count,
          own,             \* background threads that hold their own lock, and whether
                           \* maintenance holds them all
          present          \* the keys in the table (for the properties)

aVars == <<tables, hashpower, expanding, started_expanding, expand_bucket, hash_items,
           item_locks, thread, maint, running, hang, pauses, init_count, own, present>>

hashsize[n \in 0..HASHPOWER_MAX] == IF n = 0 THEN 1 ELSE 2 * hashsize[n - 1]
LockOf(hv) == hv % hashsize[item_lock_hashpower]
Locks == 0..(hashsize[item_lock_hashpower] - 1)
Powers == InitialPower..HASHPOWER_MAX

(* The buckets of the tables, and the one of a hash in the table of a size. *)
Places == UNION {{p} \X (0..(hashsize[p] - 1)) : p \in Powers}
Home(p, hv) == <<p, hv % hashsize[p]>>

Idle == [pc |-> "idle", k |-> CHOOSE k \in Keys : TRUE, at |-> <<InitialPower, 0>>]

(* Every key that is never touched is in the table when threads start.     *)
AInit ==
  /\ tables = [x \in Places |-> [k \in Keys |->
       IF k \notin Busy /\ x = Home(InitialPower, Hash[k]) THEN 1 ELSE 0]]
  /\ hashpower = InitialPower /\ expanding = FALSE /\ expand_bucket = 0
  /\ started_expanding = FALSE
  /\ hash_items = Cardinality(Keys \ Busy)
  /\ item_locks = [l \in Locks |-> NoOne]
  /\ thread = [t \in Threads |-> Idle]
  /\ maint = "loop" /\ running = TRUE
  /\ hang = FALSE /\ pauses = {} /\ init_count = Cardinality(Workers)
  /\ own = {}
  /\ present = Keys \ Busy

Goes(t, pc) == thread' = [thread EXCEPT ![t].pc = pc]

table == <<tables, hashpower, expanding, expand_bucket>>
pausing == <<hang, pauses, init_count, own>>

-----------------------------------------------------------------------------
(* A background thread locks itself for each pass.                         *)
WakeUp(t) ==
  /\ t \in Background /\ t \notin own /\ Maint \notin own
  /\ thread[t].pc = "idle"
  /\ own' = own \cup {t}
  /\ UNCHANGED <<table, started_expanding, hash_items, item_locks, thread, maint, running, hang, pauses,
                 init_count, present>>

GoToSleep(t) ==
  /\ t \in own /\ t # Maint /\ thread[t].pc = "idle"
  /\ own' = own \ {t}
  /\ UNCHANGED <<table, started_expanding, hash_items, item_locks, thread, maint, running, hang, pauses,
                 init_count, present>>

(* item_lock waits, item_trylock does not: either way the thread goes on   *)
(* once it has the lock.                                                   *)
item_lock(t, k) ==
  /\ thread[t].pc = "idle" /\ (t \in Workers \/ t \in own)
  /\ item_locks[LockOf(Hash[k])] = NoOne
  /\ item_locks' = [item_locks EXCEPT ![LockOf(Hash[k])] = t]
  /\ thread' = [thread EXCEPT ![t] = [@ EXCEPT !.pc = "locked", !.k = k]]
  /\ UNCHANGED <<table, started_expanding, hash_items, maint, running, pausing, present>>

(* Mutant of Bucket: a bucket is looked for in the new table too early.    *)
Bucket_Early(hv) ==
  IF expanding /\ hv % hashsize[hashpower - 1] > expand_bucket
  THEN Home(hashpower - 1, hv) ELSE Home(hashpower, hv)

(* The bucket of a hash: in the old table until its turn comes.            *)
Bucket(hv) ==
  IF expanding /\ hv % hashsize[hashpower - 1] >= expand_bucket
  THEN Home(hashpower - 1, hv) ELSE Home(hashpower, hv)

Found(hv, k) == tables[Bucket(hv)][k] > 0

(* assoc_find, then the bucket the insertion or the deletion works on.     *)
assoc_find(t) ==
  /\ thread[t].pc = "locked"
  /\ thread' = [thread EXCEPT ![t] =
       [@ EXCEPT !.pc = IF Found(Hash[thread[t].k], thread[t].k) THEN "delete"
                        ELSE IF t \in Workers THEN "insert" ELSE "unlock",
                 !.at = Bucket(Hash[thread[t].k])]]
  /\ UNCHANGED <<table, started_expanding, hash_items, item_locks, maint, running, pausing, present>>

assoc_insert(t) ==
  /\ thread[t].pc = "insert"
  /\ tables' = [tables EXCEPT ![thread[t].at][thread[t].k] = @ + 1]
  /\ present' = present \cup {thread[t].k}
  /\ Goes(t, "count")
  /\ UNCHANGED <<hashpower, expanding, expand_bucket, started_expanding, hash_items, item_locks, maint,
                 running, pausing>>

(* The counter of items, and assoc_start_expand: the signal reaches the    *)
(* maintenance thread only if it is waiting.                               *)
CountUp(t) ==
  /\ thread[t].pc = "count"
  /\ hash_items' = hash_items + 1
  /\ LET full == ~expanding /\ hash_items + 1 > (hashsize[hashpower] * 3) \div 2
                 /\ hashpower < HASHPOWER_MAX /\ ~started_expanding
     IN  /\ started_expanding' = (started_expanding \/ full)
         /\ maint' = IF full /\ maint = "wait" THEN "signalled" ELSE maint
  /\ Goes(t, "unlock")
  /\ UNCHANGED <<table, item_locks, running, pausing, present>>

CountDown(t) ==
  /\ thread[t].pc = "delete"
  /\ hash_items' = hash_items - 1
  /\ Goes(t, "cut")
  /\ UNCHANGED <<table, started_expanding, item_locks, maint, running, pausing, present>>

assoc_delete(t) ==
  /\ thread[t].pc = "cut"
  /\ tables' = [tables EXCEPT ![thread[t].at][thread[t].k] = @ - 1]
  /\ present' = present \ {thread[t].k}
  /\ Goes(t, "unlock")
  /\ UNCHANGED <<hashpower, expanding, expand_bucket, started_expanding, hash_items, item_locks, maint,
                 running, pausing>>

item_unlock(t) ==
  /\ thread[t].pc = "unlock"
  /\ item_locks' = [item_locks EXCEPT ![LockOf(Hash[thread[t].k])] = NoOne]
  /\ thread' = [thread EXCEPT ![t] = Idle]
  /\ UNCHANGED <<table, started_expanding, hash_items, maint, running, pausing, present>>

(* A worker takes the 'p' from its pipe, counts itself and waits for the   *)
(* lock that hangs it.                                                     *)
register_thread_initialized(w) ==
  /\ thread[w].pc = "idle" /\ w \in pauses
  /\ pauses' = pauses \ {w}
  /\ init_count' = init_count + 1
  /\ Goes(w, "hang")
  /\ UNCHANGED <<table, started_expanding, hash_items, item_locks, maint, running, hang, own, present>>

Resumed(w) ==
  /\ thread[w].pc = "hang" /\ ~hang
  /\ Goes(w, "idle")
  /\ UNCHANGED <<table, started_expanding, hash_items, item_locks, maint, running, pausing, present>>

-----------------------------------------------------------------------------
MaintGoes(pc) == maint' = pc

(* The lock of the bucket to move; when it is taken the thread sleeps and  *)
(* tries again.                                                            *)
item_trylock ==
  /\ maint = "loop" /\ expanding
  /\ item_locks[LockOf(expand_bucket)] = NoOne
  /\ item_locks' = [item_locks EXCEPT ![LockOf(expand_bucket)] = Maint]
  /\ MaintGoes("move")
  /\ UNCHANGED <<table, started_expanding, hash_items, thread, running, pausing, present>>

(* Each item of the bucket is put into its bucket of the new table.        *)
MoveBucket ==
  /\ maint = "move"
  /\ LET old == <<hashpower - 1, expand_bucket>>
     IN  tables' = [x \in Places |-> [k \in Keys |->
           IF x = old THEN 0
           ELSE IF x = Home(hashpower, Hash[k]) THEN tables[x][k] + tables[old][k]
           ELSE tables[x][k]]]
  /\ expand_bucket' = expand_bucket + 1
  /\ expanding' = (expand_bucket + 1 # hashsize[hashpower - 1])
  /\ item_locks' = [l \in Locks |-> IF item_locks[l] = Maint THEN NoOne ELSE item_locks[l]]
  /\ MaintGoes("loop")
  /\ UNCHANGED <<hashpower, started_expanding, hash_items, thread, running, pausing, present>>

DoneExpanding ==
  /\ maint = "loop" /\ running /\ ~expanding
  /\ started_expanding' = FALSE
  /\ MaintGoes("done")
  /\ UNCHANGED <<table, hash_items, item_locks, thread, running, pausing, present>>

CondWait ==
  /\ maint = "done"
  /\ MaintGoes("wait")
  /\ UNCHANGED <<table, started_expanding, hash_items, item_locks, thread, running, pausing, present>>

(* pause_threads: first the locks of the background threads,               *)
PauseBackground ==
  /\ maint = "signalled" /\ own = {}
  /\ own' = {Maint}
  /\ MaintGoes("pause")
  /\ UNCHANGED <<table, started_expanding, hash_items, item_locks, thread, running, hang, pauses,
                 init_count, present>>

(* then worker_hang_lock, the count and a 'p' to every worker.             *)
pause_threads ==
  /\ maint = "pause"
  /\ PromptResume => \A w \in Workers : thread[w].pc # "hang"
  /\ hang' = TRUE /\ init_count' = 0 /\ pauses' = Workers
  /\ MaintGoes("pausing")
  /\ UNCHANGED <<table, started_expanding, hash_items, item_locks, thread, running, own, present>>

(* Mutant of wait_for_thread_registration: one worker more is waited for.  *)
wait_for_thread_registration_OneMore ==
  /\ maint = "pausing" /\ init_count > Cardinality(Workers)
  /\ MaintGoes("expand")
  /\ UNCHANGED <<table, started_expanding, hash_items, item_locks, thread, running, pausing, present>>

wait_for_thread_registration ==
  /\ maint = "pausing" /\ init_count = Cardinality(Workers)
  /\ MaintGoes("expand")
  /\ UNCHANGED <<table, started_expanding, hash_items, item_locks, thread, running, pausing, present>>

(* The new table may not be had.                                           *)
assoc_expand ==
  /\ maint = "expand"
  /\ \/ /\ hashpower < HASHPOWER_MAX
        /\ hashpower' = hashpower + 1 /\ expanding' = TRUE /\ expand_bucket' = 0
     \/ UNCHANGED <<hashpower, expanding, expand_bucket>>
  /\ MaintGoes("resume")
  /\ UNCHANGED <<tables, started_expanding, hash_items, item_locks, thread, running, pausing, present>>

ResumeAll ==
  /\ maint = "resume"
  /\ hang' = FALSE /\ own' = {}
  /\ MaintGoes(IF running THEN "loop" ELSE "gone")
  /\ UNCHANGED <<table, started_expanding, hash_items, item_locks, thread, running, pauses, init_count,
                 present>>

(* The lock a stop needs is free only in the wait.                         *)
stop_assoc_maintenance_thread ==
  /\ running /\ maint = "wait"
  /\ running' = FALSE
  /\ MaintGoes("signalled")
  /\ UNCHANGED <<table, started_expanding, hash_items, item_locks, thread, pausing, present>>

-----------------------------------------------------------------------------
Operate(t) ==
  \/ assoc_find(t) \/ assoc_insert(t) \/ CountUp(t) \/ CountDown(t) \/ assoc_delete(t) \/ item_unlock(t)

MaintStep ==
  \/ item_trylock \/ MoveBucket \/ DoneExpanding \/ CondWait \/ PauseBackground \/ pause_threads
  \/ wait_for_thread_registration \/ assoc_expand \/ ResumeAll

ANext ==
  \/ \E t \in Threads : Operate(t) \/ \E k \in Busy : item_lock(t, k)
  \/ \E t \in Background : WakeUp(t) \/ GoToSleep(t)
  \/ \E w \in Workers : register_thread_initialized(w) \/ Resumed(w)
  \/ MaintStep \/ stop_assoc_maintenance_thread

ASpec == AInit /\ [][ANext]_aVars

(* A worker takes the messages of its pipe and finishes what it began; the *)
(* maintenance thread and the background threads go on, and a trylock that *)
(* is tried again and again meets a free lock.                             *)
AFairness ==
  /\ \A t \in Threads : WF_aVars(Operate(t))
  /\ \A t \in Background : WF_aVars(GoToSleep(t))
  /\ \A w \in Workers : SF_aVars(register_thread_initialized(w)) /\ WF_aVars(Resumed(w))
  /\ WF_aVars(MaintStep) /\ SF_aVars(item_trylock) /\ SF_aVars(PauseBackground)

-----------------------------------------------------------------------------
(* A thread that has an item lock.                                         *)
Working == {"locked", "insert", "count", "delete", "cut", "unlock"}

(* Every key that was inserted and not deleted is once in the bucket where *)
(* a lookup searches it, and no key is anywhere else.                      *)
EachKeyOnce ==
  \A k \in Keys, x \in Places :
    tables[x][k] = IF k \in present /\ x = Bucket(Hash[k]) THEN 1 ELSE 0

(* The counter that decides on expansions is the number of keys, but for   *)
(* the threads between the chain and the counter.                          *)
CountExact ==
  hash_items = Cardinality(present) - Cardinality({t \in Threads : thread[t].pc \in {"count", "cut"}})

(* "we need all threads to not hold any references related to the hash     *)
(* table while this happens" (assoc.c:263-265).                            *)
SwappedAlone == maint = "expand" => \A t \in Threads : thread[t].pc \notin Working

(* Before, during and after an expansion a lookup finds exactly the keys   *)
(* that were inserted and not deleted, each once; the counter of items is  *)
(* right; and no thread is at work in the tables when they are swapped     *)
(* (assoc.c:82-88, 156-203, 227-272).                                      *)
LookupsExact == EachKeyOnce /\ CountExact /\ SwappedAlone

(* Every pause of the workers ends and every expansion is finished unless  *)
(* the server stops: the workers never wait for a maintenance thread that  *)
(* waits for them (thread.c:118-183, assoc.c:211-276).                     *)
ExpansionsFinish ==
  /\ expanding ~> (~expanding \/ ~running)
  /\ hang ~> ~hang
=============================================================================
