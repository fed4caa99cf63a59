-------------------------------- MODULE CCEH --------------------------------
(***************************************************************************)
(* The extendible hash table of experiments/CCEH as it is built (INPLACE,  *)
(* MULTITHREAD, no CUCKOO).  A directory of 2^depth entries points to      *)
(* segments; a segment of local depth l is shared by the 2^(depth - l)     *)
(* entries with the same first l bits.  Threads insert into and search a   *)
(* segment under its sema, which counts them while it is not negative; a   *)
(* full segment is split by the one thread that suspends it, in place: its *)
(* upper half of keys is copied to a new segment and left behind as        *)
(* garbage, which the pattern of the segment tells apart.  A store stays   *)
(* in the cache: the medium holds one of the versions a pair, an entry or  *)
(* a depth had since it was last flushed.                                  *)
(***************************************************************************)
EXTENDS Integers, Sequences, FiniteSets

CONSTANTS Threads, Keys,
          Bits,        \* key -> the first MaxDepth bits of its hash
          First,       \* key -> the slot its hash starts at
          Second,      \* key -> the slot its second hash starts at
          kNumSlot,
          Probe,       \* kNumPairPerCacheLine * kNumCacheLine
          Called,      \* mode -> the keys that calls insert and search
          MaxDepth,    \* bound: the depth of the directory
          MaxSegs,     \* bound: segments ever created
          MaxOps       \* bound: calls in all

NONE == 0
INVALID == 0
SENTINEL == -1
Slots == 0..(kNumSlot - 1)
Ids == 1..MaxSegs
Empty == [key |-> INVALID, value |-> NONE]

VARIABLES dir,       \* the number of the current directory
          dirs,      \* the directories: depth, entries, sema
          segs,      \* segment -> pairs, sema, local_depth
          made,      \* segments created
          slotVer,   \* segment -> slot -> pairs that may be on the medium
          entryVer,  \* entry of the first directory -> segments, likewise
          depthVer,  \* segment -> local depths, likewise
          th,        \* thread -> what it is doing
          abs,       \* key -> value, NONE if it was never inserted
          seen,      \* thread -> the values its key had during the call
          mode,      \* "grow": a directory that may double; "wide": one that
                     \* is as large as it can be; "single": such a one, and
                     \* one call at a time
          ops

memory == <<dir, dirs, segs, made>>
medium == <<slotVer, entryVer, depthVer>>
vars == <<memory, medium, th, abs, seen, mode, ops>>

Idle == [pc |-> "idle", op |-> "none", k |-> 0, x |-> 0, t |-> 0, loc |-> 0,
         ld |-> 0, val |-> 0, s |-> 0, todo |-> <<>>, got |-> NONE]

(* The first d bits of a hash of MaxDepth bits.                            *)
Prefix(h, d) == h \div 2^(MaxDepth - d)
Bit(h, d) == Prefix(h, d + 1) % 2

(* The slots an insert or a search tries, in order.                        *)
Tried(k) == [i \in 1..(2 * Probe) |-> IF i <= Probe THEN (First[k] + i - 1) % kNumSlot
                                      ELSE (Second[k] + i - Probe - 1) % kNumSlot]
Around(start) == [i \in 1..Probe |-> (start + i - 1) % kNumSlot]

(* A slot of a segment of local depth l is free for keys like k if it is   *)
(* unused, or its key belongs to another segment.                          *)
Free(p, l, k) ==
  /\ p.key # SENTINEL
  /\ p.key = INVALID \/ Prefix(Bits[p.key], l) # Prefix(Bits[k], l)

Room(seg, k) == {i \in 1..(2 * Probe) : Free(seg.pair[Tried(k)[i]], seg.local_depth, k)}
Least(xs) == CHOOSE x \in xs : \A y \in xs : x <= y

(* Value found in a segment, by the order of the slots tried.              *)
Found(pair, k) ==
  LET hits == {i \in 1..(2 * Probe) : pair[Tried(k)[i]].key = k}
  IN IF hits = {} THEN NONE ELSE pair[Tried(k)[Least(hits)]].value

-----------------------------------------------------------------------------
(* Insert4split, at the first slot of the hash, then of the second one; a  *)
(* pair that finds no room at either is dropped.                           *)
Insert4split(pair, p, start) ==
  LET room == {i \in 1..Probe : pair[Around(start)[i]].key = INVALID}
  IN IF room = {} THEN pair ELSE [pair EXCEPT ![Around(start)[Least(room)]] = p]

Move(pair, p) ==
  LET one == Insert4split(pair, p, First[p.key])
  IN IF one # pair THEN one ELSE Insert4split(pair, p, Second[p.key])

(* Split: the pairs whose next bit is set are copied to a new segment.     *)
Moved(seg) ==
  LET go[n \in 0..kNumSlot] ==
        IF n = 0 THEN [i \in Slots |-> Empty]
        ELSE IF /\ seg.pair[n - 1].key \in Keys
                /\ Bit(Bits[seg.pair[n - 1].key], seg.local_depth) = 1
             THEN Move(go[n - 1], seg.pair[n - 1])
             ELSE go[n - 1]
  IN go[kNumSlot]

initSegment(pair, d) == [pair |-> pair, sema |-> 0, local_depth |-> d]

-----------------------------------------------------------------------------
At(t, s) == th[t].pc = s
Goto(t, s) == th' = [th EXCEPT ![t].pc = s]
Here(t) == segs[th[t].t]
Calm == UNCHANGED <<medium, abs, seen, mode, ops>>

Begin(t) ==
  /\ At(t, "idle") /\ ops < MaxOps
  /\ mode # "single" \/ \A u \in Threads : At(u, "idle")
  /\ \E op \in {"insert", "get"}, k \in Called[mode] :
       /\ op = "insert" => abs[k] = NONE /\ \A u \in Threads : th[u].k # k \/ th[u].op # "insert"
       /\ th' = [th EXCEPT ![t] = [Idle EXCEPT !.pc = IF op = "get" THEN "wait" ELSE "retry",
                                               !.op = op, !.k = k]]
       /\ seen' = [seen EXCEPT ![t] = {abs[k]}]
  /\ ops' = ops + 1
  /\ UNCHANGED <<memory, medium, abs, mode>>

Return(t) ==
  /\ At(t, "return")
  /\ th' = [th EXCEPT ![t] = Idle]
  /\ seen' = [seen EXCEPT ![t] = {}]
  /\ UNCHANGED <<memory, medium, abs, mode, ops>>

(* Get waits while the directory is being doubled.                         *)
Wait(t) ==
  /\ At(t, "wait") /\ dirs[dir].sema >= 0
  /\ Goto(t, "retry")
  /\ UNCHANGED memory /\ Calm

Again(t) == IF th[t].op = "get" THEN "wait" ELSE "retry"

(* dir is read for the depth, and again for the entry.                     *)
ReadDepth(t) ==
  /\ At(t, "retry") \/ At(t, "check")
  /\ th' = [th EXCEPT ![t].x = Prefix(Bits[th[t].k], dirs[dir].depth),
                      ![t].pc = IF At(t, "retry") THEN "target" ELSE "compare"]
  /\ UNCHANGED memory /\ Calm

ReadTarget(t) ==
  /\ At(t, "target")
  /\ th' = [th EXCEPT ![t].t = dirs[dir].segment[th[t].x], ![t].pc = "lock"]
  /\ UNCHANGED memory /\ Calm

(* Segment::lock                                                           *)
Lock(t) ==
  /\ At(t, "lock")
  /\ IF Here(t).sema > -1
     THEN segs' = [segs EXCEPT ![th[t].t].sema = @ + 1] /\ Goto(t, "check")
     ELSE Goto(t, Again(t)) /\ UNCHANGED segs
  /\ UNCHANGED <<dir, dirs, made>> /\ Calm

Unlocked(t) == [segs EXCEPT ![th[t].t].sema = @ - 1]

(* Mutant of Compare: a search does not look at the directory again.       *)
Compare_GetTrusts(t) ==
  /\ At(t, "compare")
  /\ IF th[t].op = "get" \/ th[t].t = dirs[dir].segment[th[t].x]
     THEN Goto(t, IF th[t].op = "get" THEN "scan" ELSE "claim") /\ UNCHANGED segs
     ELSE Goto(t, Again(t)) /\ segs' = Unlocked(t)
  /\ UNCHANGED <<dir, dirs, made>> /\ Calm

(* The segment must still be the one the directory names.                  *)
Compare(t) ==
  /\ At(t, "compare")
  /\ IF th[t].t = dirs[dir].segment[th[t].x]
     THEN Goto(t, IF th[t].op = "get" THEN "scan" ELSE "claim") /\ UNCHANGED segs
     ELSE Goto(t, Again(t)) /\ segs' = Unlocked(t)
  /\ UNCHANGED <<dir, dirs, made>> /\ Calm

Scan(t) ==
  /\ At(t, "scan")
  /\ th' = [th EXCEPT ![t].got = Found(Here(t).pair, th[t].k), ![t].pc = "return"]
  /\ segs' = Unlocked(t)
  /\ UNCHANGED <<dir, dirs, made>> /\ Calm

-----------------------------------------------------------------------------
(* A store to a slot, which may reach the medium from now on.              *)
Put(t, s, i, p) ==
  /\ segs' = [segs EXCEPT ![s].pair[i] = p]
  /\ slotVer' = [slotVer EXCEPT ![s][i] = @ \cup {p}]
  /\ UNCHANGED <<dir, dirs, made, entryVer, depthVer, mode, ops>>

(* The slot is claimed by compare-and-swap; without one the segment is     *)
(* full.                                                                   *)
Claim(t) ==
  /\ At(t, "claim") /\ Room(Here(t), th[t].k) # {}
  /\ LET i == Tried(th[t].k)[Least(Room(Here(t), th[t].k))]
     IN /\ Put(t, th[t].t, i, [Here(t).pair[i] EXCEPT !.key = SENTINEL])
        /\ th' = [th EXCEPT ![t].loc = i, ![t].pc = "value"]
  /\ UNCHANGED <<abs, seen>>

StoreValue(t) ==
  /\ At(t, "value")
  /\ Put(t, th[t].t, th[t].loc, [key |-> SENTINEL, value |-> th[t].k])
  /\ Goto(t, "key")
  /\ UNCHANGED <<abs, seen>>

StoreKey(t) ==
  /\ At(t, "key")
  /\ Put(t, th[t].t, th[t].loc, [key |-> th[t].k, value |-> th[t].k])
  /\ Goto(t, "persist")
  /\ abs' = [abs EXCEPT ![th[t].k] = th[t].k]
  /\ seen' = [u \in Threads |-> IF th[u].k = th[t].k /\ ~At(u, "idle") THEN seen[u] \cup {th[t].k} ELSE seen[u]]

PersistPair(t) ==
  /\ At(t, "persist")
  /\ slotVer' = [slotVer EXCEPT ![th[t].t][th[t].loc] = {Here(t).pair[th[t].loc]}]
  /\ Goto(t, "unlock")
  /\ UNCHANGED <<memory, entryVer, depthVer, abs, seen, mode, ops>>

Unlock(t) ==
  /\ At(t, "unlock")
  /\ segs' = Unlocked(t)
  /\ Goto(t, "return")
  /\ UNCHANGED <<dir, dirs, made>> /\ Calm

(* A full segment: its depth is read and it is unlocked, to be suspended.  *)
Full(t) ==
  /\ At(t, "claim") /\ Room(Here(t), th[t].k) = {}
  /\ th' = [th EXCEPT ![t].ld = Here(t).local_depth, ![t].pc = "suspend"]
  /\ segs' = Unlocked(t)
  /\ UNCHANGED <<dir, dirs, made>> /\ Calm

(* Segment::suspend: the threads inside are waited for.                    *)
Suspend(t) ==
  /\ At(t, "suspend")
  /\ IF Here(t).sema < 0 THEN Goto(t, "retry") /\ UNCHANGED segs
     ELSE /\ segs' = [segs EXCEPT ![th[t].t].sema = -1]
          /\ th' = [th EXCEPT ![t].val = Here(t).sema, ![t].pc = "drain"]
  /\ UNCHANGED <<dir, dirs, made>> /\ Calm

(* Then the segment is split unless another thread has done it.            *)
Drained(t) ==
  /\ At(t, "drain") /\ Here(t).sema = -1 - th[t].val
  /\ IF Here(t).local_depth = th[t].ld THEN Goto(t, "split") /\ UNCHANGED segs
     ELSE Goto(t, "retry") /\ segs' = [segs EXCEPT ![th[t].t].sema = 0]
  /\ UNCHANGED <<dir, dirs, made>> /\ Calm

Split(t) ==
  /\ At(t, "split") /\ made < MaxSegs
  /\ made' = made + 1
  /\ segs' = [segs EXCEPT ![made'] = initSegment(Moved(Here(t)), Here(t).local_depth + 1)]
  /\ slotVer' = [slotVer EXCEPT ![made'] = [i \in Slots |-> {segs'[made'].pair[i]}]]
  /\ depthVer' = [depthVer EXCEPT ![made'] = {segs'[made'].local_depth}]
  /\ th' = [th EXCEPT ![t].s = made', ![t].pc = "dir"]
  /\ UNCHANGED <<dir, dirs, entryVer, abs, seen, mode, ops>>

-----------------------------------------------------------------------------
(* DIR_RETRY: a segment as deep as the directory needs a larger one.       *)
Deep(t) ==
  /\ At(t, "dir")
  /\ Goto(t, IF Here(t).local_depth = dirs[dir].depth THEN "dir_suspend" ELSE "dir_lock")
  /\ UNCHANGED memory /\ Calm

DirSuspend(t) ==
  /\ At(t, "dir_suspend")
  /\ IF dirs[dir].sema < 0 THEN Goto(t, "dir") /\ UNCHANGED dirs
     ELSE /\ dirs' = [dirs EXCEPT ![dir].sema = -1]
          /\ th' = [th EXCEPT ![t].val = dirs[dir].sema, ![t].pc = "dir_drain"]
  /\ UNCHANGED <<dir, segs, made>> /\ Calm

(* The new directory names every segment twice, the split one and the new  *)
(* one once each; then dir is switched.  The old one stays suspended.      *)
Doubled(d, x, s0, s1) ==
  [depth |-> d.depth + 1, sema |-> 0,
   segment |-> [i \in 0..(2^(d.depth + 1) - 1) |->
                  IF i \div 2 = x THEN (IF i % 2 = 0 THEN s0 ELSE s1) ELSE d.segment[i \div 2]]]

Double(t) ==
  /\ At(t, "dir_drain") /\ dirs[dir].sema = -1 - th[t].val /\ dirs[dir].depth < MaxDepth
  /\ dirs' = Append(dirs, Doubled(dirs[dir], Prefix(Bits[th[t].k], dirs[dir].depth), th[t].t, th[t].s))
  /\ dir' = Len(dirs')
  /\ Goto(t, "deepen")
  /\ UNCHANGED <<segs, made>> /\ Calm

DirLock(t) ==
  /\ At(t, "dir_lock") /\ dirs[dir].sema > -1
  /\ dirs' = [dirs EXCEPT ![dir].sema = @ + 1]
  /\ Goto(t, "range")
  /\ UNCHANGED <<dir, segs, made>> /\ Calm

(* The entries of the upper half of the segment's range, to be set.        *)
UpperHalf(x, stride) == [i \in 1..(stride \div 2) |-> x - (x % stride) + (stride \div 2) + i - 1]

LinkRange(t) ==
  /\ At(t, "range")
  /\ th' = [th EXCEPT ![t].todo = UpperHalf(Prefix(Bits[th[t].k], dirs[dir].depth), 2^(dirs[dir].depth - th[t].ld)),
                      ![t].pc = "link"]
  /\ UNCHANGED memory /\ Calm

Link(t) ==
  /\ At(t, "link") /\ th[t].todo # <<>>
  /\ dirs' = [dirs EXCEPT ![dir].segment[Head(th[t].todo)] = th[t].s]
  /\ entryVer' = IF dir = 1 THEN [entryVer EXCEPT ![Head(th[t].todo)] = @ \cup {th[t].s}] ELSE entryVer
  /\ th' = [th EXCEPT ![t].todo = Tail(@)]
  /\ UNCHANGED <<dir, segs, made, slotVer, depthVer, abs, seen, mode, ops>>

(* Mutant of DirUnlock: the entries are not persisted.                     *)
DirUnlock_Unflushed(t) ==
  /\ At(t, "link") /\ th[t].todo = <<>>
  /\ dirs' = [dirs EXCEPT ![dir].sema = @ - 1]
  /\ Goto(t, "deepen")
  /\ UNCHANGED <<dir, segs, made>> /\ Calm

DirUnlock(t) ==
  /\ At(t, "link") /\ th[t].todo = <<>>
  /\ entryVer' = IF dir = 1 THEN [i \in DOMAIN entryVer |-> {dirs[1].segment[i]}] ELSE entryVer
  /\ dirs' = [dirs EXCEPT ![dir].sema = @ - 1]
  /\ Goto(t, "deepen")
  /\ UNCHANGED <<dir, segs, made, slotVer, depthVer, abs, seen, mode, ops>>

(* The split segment gets its new depth, which makes room in it.           *)
Deepen(t) ==
  /\ At(t, "deepen")
  /\ segs' = [segs EXCEPT ![th[t].t].local_depth = @ + 1]
  /\ depthVer' = [depthVer EXCEPT ![th[t].t] = @ \cup {Here(t).local_depth + 1}]
  /\ Goto(t, "persist_depth")
  /\ UNCHANGED <<dir, dirs, made, slotVer, entryVer, abs, seen, mode, ops>>

PersistDepth(t) ==
  /\ At(t, "persist_depth")
  /\ depthVer' = [depthVer EXCEPT ![th[t].t] = {Here(t).local_depth}]
  /\ Goto(t, "release")
  /\ UNCHANGED <<memory, slotVer, entryVer, abs, seen, mode, ops>>

(* Mutant of Release: the segment stays suspended.                         *)
Release_Keeps(t) ==
  /\ At(t, "release") /\ Goto(t, "retry")
  /\ UNCHANGED memory /\ Calm

Release(t) ==
  /\ At(t, "release")
  /\ segs' = [segs EXCEPT ![th[t].t].sema = 0]
  /\ Goto(t, "retry")
  /\ UNCHANGED <<dir, dirs, made>> /\ Calm

-----------------------------------------------------------------------------
Step(t) ==
  \/ Wait(t) \/ ReadDepth(t) \/ ReadTarget(t) \/ Lock(t) \/ Compare(t) \/ Scan(t)
  \/ Claim(t) \/ StoreValue(t) \/ StoreKey(t) \/ PersistPair(t) \/ Unlock(t)
  \/ Full(t) \/ Suspend(t) \/ Drained(t) \/ Split(t) \/ Deep(t) \/ DirSuspend(t) \/ Double(t)
  \/ DirLock(t) \/ LinkRange(t) \/ Link(t) \/ DirUnlock(t) \/ Deepen(t) \/ PersistDepth(t)
  \/ Release(t) \/ Return(t)

Next == \E t \in Threads : Begin(t) \/ Step(t)

-----------------------------------------------------------------------------
(* Get in a memory that does not change.                                   *)
Lookup(d, pairs, k) == Found(pairs[d.segment[Prefix(Bits[k], d.depth)]], k)

(* Recovery, on the entries of a directory of some depth and the local     *)
(* depths of the segments: an entry of a range that begins with a segment  *)
(* of another depth is set to that segment; the last range is left as is.  *)
Recovery(d, depth) ==
  LET cap == 2^d.depth
      go[i \in 0..cap, seg \in [0..(cap - 1) -> Ids]] ==
        LET stride == 2^(d.depth - depth[seg[i]])
        IN IF i >= cap \/ i + stride = cap THEN seg
           ELSE go[i + stride, [j \in 0..(cap - 1) |->
                  IF j > i /\ j < i + stride /\ depth[seg[j]] # depth[seg[i]] THEN seg[i] ELSE seg[j]]]
  IN [d EXCEPT !.segment = go[0, d.segment]]

(* Three segments with two pairs at most: 1 for the hashes that begin with *)
(* 0, of local depth 1, and 2 and 3 for those with 10 and 11, of local     *)
(* depth 2.                                                                *)
Filled(keys, d) ==
  initSegment([i \in Slots |-> IF i < Len(keys) THEN [key |-> keys[i + 1], value |-> keys[i + 1]] ELSE Empty], d)
Start == <<Filled(<<1, 2>>, 1), Filled(<<4, 5>>, 2), Filled(<<7>>, 2)>>

Directory(d) ==
  [depth |-> d, sema |-> 0,
   segment |-> [i \in 0..(2^d - 1) |-> IF i < 2^(d - 1) THEN 1 ELSE i \div 2^(d - 2)]]

Init ==
  /\ mode \in DOMAIN Called
  /\ dirs = <<Directory(IF mode = "grow" THEN 2 ELSE MaxDepth)>>
  /\ dir = 1
  /\ made = Len(Start)
  /\ segs = [s \in Ids |-> IF s <= made THEN Start[s] ELSE initSegment([i \in Slots |-> Empty], 0)]
  /\ slotVer = [s \in Ids |-> [i \in Slots |-> {segs[s].pair[i]}]]
  /\ entryVer = [i \in DOMAIN dirs[1].segment |-> {dirs[1].segment[i]}]
  /\ depthVer = [s \in Ids |-> {segs[s].local_depth}]
  /\ th = [t \in Threads |-> Idle]
  /\ abs = [k \in Keys |-> Lookup(dirs[1], [s \in Ids |-> segs[s].pair], k)]
  /\ seen = [t \in Threads |-> {}]
  /\ ops = 0

InFlight(k) == \E t \in Threads : th[t].op = "insert" /\ th[t].k = k

(* What the medium may hold of f: a version of each of its values.         *)
Several(ver) == {x \in DOMAIN ver : Cardinality(ver[x]) > 1}
Images(f, ver) ==
  {[x \in DOMAIN f |-> IF x \in DOMAIN g THEN g[x] ELSE f[x]] :
     g \in {h \in [Several(ver) -> UNION {ver[x] : x \in Several(ver)}] : \A x \in Several(ver) : h[x] \in ver[x]}}
-----------------------------------------------------------------------------
Spec == Init /\ [][Next]_vars /\ \A t \in Threads : WF_vars(Step(t))

(* Whatever splits and doublings are under way, a search that starts from  *)
(* the directory as it is finds every key that was inserted, and none      *)
(* that was not.                                                           *)
TableHoldsMap ==
  \A k \in Keys : Lookup(dirs[dir], [s \in Ids |-> segs[s].pair], k) = abs[k]

(* Get, which reads the directory twice and may wait for a split, returns  *)
(* a value its key had at some moment of the call.                         *)
GetIsCurrent ==
  \A t \in Threads : At(t, "return") /\ th[t].op = "get" => th[t].got \in seen[t]

(* The table is the map, for a search that starts now and for the ones     *)
(* under way.                                                              *)
MapIsKept == TableHoldsMap /\ GetIsCurrent

(* As long as the directory is not doubled, and calls do not overlap, no   *)
(* crash loses a key: Recovery finds each in the versions the medium may   *)
(* hold, but for the key of an insert that has not returned.               *)
CrashKeepsKeys ==
  mode = "single" /\ dir = 1 =>
    \A e \in Images(dirs[1].segment, entryVer),
       d \in Images([s \in Ids |-> segs[s].local_depth], depthVer), s \in 1..made :
      \A p \in Images(segs[s].pair, slotVer[s]), k \in Keys :
        Lookup(Recovery([dirs[1] EXCEPT !.segment = e], d),
               [u \in Ids |-> IF u = s THEN p ELSE segs[u].pair], k)
          \in {abs[k]} \cup (IF InFlight(k) THEN {k, NONE} ELSE {})

(* Every call returns.                                                     *)
CallsReturn == \A t \in Threads : ~At(t, "idle") ~> At(t, "idle")
=============================================================================
