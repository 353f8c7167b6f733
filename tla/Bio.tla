-------------------------------- MODULE Bio ---------------------------------
(***************************************************************************)
(* The buffer cache (kernel/bio.c) with its sleep locks                    *)
(* (kernel/sleeplock.c).  Each section under bcache.lock, and each section *)
(* under the spin lock of a sleep lock, is one step.  A process uses one   *)
(* buffer at a time; a buffer it has changed it either writes to the disk  *)
(* or pins, as log_write() does, and a pin goes once the block is on disk. *)
(***************************************************************************)
EXTENDS Integers, FiniteSets

CONSTANTS
  Procs,    \* processes
  Blocks,   \* disk blocks
  Data,     \* contents of a block
  NBUF,     \* buffers
  MaxPins,  \* most blocks pinned at a time: the size of the log
  NoBlock,  \* b->blockno of a buffer never used: dev 0 matches no block
  Nobody    \* the holder of a free sleep lock

BioAssumption ==
  /\ NBUF \in Nat \ {0} /\ MaxPins \in Nat /\ IsFiniteSet(Procs)
  /\ NoBlock \notin Blocks /\ Nobody \notin Procs

VARIABLES
  blockno,  \* b->blockno
  valid,    \* b->valid
  refcnt,   \* b->refcnt
  holder,   \* b->lock: the process that has locked it
  data,     \* b->data
  lru,      \* the list from head.next, most recently used first
  disk,     \* the blocks on the disk
  pc,       \* where the process is
  cur,      \* the buffer it works on
  pinned,   \* buffers pinned by the log
  latest,   \* the contents each block was last given by a process
  panic     \* bget() found no buffer

vars == <<blockno, valid, refcnt, holder, data, lru, disk, pc, cur, pinned,
          latest, panic>>

Bufs == 1 .. NBUF

cacheVars == <<blockno, valid, refcnt, lru, pinned>>

-----------------------------------------------------------------------------
\* binit(): every buffer is put at the front of the list, so the last is first.
Init ==
  /\ blockno = [x \in Bufs |-> NoBlock]
  /\ valid = [x \in Bufs |-> FALSE]
  /\ refcnt = [x \in Bufs |-> 0]
  /\ holder = [x \in Bufs |-> Nobody]
  /\ data \in {[x \in Bufs |-> d] : d \in Data}
  /\ lru = [i \in Bufs |-> NBUF - i + 1]
  /\ disk \in {[b \in Blocks |-> d] : d \in Data}
  /\ pc = [p \in Procs |-> "idle"]
  /\ cur = [p \in Procs |-> 0]
  /\ pinned = {}
  /\ latest = disk
  /\ panic = FALSE

-----------------------------------------------------------------------------
(* bget() *)

\* A lookup that overlooks buffers whose contents are still being read.
CachedAndValid(b) == {x \in Bufs : blockno[x] = b /\ valid[x]}

\* The buffers that hold block b.
Cached(b) == {x \in Bufs : blockno[x] = b}

\* A hit that takes no reference.
HitUncounted(p, x) ==
  /\ cur' = [cur EXCEPT ![p] = x]
  /\ UNCHANGED <<blockno, valid, refcnt, lru, pinned, panic>>

\* b->refcnt++.
Hit(p, x) ==
  /\ refcnt' = [refcnt EXCEPT ![x] = @ + 1]
  /\ cur' = [cur EXCEPT ![p] = x]
  /\ UNCHANGED <<blockno, valid, lru, pinned, panic>>

\* Recycling that leaves b->valid as it was.
MissStaysValid(p, b, x) ==
  /\ blockno' = [blockno EXCEPT ![x] = b]
  /\ refcnt' = [refcnt EXCEPT ![x] = 1]
  /\ cur' = [cur EXCEPT ![p] = x]
  /\ UNCHANGED <<valid, lru, pinned, panic>>

\* Recycle buffer x for block b.
Miss(p, b, x) ==
  /\ blockno' = [blockno EXCEPT ![x] = b]
  /\ valid' = [valid EXCEPT ![x] = FALSE]
  /\ refcnt' = [refcnt EXCEPT ![x] = 1]
  /\ cur' = [cur EXCEPT ![p] = x]
  /\ UNCHANGED <<lru, pinned, panic>>

\* Positions of the unused buffers in the list.
Unused == {i \in DOMAIN lru : refcnt[lru[i]] = 0}

\* The first hit from the front; otherwise the last unused buffer of the
\* list; otherwise panic("bget: no buffers").
Bget(p, b) ==
  /\ pc[p] = "idle" /\ ~panic
  /\ IF Cached(b) # {}
     THEN /\ \E x \in Cached(b) : Hit(p, x)
          /\ pc' = [pc EXCEPT ![p] = "lock"]
     ELSE IF Unused # {}
     THEN /\ \E i \in Unused : (\A j \in Unused : j <= i) /\ Miss(p, b, lru[i])
          /\ pc' = [pc EXCEPT ![p] = "lock"]
     ELSE /\ panic' = TRUE
          /\ UNCHANGED <<cacheVars, cur, pc>>
  /\ UNCHANGED <<holder, data, disk, latest>>

-----------------------------------------------------------------------------
(* acquiresleep() and the rest of bread() *)

\* A process woken up takes the lock without testing it again.
AcquireSleepOnce(p) ==
  LET x == cur[p] IN
  /\ pc[p] \in {"lock", "retry"} /\ ~panic
  /\ IF holder[x] = Nobody \/ pc[p] = "retry"
     THEN /\ holder' = [holder EXCEPT ![x] = p]
          /\ pc' = [pc EXCEPT ![p] = "locked"]
     ELSE /\ pc' = [pc EXCEPT ![p] = "asleep"]
          /\ UNCHANGED holder
  /\ UNCHANGED <<cacheVars, data, disk, cur, latest, panic>>

\* while(lk->locked) sleep(lk, &lk->lk).
AcquireSleep(p) ==
  LET x == cur[p] IN
  /\ pc[p] \in {"lock", "retry"} /\ ~panic
  /\ IF holder[x] = Nobody
     THEN /\ holder' = [holder EXCEPT ![x] = p]
          /\ pc' = [pc EXCEPT ![p] = "locked"]
     ELSE /\ pc' = [pc EXCEPT ![p] = "asleep"]
          /\ UNCHANGED holder
  /\ UNCHANGED <<cacheVars, data, disk, cur, latest, panic>>

\* Valid data, or virtio_disk_rw(b, 0) and b->valid = 1.
Bread(p) ==
  LET x == cur[p] IN
  /\ pc[p] = "locked" /\ ~panic
  /\ data' = [data EXCEPT ![x] = IF valid[x] THEN @ ELSE disk[blockno[x]]]
  /\ valid' = [valid EXCEPT ![x] = TRUE]
  /\ pc' = [pc EXCEPT ![p] = "clean"]
  /\ UNCHANGED <<blockno, refcnt, lru, pinned, holder, disk, cur, latest, panic>>

-----------------------------------------------------------------------------
(* The users of a buffer *)

\* The caller changes the data of the buffer it holds.
Modify(p, d) ==
  LET x == cur[p] IN
  /\ pc[p] = "clean" /\ ~panic
  /\ data' = [data EXCEPT ![x] = d]
  /\ latest' = [latest EXCEPT ![blockno[x]] = d]
  /\ pc' = [pc EXCEPT ![p] = "dirty"]
  /\ UNCHANGED <<cacheVars, holder, disk, cur, panic>>

\* bwrite(): virtio_disk_rw(b, 1).
Bwrite(p) ==
  LET x == cur[p] IN
  /\ pc[p] \in {"clean", "dirty"} /\ ~panic
  /\ disk' = [disk EXCEPT ![blockno[x]] = data[x]]
  /\ pc' = [pc EXCEPT ![p] = "clean"]
  /\ UNCHANGED <<cacheVars, holder, data, cur, latest, panic>>

\* A pin that takes no reference.
BpinUncounted(p) ==
  LET x == cur[p] IN
  /\ pc[p] = "dirty" /\ ~panic
  /\ x \in pinned \/ Cardinality(pinned) < MaxPins
  /\ pinned' = pinned \cup {x}
  /\ pc' = [pc EXCEPT ![p] = "clean"]
  /\ UNCHANGED <<blockno, valid, refcnt, lru, holder, data, disk, cur, latest, panic>>

\* bpin() by log_write(), for a block not in the log yet.
Bpin(p) ==
  LET x == cur[p] IN
  /\ pc[p] = "dirty" /\ ~panic
  /\ x \in pinned \/ Cardinality(pinned) < MaxPins
  /\ refcnt' = [refcnt EXCEPT ![x] = IF x \in pinned THEN @ ELSE @ + 1]
  /\ pinned' = pinned \cup {x}
  /\ pc' = [pc EXCEPT ![p] = "clean"]
  /\ UNCHANGED <<blockno, valid, lru, holder, data, disk, cur, latest, panic>>

\* An unpin that keeps the reference.
BunpinUncounted(p) ==
  LET x == cur[p] IN
  /\ pc[p] = "clean" /\ x \in pinned /\ disk[blockno[x]] = data[x] /\ ~panic
  /\ pinned' = pinned \ {x}
  /\ UNCHANGED <<blockno, valid, refcnt, lru, holder, data, disk, pc, cur, latest, panic>>

\* bunpin() by install_trans(), after bwrite() and with the buffer locked.
Bunpin(p) ==
  LET x == cur[p] IN
  /\ pc[p] = "clean" /\ x \in pinned /\ disk[blockno[x]] = data[x] /\ ~panic
  /\ refcnt' = [refcnt EXCEPT ![x] = @ - 1]
  /\ pinned' = pinned \ {x}
  /\ UNCHANGED <<blockno, valid, lru, holder, data, disk, pc, cur, latest, panic>>

-----------------------------------------------------------------------------
(* brelse() *)

\* releasesleep() that wakes nobody.
ReleaseQuietly(p) ==
  /\ holder' = [holder EXCEPT ![cur[p]] = Nobody]
  /\ pc' = [pc EXCEPT ![p] = "put"]

\* releasesleep(): unlock, and wake everybody asleep on this lock.
ReleaseSleep(p) ==
  /\ holder' = [holder EXCEPT ![cur[p]] = Nobody]
  /\ pc' = [q \in Procs |-> IF q = p THEN "put"
                            ELSE IF pc[q] = "asleep" /\ cur[q] = cur[p] THEN "retry"
                            ELSE pc[q]]

Brelse(p) ==
  /\ pc[p] = "clean" /\ ~panic
  /\ ReleaseSleep(p)
  /\ UNCHANGED <<cacheVars, data, disk, cur, latest, panic>>

\* The list s with x taken out of its place and put at the front.
MoveToFront(s, x) ==
  LET k == CHOOSE k \in DOMAIN s : s[k] = x IN
  [i \in DOMAIN s |-> IF i = 1 THEN x ELSE IF i <= k THEN s[i - 1] ELSE s[i]]

\* b->refcnt--, and a buffer nobody refers to moves to the front of the list.
BrelsePut(p) ==
  LET x == cur[p] IN
  /\ pc[p] = "put" /\ ~panic
  /\ refcnt' = [refcnt EXCEPT ![x] = @ - 1]
  /\ lru' = IF refcnt'[x] = 0 THEN MoveToFront(lru, x) ELSE lru
  /\ pc' = [pc EXCEPT ![p] = "idle"]
  /\ cur' = [cur EXCEPT ![p] = 0]
  /\ UNCHANGED <<blockno, valid, pinned, holder, data, disk, latest, panic>>

-----------------------------------------------------------------------------
Next == \E p \in Procs :
  \/ \E b \in Blocks : Bget(p, b)
  \/ \E d \in Data : Modify(p, d)
  \/ AcquireSleep(p) \/ Bread(p) \/ Bwrite(p) \/ Bpin(p) \/ Bunpin(p)
  \/ Brelse(p) \/ BrelsePut(p)

Spec == Init /\ [][Next]_vars

-----------------------------------------------------------------------------
(* Properties *)

\* Types; the list always holds every buffer once.
TypeOK ==
  /\ blockno \in [Bufs -> Blocks \cup {NoBlock}]
  /\ valid \in [Bufs -> BOOLEAN]
  /\ refcnt \in [Bufs -> Nat]
  /\ holder \in [Bufs -> Procs \cup {Nobody}]
  /\ data \in [Bufs -> Data]
  /\ lru \in [Bufs -> Bufs] /\ \A i, j \in Bufs : lru[i] = lru[j] => i = j
  /\ disk \in [Blocks -> Data]
  /\ pc \in [Procs -> {"idle", "lock", "asleep", "retry", "locked", "clean",
                       "dirty", "put"}]
  /\ cur \in [Procs -> 0 .. NBUF]
  /\ pinned \in SUBSET Bufs
  /\ latest \in [Blocks -> Data]
  /\ panic \in BOOLEAN

\* A block is in one buffer at most, also while two processes that missed it
\* at the same time fetch it: bget() is a synchronization point for a block.
OneBufferPerBlock ==
  \A x, y \in Bufs : blockno[x] = blockno[y] /\ blockno[x] # NoBlock => x = y

\* refcnt is exactly the number of processes between bget() and the end of
\* brelse() plus the pin of the log, so that no buffer in use is recycled.
RefcntIsExact ==
  \A x \in Bufs :
    refcnt[x] = Cardinality({p \in Procs : cur[p] = x})
                + (IF x \in pinned THEN 1 ELSE 0)

\* "Only one process at a time can use a buffer."
OneUserPerBuffer ==
  \A p \in Procs : pc[p] \in {"locked", "clean", "dirty"} => holder[cur[p]] = p

\* A process that has read a block sees what the last process left in it,
\* wherever that is: in the buffer, on the disk, or pinned in the cache.
SeesLatest ==
  \A p \in Procs : pc[p] \in {"clean", "dirty"} => data[cur[p]] = latest[blockno[cur[p]]]

\* releasesleep() forgets nobody: a process sleeps only for a locked buffer.
SleepersWaitForHolder ==
  \A p \in Procs : pc[p] = "asleep" => holder[cur[p]] # Nobody

\* bget() finds a buffer as long as there is one for each process and each
\* block of the log.
NoPanic == Cardinality(Procs) + MaxPins <= NBUF => ~panic

\* The cache as bget(), brelse(), bpin() and bunpin() keep it: one buffer per
\* block, exact counts, and always a buffer to recycle.
CacheIsExact == OneBufferPerBlock /\ RefcntIsExact /\ NoPanic

\* acquiresleep() and releasesleep(): one process uses a buffer, and the
\* others sleep only while it does.
LockIsExclusive == OneUserPerBuffer /\ SleepersWaitForHolder
=============================================================================
