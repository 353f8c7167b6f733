----------------------------- MODULE BioProofs ------------------------------
(***************************************************************************)
(* Proofs about Bio for any number of processes, blocks and buffers: the   *)
(* cache holds a block once, counts its users exactly, always has a buffer *)
(* to recycle when there are enough of them, and never shows stale data.   *)
(***************************************************************************)
EXTENDS Bio, TLAPS, FiniteSetTheorems

-----------------------------------------------------------------------------
(* The inductive invariant *)

Users(x) == {p \in Procs : cur[p] = x}

Using == {"locked", "clean", "dirty"}

\* Every buffer is in the list.
ListInv == \A x \in Bufs : \E i \in Bufs : lru[i] = x

\* A process has a buffer, of some block, but for the time between its calls;
\* a buffer that is in use or pinned has been read.
UseInv ==
  /\ \A p \in Procs :
       /\ pc[p] = "idle" <=> cur[p] = 0
       /\ cur[p] # 0 => blockno[cur[p]] \in Blocks
       /\ pc[p] \in {"clean", "dirty"} => valid[cur[p]]
  /\ \A x \in pinned : blockno[x] \in Blocks /\ valid[x]
  /\ Cardinality(pinned) <= MaxPins

LockInv ==
  /\ \A x \in Bufs, p \in Procs : holder[x] = p <=> cur[p] = x /\ pc[p] \in Using
  /\ SleepersWaitForHolder

\* Nobody has changed buffer x since its block was last on the disk.
Clean(x) == x \notin pinned /\ \A p \in Procs : cur[p] = x => pc[p] # "dirty"

\* The last contents of a block are in its buffer, once that is valid, and on
\* the disk, unless its buffer is pinned or about to be written or pinned.
DataInv ==
  /\ \A b \in Blocks : Cached(b) = {} => disk[b] = latest[b]
  /\ \A x \in Bufs : blockno[x] \in Blocks =>
       /\ valid[x] => data[x] = latest[blockno[x]]
       /\ Clean(x) => disk[blockno[x]] = latest[blockno[x]]

Inv ==
  /\ TypeOK /\ ListInv /\ OneBufferPerBlock /\ RefcntIsExact /\ NoPanic
  /\ UseInv /\ LockInv /\ DataInv

-----------------------------------------------------------------------------
(* The list and the counts *)

\* A list that has every buffer once.
Ordering(s) ==
  /\ s \in [Bufs -> Bufs] /\ \A i, j \in Bufs : s[i] = s[j] => i = j
  /\ \A y \in Bufs : \E i \in Bufs : s[i] = y

\* Moving a buffer to the front keeps every buffer in the list, once.
LEMMA MoveToFrontKeeps ==
  ASSUME NBUF \in Nat \ {0}, NEW s, Ordering(s), NEW x \in Bufs
  PROVE  Ordering(MoveToFront(s, x))
<1>0. /\ s \in [Bufs -> Bufs] /\ (\A i, j \in Bufs : s[i] = s[j] => i = j)
      /\ \A y \in Bufs : \E i \in Bufs : s[i] = y
  BY DEF Ordering
<1>. USE <1>0
<1>. DEFINE k == CHOOSE k \in DOMAIN s : s[k] = x
<1>. DEFINE m == MoveToFront(s, x)
<1>1. k \in Bufs /\ s[k] = x
  OBVIOUS
<1>2. m = [i \in Bufs |-> IF i = 1 THEN x ELSE IF i <= k THEN s[i - 1] ELSE s[i]]
  BY DEF MoveToFront
<1>. HIDE DEF k, m
<1>3. \A i \in Bufs : m[i] = IF i = 1 THEN x ELSE IF i <= k THEN s[i - 1] ELSE s[i]
  BY <1>2
<1>4. m \in [Bufs -> Bufs]
  <2>1. ASSUME NEW i \in Bufs PROVE (i # 1 => i - 1 \in Bufs)
    BY DEF Bufs
  <2>. QED
    BY <1>2, <2>1
<1>5. ASSUME NEW i \in Bufs, NEW j \in Bufs, m[i] = m[j] PROVE i = j
  <2>1. ASSUME NEW n \in Bufs
        PROVE  \E o \in Bufs : m[n] = s[o] /\ o = IF n = 1 THEN k ELSE IF n <= k THEN n - 1 ELSE n
    <3>1. CASE n = 1
      BY <1>1, <1>3, <3>1
    <3>2. CASE n # 1 /\ n <= k
      <4>1. n - 1 \in Bufs
        BY <3>2 DEF Bufs
      <4>. QED
        BY <1>3, <3>2, <4>1
    <3>3. CASE n # 1 /\ ~(n <= k)
      BY <1>3, <3>3
    <3>. QED
      BY <3>1, <3>2, <3>3
  <2>2. PICK oi \in Bufs : m[i] = s[oi] /\ oi = IF i = 1 THEN k ELSE IF i <= k THEN i - 1 ELSE i
    BY <2>1
  <2>3. PICK oj \in Bufs : m[j] = s[oj] /\ oj = IF j = 1 THEN k ELSE IF j <= k THEN j - 1 ELSE j
    BY <2>1
  <2>4. oi = oj
    <3>1. s[oi] = s[oj]
      BY <1>5, <2>2, <2>3, Zenon
    <3>. QED
      BY <3>1, Zenon
  <2>5. i \in Int /\ j \in Int /\ k \in Int /\ i >= 1 /\ j >= 1 /\ k >= 1
    BY <1>1 DEF Bufs
  <2>. QED
    BY <2>2, <2>3, <2>4, <2>5
<1>6. ASSUME NEW y \in Bufs PROVE \E i \in Bufs : m[i] = y
  <2>1. PICK j \in Bufs : s[j] = y
    OBVIOUS
  <2>2. CASE j = k
    <3>1. 1 \in Bufs
      BY DEF Bufs
    <3>. QED
      BY <1>1, <1>3, <2>1, <2>2, <3>1
  <2>3. CASE j < k
    <3>1. j + 1 \in Bufs /\ j + 1 # 1 /\ j + 1 <= k /\ (j + 1) - 1 = j
      BY <1>1, <2>3 DEF Bufs
    <3>. QED
      BY <1>3, <2>1, <3>1
  <2>4. CASE j > k
    <3>1. j # 1 /\ ~(j <= k)
      BY <1>1, <2>4 DEF Bufs
    <3>. QED
      BY <1>3, <2>1, <3>1
  <2>. QED
    BY <1>1, <2>2, <2>3, <2>4 DEF Bufs
<1>7. Ordering(m)
  BY <1>4, <1>5, <1>6 DEF Ordering
<1>. QED
  BY <1>7 DEF m

LEMMA UsersFinite ==
  ASSUME BioAssumption, NEW x
  PROVE  IsFiniteSet(Users(x)) /\ Cardinality(Users(x)) \in Nat
BY FS_Subset, FS_CardinalityType DEF Users, BioAssumption

\* A process that gets a buffer, and one that gives it up, is counted.
LEMMA UserJoins ==
  ASSUME BioAssumption, TypeOK, NEW p \in Procs, cur[p] = 0, NEW x \in Bufs,
         cur' = [cur EXCEPT ![p] = x]
  PROVE  /\ Cardinality(Users(x)') = Cardinality(Users(x)) + 1
         /\ \A y \in Bufs \ {x} : Users(y)' = Users(y)
<1>1. Users(x)' = Users(x) \cup {p} /\ p \notin Users(x)
  BY DEF Users, TypeOK, Bufs
<1>2. Cardinality(Users(x) \cup {p}) = Cardinality(Users(x)) + 1
  BY <1>1, UsersFinite, FS_AddElement
<1>3. \A y \in Bufs \ {x} : Users(y)' = Users(y)
  BY DEF Users, TypeOK, Bufs
<1>. QED
  BY <1>1, <1>2, <1>3

LEMMA UserLeaves ==
  ASSUME BioAssumption, TypeOK, NEW p \in Procs, cur[p] \in Bufs,
         cur' = [cur EXCEPT ![p] = 0]
  PROVE  /\ Cardinality(Users(cur[p])) > 0
         /\ Cardinality({q \in Procs : cur'[q] = cur[p]}) = Cardinality(Users(cur[p])) - 1
         /\ \A y \in Bufs \ {cur[p]} : Users(y)' = Users(y)
<1>. DEFINE x == cur[p]
<1>1. {q \in Procs : cur'[q] = x} = Users(x) \ {p} /\ p \in Users(x)
  BY DEF Users, TypeOK, Bufs
<1>2. Cardinality(Users(x) \ {p}) = Cardinality(Users(x)) - 1
  BY <1>1, UsersFinite, FS_RemoveElement
<1>3. Cardinality(Users(x)) # 0
  BY <1>1, UsersFinite, FS_EmptySet
<1>4. \A y \in Bufs \ {x} : Users(y)' = Users(y)
  BY DEF Users, TypeOK, Bufs
<1>. QED
  BY <1>1, <1>2, <1>3, <1>4, UsersFinite

\* With a buffer for each process and each pin, a process that has none finds
\* one that nobody refers to.
LEMMA FreeBuffer ==
  ASSUME BioAssumption, Inv, Cardinality(Procs) + MaxPins <= NBUF,
         NEW p \in Procs, pc[p] = "idle"
  PROVE  Unused # {}
<1>. SUFFICES ASSUME Unused = {} PROVE FALSE
  OBVIOUS
<1>. DEFINE Others == Procs \ {p}
            Image == {cur[q] : q \in Others}
<1>1. \A x \in Bufs : refcnt[x] # 0
  BY DEF Unused, Inv, ListInv, TypeOK
<1>2. \A x \in Bufs : x \in pinned \/ Users(x) # {}
  BY <1>1, FS_EmptySet DEF Inv, RefcntIsExact, Users
<1>3. Bufs \subseteq pinned \cup Image
  <2>1. cur[p] = 0
    BY DEF Inv, UseInv
  <2>. QED
    BY <1>2, <2>1 DEF Users, Bufs
<1>4. IsFiniteSet(Others) /\ Cardinality(Others) = Cardinality(Procs) - 1 /\ Cardinality(Procs) \in Nat
  BY FS_RemoveElement, FS_CardinalityType DEF BioAssumption
<1>5. IsFiniteSet(Image) /\ Cardinality(Image) <= Cardinality(Others)
  <2>. DEFINE f == [q \in Others |-> cur[q]]
  <2>1. f \in Surjection(Others, Image)
    BY DEF Surjection
  <2>. QED
    BY <1>4, <2>1, FS_Surjection
<1>6. IsFiniteSet(pinned) /\ IsFiniteSet(Bufs) /\ Cardinality(Bufs) = NBUF
  <2>1. NBUF \in Int /\ 1 \in Int /\ ~(1 > NBUF) /\ NBUF - 1 + 1 = NBUF
    BY DEF BioAssumption
  <2>2. IsFiniteSet(1 .. NBUF) /\ Cardinality(1 .. NBUF) = NBUF
    BY <2>1, FS_Interval
  <2>. QED
    BY <2>2, FS_Subset DEF Bufs, Inv, TypeOK
<1>7. /\ Cardinality(pinned \cup Image) <= Cardinality(pinned) + Cardinality(Image)
      /\ IsFiniteSet(pinned \cup Image)
  <2>1. /\ Cardinality(pinned \cup Image)
             = Cardinality(pinned) + Cardinality(Image) - Cardinality(pinned \cap Image)
        /\ IsFiniteSet(pinned \cup Image)
    BY <1>5, <1>6, FS_Union
  <2>2. Cardinality(pinned \cap Image) \in Nat /\ Cardinality(pinned) \in Nat /\ Cardinality(Image) \in Nat
    BY <1>5, <1>6, FS_Intersection, FS_CardinalityType
  <2>. QED
    BY <2>1, <2>2
<1>8. NBUF <= Cardinality(pinned \cup Image)
  BY <1>3, <1>6, <1>7, FS_Subset
<1>. QED
  BY <1>4, <1>5, <1>6, <1>7, <1>8, FS_CardinalityType DEF Inv, UseInv, BioAssumption

-----------------------------------------------------------------------------
(* bget() *)

LEMMA RefcntOfUsers ==
  /\ RefcntIsExact <=> \A x \in Bufs : refcnt[x] = Cardinality(Users(x)) + (IF x \in pinned THEN 1 ELSE 0)
  /\ RefcntIsExact' <=>
       \A x \in Bufs : refcnt'[x] = Cardinality(Users(x)') + (IF x \in pinned' THEN 1 ELSE 0)
BY DEF RefcntIsExact, Users

LEMMA BgetHit ==
  ASSUME BioAssumption, Inv, NEW p \in Procs, NEW b \in Blocks, NEW x \in Cached(b),
         pc[p] = "idle", Hit(p, x), pc' = [pc EXCEPT ![p] = "lock"],
         UNCHANGED <<holder, data, disk, latest>>
  PROVE  Inv'
<1>1. /\ x \in Bufs /\ blockno[x] = b /\ cur[p] = 0
      /\ cur' = [cur EXCEPT ![p] = x] /\ refcnt' = [refcnt EXCEPT ![x] = refcnt[x] + 1]
      /\ UNCHANGED <<blockno, valid, lru, pinned, panic>>
  BY DEF Cached, Hit, Inv, UseInv
<1>2. TypeOK'
  <2>0. x \in 1 .. NBUF /\ NBUF \in Nat /\ refcnt[x] \in Nat
    BY <1>1 DEF Inv, TypeOK, Bufs, BioAssumption
  <2>1. x \in 0 .. NBUF /\ refcnt[x] + 1 \in Nat
    BY <2>0
  <2>. QED
    BY <1>1, <2>1 DEF Inv, TypeOK
<1>3. ListInv' /\ OneBufferPerBlock' /\ NoPanic'
  BY <1>1 DEF Inv, ListInv, OneBufferPerBlock, NoPanic
<1>4. RefcntIsExact'
  <2>1. ASSUME NEW y \in Bufs
        PROVE  refcnt'[y] = Cardinality(Users(y)') + (IF y \in pinned' THEN 1 ELSE 0)
    <3>1. /\ refcnt[y] = Cardinality(Users(y)) + (IF y \in pinned THEN 1 ELSE 0)
          /\ Cardinality(Users(y)) \in Nat
      BY RefcntOfUsers, UsersFinite DEF Inv
    <3>2. CASE y = x
      <4>1. Cardinality(Users(x)') = Cardinality(Users(x)) + 1
        BY <1>1, UserJoins DEF Inv
      <4>2. refcnt'[x] = refcnt[x] + 1
        BY <1>1 DEF Inv, TypeOK
      <4>. QED
        BY <1>1, <3>1, <3>2, <4>1, <4>2
    <3>3. CASE y # x
      <4>1. Users(y)' = Users(y)
        BY <1>1, <3>3, UserJoins DEF Inv
      <4>2. refcnt'[y] = refcnt[y]
        BY <1>1, <3>3 DEF Inv, TypeOK
      <4>. QED
        BY <1>1, <3>1, <4>1, <4>2
    <3>. QED
      BY <3>2, <3>3
  <2>. QED
    BY <2>1, RefcntOfUsers
<1>5. \A q \in Procs : q # p => cur'[q] = cur[q] /\ pc'[q] = pc[q]
  BY <1>1 DEF Inv, TypeOK
<1>6. cur'[p] = x /\ pc'[p] = "lock" /\ x # 0
  BY <1>1 DEF Inv, TypeOK, Bufs
<1>7. UseInv'
  BY <1>1, <1>5, <1>6 DEF Inv, UseInv
<1>8. LockInv'
  BY <1>1, <1>5, <1>6 DEF Inv, LockInv, Using, SleepersWaitForHolder, Bufs
<1>9. DataInv'
  <2>1. \A y \in Bufs : Clean(y)' => Clean(y)
    BY <1>1, <1>5, <1>6 DEF Clean
  <2>2. \A a : Cached(a)' = Cached(a)
    BY <1>1 DEF Cached
  <2>. QED
    BY <1>1, <2>1, <2>2 DEF Inv, DataInv
<1>. QED
  BY <1>2, <1>3, <1>4, <1>7, <1>8, <1>9 DEF Inv

\* A buffer nobody refers to is on the disk: it may be given another block.
LEMMA BgetMiss ==
  ASSUME BioAssumption, Inv, NEW p \in Procs, NEW b \in Blocks, Cached(b) = {},
         NEW i \in Unused, pc[p] = "idle", Miss(p, b, lru[i]), pc' = [pc EXCEPT ![p] = "lock"],
         UNCHANGED <<holder, data, disk, latest>>
  PROVE  Inv'
<1>0. PICK x \in Bufs : x = lru[i] /\ refcnt[x] = 0 /\ cur[p] = 0
  BY DEF Unused, Inv, TypeOK, UseInv
<1>1. /\ blockno' = [blockno EXCEPT ![x] = b] /\ valid' = [valid EXCEPT ![x] = FALSE]
      /\ refcnt' = [refcnt EXCEPT ![x] = 1] /\ cur' = [cur EXCEPT ![p] = x]
      /\ UNCHANGED <<lru, pinned, panic>>
  BY <1>0 DEF Miss
<1>2. x \notin pinned /\ Users(x) = {}
  <2>1. refcnt[x] = Cardinality(Users(x)) + (IF x \in pinned THEN 1 ELSE 0)
    BY <1>0, RefcntOfUsers DEF Inv
  <2>2. Cardinality(Users(x)) \in Nat /\ IsFiniteSet(Users(x))
    BY UsersFinite
  <2>3. x \notin pinned /\ Cardinality(Users(x)) = 0
    BY <1>0, <2>1, <2>2
  <2>. QED
    BY <2>2, <2>3, FS_EmptySet
<1>3. /\ blockno'[x] = b /\ valid'[x] = FALSE /\ refcnt'[x] = 1
      /\ \A y \in Bufs : y # x => blockno'[y] = blockno[y] /\ valid'[y] = valid[y] /\ refcnt'[y] = refcnt[y]
      /\ cur'[p] = x /\ pc'[p] = "lock" /\ x # 0
      /\ \A q \in Procs : q # p => cur'[q] = cur[q] /\ pc'[q] = pc[q]
  BY <1>0, <1>1 DEF Inv, TypeOK, Bufs
<1>4. TypeOK'
  BY <1>0, <1>1 DEF Inv, TypeOK, Bufs
<1>5. ListInv' /\ NoPanic'
  BY <1>1 DEF Inv, ListInv, NoPanic
<1>6. OneBufferPerBlock'
  BY <1>0, <1>3 DEF Inv, OneBufferPerBlock, Cached
<1>7. RefcntIsExact'
  <2>1. ASSUME NEW y \in Bufs
        PROVE  refcnt'[y] = Cardinality(Users(y)') + (IF y \in pinned' THEN 1 ELSE 0)
    <3>1. CASE y = x
      <4>1. Cardinality(Users(x)') = Cardinality(Users(x)) + 1
        BY <1>0, <1>1, UserJoins DEF Inv
      <4>2. Cardinality(Users(x)) = 0
        BY <1>2, FS_EmptySet
      <4>. QED
        BY <1>1, <1>2, <1>3, <3>1, <4>1, <4>2
    <3>2. CASE y # x
      <4>1. Users(y)' = Users(y)
        BY <1>0, <1>1, <3>2, UserJoins DEF Inv
      <4>2. refcnt[y] = Cardinality(Users(y)) + (IF y \in pinned THEN 1 ELSE 0)
        BY RefcntOfUsers DEF Inv
      <4>. QED
        BY <1>1, <1>3, <3>2, <4>1, <4>2
    <3>. QED
      BY <3>1, <3>2
  <2>. QED
    BY <2>1, RefcntOfUsers
<1>8. \A q \in Procs : cur[q] # x
  BY <1>2 DEF Users
<1>9. UseInv'
  BY <1>0, <1>1, <1>2, <1>3, <1>8 DEF Inv, UseInv, TypeOK, Bufs
<1>10. LockInv'
  BY <1>0, <1>1, <1>3, <1>8 DEF Inv, LockInv, Using, SleepersWaitForHolder
<1>11. DataInv'
  <2>1. Clean(x)
    BY <1>2, <1>8 DEF Clean
  <2>2. disk[b] = latest[b]
    BY DEF Inv, DataInv
  <2>3. ASSUME NEW a \in Blocks, Cached(a)' = {} PROVE disk[a] = latest[a]
    <3>1. CASE blockno[x] = a
      BY <1>0, <2>1, <3>1 DEF Inv, DataInv
    <3>2. CASE blockno[x] # a
      BY <1>3, <2>3, <3>2 DEF Inv, DataInv, Cached
    <3>. QED
      BY <3>1, <3>2
  <2>4. ASSUME NEW y \in Bufs, y # x, Clean(y)' PROVE Clean(y)
    BY <1>1, <1>3, <1>0, <2>4 DEF Clean, Bufs
  <2>. QED
    BY <1>1, <1>3, <2>2, <2>3, <2>4 DEF Inv, DataInv
<1>. QED
  BY <1>4, <1>5, <1>6, <1>7, <1>9, <1>10, <1>11 DEF Inv

LEMMA BgetStep ==
  ASSUME BioAssumption, Inv, NEW p \in Procs, NEW b \in Blocks, Bget(p, b)
  PROVE  Inv'
<1>1. CASE Cached(b) # {}
  BY <1>1, BgetHit DEF Bget
<1>2. CASE Cached(b) = {} /\ Unused # {}
  BY <1>2, BgetMiss DEF Bget
<1>3. CASE Cached(b) = {} /\ Unused = {}
  <2>1. panic' = TRUE /\ pc[p] = "idle"
        /\ UNCHANGED <<blockno, valid, refcnt, lru, pinned, cur, pc, holder, data, disk, latest>>
    BY <1>3 DEF Bget, cacheVars
  <2>2. NoPanic'
    BY <1>3, <2>1, FreeBuffer DEF NoPanic
  <2>3. TypeOK' /\ ListInv' /\ OneBufferPerBlock'
    BY <2>1 DEF Inv, TypeOK, ListInv, OneBufferPerBlock
  <2>4. RefcntIsExact' /\ UseInv' /\ LockInv'
    BY <2>1 DEF Inv, RefcntIsExact, UseInv, LockInv, SleepersWaitForHolder
  <2>5. DataInv'
    BY <2>1 DEF Inv, DataInv, Clean, Cached
  <2>. QED
    BY <2>2, <2>3, <2>4, <2>5 DEF Inv
<1>. QED
  BY <1>1, <1>2, <1>3

-----------------------------------------------------------------------------
(* A process with a buffer *)

\* What a step keeps that changes neither the buffers' blocks, nor their
\* users, nor the list.
LEMMA SameUsers ==
  ASSUME Inv, TypeOK', UNCHANGED <<blockno, lru, cur, panic>>
  PROVE  /\ ListInv' /\ OneBufferPerBlock' /\ NoPanic'
         /\ \A x \in Bufs : Users(x)' = Users(x)
         /\ \A b \in Blocks : Cached(b)' = Cached(b)
BY DEF Inv, ListInv, OneBufferPerBlock, NoPanic, Users, Cached

\* A buffer belongs to at most one process in the code between the locks.
LEMMA OnlyUser ==
  ASSUME Inv, NEW p \in Procs, pc[p] \in Using
  PROVE  /\ cur[p] \in Bufs /\ holder[cur[p]] = p /\ blockno[cur[p]] \in Blocks
         /\ \A q \in Procs : q # p /\ cur[q] = cur[p] => pc[q] \notin Using
<1>1. cur[p] \in Bufs /\ blockno[cur[p]] \in Blocks
  BY DEF Inv, TypeOK, UseInv, Using, Bufs
<1>. QED
  BY <1>1 DEF Inv, LockInv

LEMMA PinnedFinite ==
  ASSUME BioAssumption, TypeOK
  PROVE  IsFiniteSet(pinned) /\ Cardinality(pinned) \in Nat
<1>1. IsFiniteSet(1 .. NBUF)
  BY FS_Interval DEF BioAssumption
<1>. QED
  BY <1>1, FS_Subset, FS_CardinalityType DEF TypeOK, Bufs

LEMMA AcquireSleepStep ==
  ASSUME BioAssumption, Inv, NEW p \in Procs, AcquireSleep(p)
  PROVE  Inv'
<1>. DEFINE x == cur[p]
<1>1. /\ pc[p] \in {"lock", "retry"} /\ x \in Bufs
      /\ UNCHANGED <<blockno, valid, refcnt, lru, pinned, data, disk, cur, latest, panic>>
  BY DEF AcquireSleep, cacheVars, Inv, TypeOK, UseInv, Bufs
<1>2. \/ /\ holder[x] = Nobody /\ holder' = [holder EXCEPT ![x] = p]
         /\ pc' = [pc EXCEPT ![p] = "locked"]
      \/ /\ holder[x] # Nobody /\ holder' = holder /\ pc' = [pc EXCEPT ![p] = "asleep"]
  BY DEF AcquireSleep
<1>3. TypeOK'
  BY <1>1, <1>2 DEF Inv, TypeOK
<1>4. RefcntIsExact'
  BY <1>1, <1>3, SameUsers, RefcntOfUsers DEF Inv
<1>5. /\ \A q \in Procs : q # p => pc'[q] = pc[q]
      /\ pc'[p] \in {"locked", "asleep"}
  BY <1>2 DEF Inv, TypeOK
<1>6. UseInv'
  BY <1>1, <1>5 DEF Inv, UseInv
<1>7. LockInv'
  <2>0. p # Nobody
    BY DEF BioAssumption
  <2>1. CASE holder[x] = Nobody
    <3>1. pc'[p] = "locked" /\ holder'[x] = p /\ \A y \in Bufs : y # x => holder'[y] = holder[y]
      BY <1>1, <1>2, <2>1 DEF Inv, TypeOK
    <3>2. \A q \in Procs : q # Nobody
      BY DEF BioAssumption
    <3>3. ASSUME NEW y \in Bufs, NEW q \in Procs
          PROVE  holder'[y] = q <=> cur'[q] = y /\ pc'[q] \in Using
      <4>1. holder[y] = q <=> cur[q] = y /\ pc[q] \in Using
        BY DEF Inv, LockInv
      <4>2. CASE q = p
        BY <1>1, <3>1, <4>1, <4>2 DEF Using
      <4>3. CASE q # p /\ y = x
        BY <1>1, <1>5, <2>1, <3>1, <3>2, <4>1, <4>3
      <4>4. CASE q # p /\ y # x
        BY <1>1, <1>5, <3>1, <4>1, <4>4
      <4>. QED
        BY <4>2, <4>3, <4>4
    <3>4. ASSUME NEW q \in Procs, pc'[q] = "asleep" PROVE holder'[cur'[q]] # Nobody
      <4>1. q # p /\ pc[q] = "asleep" /\ holder[cur[q]] # Nobody /\ cur[q] \in Bufs
        BY <1>5, <3>1, <3>4 DEF Inv, LockInv, SleepersWaitForHolder, UseInv, TypeOK, Bufs
      <4>. QED
        BY <1>1, <2>1, <3>1, <4>1
    <3>. QED
      BY <3>3, <3>4 DEF LockInv, SleepersWaitForHolder
  <2>2. CASE holder[x] # Nobody
    <3>1. pc'[p] = "asleep" /\ holder' = holder
      BY <1>2, <2>2 DEF Inv, TypeOK
    <3>. QED
      BY <1>1, <1>5, <2>2, <3>1 DEF Inv, LockInv, Using, SleepersWaitForHolder
  <2>. QED
    BY <2>1, <2>2
<1>8. DataInv'
  <2>1. \A y \in Bufs : Clean(y)' => Clean(y)
    BY <1>1, <1>5 DEF Clean
  <2>. QED
    BY <1>1, <1>3, <2>1, SameUsers DEF Inv, DataInv
<1>. QED
  BY <1>1, <1>3, <1>4, <1>6, <1>7, <1>8, SameUsers DEF Inv

LEMMA BreadStep ==
  ASSUME BioAssumption, Inv, NEW p \in Procs, Bread(p)
  PROVE  Inv'
<1>. DEFINE x == cur[p]
<1>1. /\ pc[p] = "locked" /\ pc' = [pc EXCEPT ![p] = "clean"]
      /\ data' = [data EXCEPT ![x] = IF valid[x] THEN data[x] ELSE disk[blockno[x]]]
      /\ valid' = [valid EXCEPT ![x] = TRUE]
      /\ UNCHANGED <<blockno, refcnt, lru, pinned, holder, disk, cur, latest, panic>>
  BY DEF Bread
<1>2. x \in Bufs /\ holder[x] = p /\ blockno[x] \in Blocks
      /\ \A q \in Procs : q # p /\ cur[q] = x => pc[q] \notin Using
  BY <1>1, OnlyUser DEF Using
<1>3. TypeOK'
  BY <1>1, <1>2 DEF Inv, TypeOK
<1>4. RefcntIsExact'
  BY <1>1, <1>3, SameUsers, RefcntOfUsers DEF Inv
<1>5. /\ pc'[p] = "clean" /\ \A q \in Procs : q # p => pc'[q] = pc[q]
      /\ valid'[x] = TRUE /\ data'[x] = IF valid[x] THEN data[x] ELSE disk[blockno[x]]
      /\ \A y \in Bufs : y # x => valid'[y] = valid[y] /\ data'[y] = data[y]
  BY <1>1, <1>2 DEF Inv, TypeOK
<1>6. UseInv'
  BY <1>1, <1>2, <1>5 DEF Inv, UseInv, TypeOK, Bufs
<1>7. LockInv'
  BY <1>1, <1>2, <1>5 DEF Inv, LockInv, Using, SleepersWaitForHolder
<1>8. DataInv'
  <2>1. \A y \in Bufs : Clean(y)' => Clean(y)
    BY <1>1, <1>5 DEF Clean
  <2>2. ~valid[x] => Clean(x)
    BY <1>1, <1>2 DEF Inv, UseInv, Clean, Using
  <2>3. data'[x] = latest[blockno[x]]
    BY <1>2, <1>5, <2>2 DEF Inv, DataInv
  <2>4. \A b \in Blocks : Cached(b)' = Cached(b)
    BY <1>1, <1>3, SameUsers
  <2>. QED
    BY <1>1, <1>2, <1>5, <2>1, <2>3, <2>4 DEF Inv, DataInv
<1>. QED
  BY <1>1, <1>3, <1>4, <1>6, <1>7, <1>8, SameUsers DEF Inv

LEMMA ModifyStep ==
  ASSUME BioAssumption, Inv, NEW p \in Procs, NEW d \in Data, Modify(p, d)
  PROVE  Inv'
<1>. DEFINE x == cur[p]
<1>1. /\ pc[p] = "clean" /\ pc' = [pc EXCEPT ![p] = "dirty"]
      /\ data' = [data EXCEPT ![x] = d] /\ latest' = [latest EXCEPT ![blockno[x]] = d]
      /\ UNCHANGED <<blockno, valid, refcnt, lru, pinned, holder, disk, cur, panic>>
  BY DEF Modify, cacheVars
<1>2. x \in Bufs /\ holder[x] = p /\ blockno[x] \in Blocks
      /\ \A q \in Procs : q # p /\ cur[q] = x => pc[q] \notin Using
  BY <1>1, OnlyUser DEF Using
<1>3. TypeOK'
  BY <1>1, <1>2 DEF Inv, TypeOK
<1>4. RefcntIsExact'
  BY <1>1, <1>3, SameUsers, RefcntOfUsers DEF Inv
<1>5. /\ pc'[p] = "dirty" /\ \A q \in Procs : q # p => pc'[q] = pc[q]
      /\ data'[x] = d /\ \A y \in Bufs : y # x => data'[y] = data[y]
      /\ latest'[blockno[x]] = d /\ \A b \in Blocks : b # blockno[x] => latest'[b] = latest[b]
  BY <1>1, <1>2 DEF Inv, TypeOK
<1>6. UseInv'
  BY <1>1, <1>2, <1>5 DEF Inv, UseInv
<1>7. LockInv'
  BY <1>1, <1>2, <1>5 DEF Inv, LockInv, Using, SleepersWaitForHolder
<1>8. DataInv'
  <2>1. \A y \in Bufs : y # x => (Clean(y)' => Clean(y))
    BY <1>1, <1>5 DEF Clean
  <2>2. ~Clean(x)'
    BY <1>1, <1>5 DEF Clean
  <2>3. x \in Cached(blockno[x])
    BY <1>2 DEF Cached
  <2>4. \A b \in Blocks : Cached(b)' = Cached(b)
    BY <1>1, <1>3, SameUsers
  <2>5. \A y \in Bufs : y # x => blockno[y] # blockno[x]
    BY <1>2 DEF Inv, OneBufferPerBlock, BioAssumption
  <2>6. ASSUME NEW b \in Blocks, Cached(b)' = {} PROVE disk'[b] = latest'[b]
    BY <1>1, <1>5, <2>3, <2>4, <2>6 DEF Inv, DataInv
  <2>7. ASSUME NEW y \in Bufs, blockno'[y] \in Blocks
        PROVE  /\ valid'[y] => data'[y] = latest'[blockno'[y]]
               /\ Clean(y)' => disk'[blockno'[y]] = latest'[blockno'[y]]
    <3>1. CASE y = x
      BY <1>1, <1>5, <2>2, <3>1
    <3>2. CASE y # x
      BY <1>1, <1>5, <2>1, <2>5, <2>7, <3>2 DEF Inv, DataInv
    <3>. QED
      BY <3>1, <3>2
  <2>. QED
    BY <2>6, <2>7 DEF DataInv
<1>. QED
  BY <1>1, <1>3, <1>4, <1>6, <1>7, <1>8, SameUsers DEF Inv

LEMMA BwriteStep ==
  ASSUME BioAssumption, Inv, NEW p \in Procs, Bwrite(p)
  PROVE  Inv'
<1>. DEFINE x == cur[p]
<1>1. /\ pc[p] \in {"clean", "dirty"} /\ pc' = [pc EXCEPT ![p] = "clean"]
      /\ disk' = [disk EXCEPT ![blockno[x]] = data[x]]
      /\ UNCHANGED <<blockno, valid, refcnt, lru, pinned, holder, data, cur, latest, panic>>
  BY DEF Bwrite, cacheVars
<1>2. x \in Bufs /\ holder[x] = p /\ blockno[x] \in Blocks
      /\ \A q \in Procs : q # p /\ cur[q] = x => pc[q] \notin Using
  BY <1>1, OnlyUser DEF Using
<1>3. TypeOK'
  BY <1>1, <1>2 DEF Inv, TypeOK
<1>4. RefcntIsExact'
  BY <1>1, <1>3, SameUsers, RefcntOfUsers DEF Inv
<1>5. /\ pc'[p] = "clean" /\ \A q \in Procs : q # p => pc'[q] = pc[q]
      /\ disk'[blockno[x]] = data[x] /\ \A b \in Blocks : b # blockno[x] => disk'[b] = disk[b]
  BY <1>1, <1>2 DEF Inv, TypeOK
<1>6. UseInv'
  BY <1>1, <1>2, <1>5 DEF Inv, UseInv
<1>7. LockInv'
  <2>1. \A q \in Procs : (pc'[q] \in Using <=> pc[q] \in Using) /\ (pc'[q] = "asleep" <=> pc[q] = "asleep")
    BY <1>1, <1>5 DEF Using
  <2>. QED
    BY <1>1, <2>1 DEF Inv, LockInv, SleepersWaitForHolder
<1>8. DataInv'
  <2>1. \A y \in Bufs : y # x => (Clean(y)' => Clean(y))
    BY <1>1, <1>5 DEF Clean
  <2>2. data[x] = latest[blockno[x]]
    BY <1>1, <1>2 DEF Inv, UseInv, DataInv
  <2>3. \A b \in Blocks : Cached(b)' = Cached(b)
    BY <1>1, <1>3, SameUsers
  <2>. QED
    BY <1>1, <1>5, <2>1, <2>2, <2>3 DEF Inv, DataInv
<1>. QED
  BY <1>1, <1>3, <1>4, <1>6, <1>7, <1>8, SameUsers DEF Inv

LEMMA BpinStep ==
  ASSUME BioAssumption, Inv, NEW p \in Procs, Bpin(p)
  PROVE  Inv'
<1>1. PICK x : /\ x = cur[p] /\ pc[p] = "dirty" /\ pc' = [pc EXCEPT ![p] = "clean"]
               /\ x \in pinned \/ Cardinality(pinned) < MaxPins
               /\ refcnt' = [refcnt EXCEPT ![x] = IF x \in pinned THEN refcnt[x] ELSE refcnt[x] + 1]
               /\ pinned' = pinned \cup {x}
               /\ UNCHANGED <<blockno, valid, lru, holder, data, disk, cur, latest, panic>>
  BY DEF Bpin
<1>2. x \in Bufs /\ blockno[x] \in Blocks /\ valid[x]
      /\ \A q \in Procs : q # p /\ cur[q] = x => pc[q] \notin Using
  BY <1>1, OnlyUser DEF Using, Inv, UseInv
<1>3. TypeOK'
  <2>1. refcnt[x] \in Nat /\ (IF x \in pinned THEN refcnt[x] ELSE refcnt[x] + 1) \in Nat
    BY <1>2 DEF Inv, TypeOK
  <2>2. refcnt' \in [Bufs -> Nat] /\ pinned' \in SUBSET Bufs
    BY <1>1, <1>2, <2>1 DEF Inv, TypeOK
  <2>. QED
    BY <1>1, <2>2 DEF Inv, TypeOK
<1>4. RefcntIsExact'
  <2>1. ASSUME NEW y \in Bufs
        PROVE  refcnt'[y] = Cardinality(Users(y)') + (IF y \in pinned' THEN 1 ELSE 0)
    <3>1. /\ refcnt[y] = Cardinality(Users(y)) + (IF y \in pinned THEN 1 ELSE 0)
          /\ Cardinality(Users(y)) \in Nat
      BY RefcntOfUsers, UsersFinite DEF Inv
    <3>2. Users(y)' = Users(y)
      BY <1>1, <1>3, SameUsers
    <3>3. refcnt'[y] = IF y = x /\ x \notin pinned THEN refcnt[y] + 1 ELSE refcnt[y]
      BY <1>1, <1>2 DEF Inv, TypeOK
    <3>. QED
      BY <1>1, <3>1, <3>2, <3>3
  <2>. QED
    BY <2>1, RefcntOfUsers
<1>5. pc'[p] = "clean" /\ \A q \in Procs : q # p => pc'[q] = pc[q]
  BY <1>1 DEF Inv, TypeOK
<1>6. UseInv'
  <2>1. Cardinality(pinned') <= MaxPins
    <3>1. IsFiniteSet(pinned) /\ Cardinality(pinned) \in Nat /\ Cardinality(pinned) <= MaxPins
      BY PinnedFinite DEF Inv, UseInv
    <3>2. CASE x \in pinned
      <4>1. pinned' = pinned
        BY <1>1, <3>2
      <4>. QED
        BY <3>1, <4>1
    <3>3. CASE x \notin pinned
      <4>1. Cardinality(pinned \cup {x}) = Cardinality(pinned) + 1
        BY <3>1, <3>3, FS_AddElement
      <4>. QED
        BY <1>1, <3>1, <3>3, <4>1 DEF BioAssumption
    <3>. QED
      BY <3>2, <3>3
  <2>2. \A y \in pinned' : blockno'[y] \in Blocks /\ valid'[y]
    BY <1>1, <1>2 DEF Inv, UseInv
  <2>3. \A q \in Procs : /\ pc'[q] = "idle" <=> cur'[q] = 0
                         /\ cur'[q] # 0 => blockno'[cur'[q]] \in Blocks
                         /\ pc'[q] \in {"clean", "dirty"} => valid'[cur'[q]]
    BY <1>1, <1>2, <1>5 DEF Inv, UseInv
  <2>. QED
    BY <2>1, <2>2, <2>3 DEF UseInv
<1>7. LockInv'
  BY <1>1, <1>2, <1>5 DEF Inv, LockInv, Using, SleepersWaitForHolder
<1>8. DataInv'
  <2>1. \A y \in Bufs : Clean(y)' => Clean(y)
    BY <1>1, <1>5 DEF Clean
  <2>2. \A b \in Blocks : Cached(b)' = Cached(b)
    BY <1>1, <1>3, SameUsers
  <2>. QED
    BY <1>1, <2>1, <2>2 DEF Inv, DataInv
<1>. QED
  BY <1>1, <1>3, <1>4, <1>6, <1>7, <1>8, SameUsers DEF Inv

\* The block is on the disk, so its buffer may be recycled again.
LEMMA BunpinStep ==
  ASSUME BioAssumption, Inv, NEW p \in Procs, Bunpin(p)
  PROVE  Inv'
<1>1. PICK x : /\ x = cur[p] /\ pc[p] = "clean" /\ x \in pinned /\ disk[blockno[x]] = data[x]
               /\ refcnt' = [refcnt EXCEPT ![x] = refcnt[x] - 1]
               /\ pinned' = pinned \ {x}
               /\ UNCHANGED <<blockno, valid, lru, holder, data, disk, pc, cur, latest, panic>>
  BY DEF Bunpin
<1>2. x \in Bufs /\ blockno[x] \in Blocks /\ valid[x]
  BY <1>1, OnlyUser DEF Using, Inv, UseInv
<1>3. \A y \in Bufs : /\ refcnt[y] = Cardinality(Users(y)) + (IF y \in pinned THEN 1 ELSE 0)
                     /\ Cardinality(Users(y)) \in Nat
  BY RefcntOfUsers, UsersFinite DEF Inv
<1>4. TypeOK'
  <2>1. refcnt[x] - 1 \in Nat
    BY <1>1, <1>2, <1>3
  <2>. QED
    BY <1>1, <1>2, <2>1 DEF Inv, TypeOK
<1>5. RefcntIsExact'
  <2>1. ASSUME NEW y \in Bufs
        PROVE  refcnt'[y] = Cardinality(Users(y)') + (IF y \in pinned' THEN 1 ELSE 0)
    <3>1. Users(y)' = Users(y)
      BY <1>1, <1>4, SameUsers
    <3>2. refcnt'[y] = IF y = x THEN refcnt[y] - 1 ELSE refcnt[y]
      BY <1>1, <1>2 DEF Inv, TypeOK
    <3>. QED
      BY <1>1, <1>3, <3>1, <3>2
  <2>. QED
    BY <2>1, RefcntOfUsers
<1>6. UseInv'
  <2>1. Cardinality(pinned') <= MaxPins
    <3>1. IsFiniteSet(pinned) /\ Cardinality(pinned) \in Nat /\ Cardinality(pinned) <= MaxPins
      BY PinnedFinite DEF Inv, UseInv
    <3>2. Cardinality(pinned \ {x}) = Cardinality(pinned) - 1
      BY <1>1, <3>1, FS_RemoveElement
    <3>. QED
      BY <1>1, <3>1, <3>2 DEF BioAssumption
  <2>. QED
    BY <1>1, <2>1 DEF Inv, UseInv
<1>7. LockInv'
  BY <1>1 DEF Inv, LockInv, SleepersWaitForHolder
<1>8. DataInv'
  <2>1. \A y \in Bufs : y # x => (Clean(y)' => Clean(y))
    BY <1>1 DEF Clean
  <2>2. disk[blockno[x]] = latest[blockno[x]]
    BY <1>1, <1>2 DEF Inv, DataInv
  <2>3. \A b \in Blocks : Cached(b)' = Cached(b)
    BY <1>1, <1>4, SameUsers
  <2>. QED
    BY <1>1, <2>1, <2>2, <2>3 DEF Inv, DataInv
<1>. QED
  BY <1>1, <1>4, <1>5, <1>6, <1>7, <1>8, SameUsers DEF Inv

-----------------------------------------------------------------------------
(* brelse() *)

LEMMA BrelseStep ==
  ASSUME BioAssumption, Inv, NEW p \in Procs, Brelse(p)
  PROVE  Inv'
<1>1. PICK x : /\ x = cur[p] /\ pc[p] = "clean" /\ holder' = [holder EXCEPT ![x] = Nobody]
               /\ pc' = [q \in Procs |-> IF q = p THEN "put"
                                         ELSE IF pc[q] = "asleep" /\ cur[q] = x THEN "retry"
                                         ELSE pc[q]]
               /\ UNCHANGED <<blockno, valid, refcnt, lru, pinned, data, disk, cur, latest, panic>>
  BY DEF Brelse, ReleaseSleep, cacheVars
<1>2. x \in Bufs /\ holder[x] = p /\ \A q \in Procs : q # p /\ cur[q] = x => pc[q] \notin Using
  BY <1>1, OnlyUser DEF Using
<1>3. /\ pc'[p] = "put" /\ holder'[x] = Nobody
      /\ \A q \in Procs : q # p /\ pc[q] = "asleep" /\ cur[q] = x => pc'[q] = "retry"
      /\ \A q \in Procs : q # p /\ ~(pc[q] = "asleep" /\ cur[q] = x) => pc'[q] = pc[q]
      /\ \A y \in Bufs : y # x => holder'[y] = holder[y]
  BY <1>1, <1>2 DEF Inv, TypeOK
<1>4. TypeOK'
  <2>1. pc' \in [Procs -> {"idle", "lock", "asleep", "retry", "locked", "clean", "dirty", "put"}]
    BY <1>1 DEF Inv, TypeOK
  <2>2. holder' \in [Bufs -> Procs \cup {Nobody}]
    BY <1>1 DEF Inv, TypeOK
  <2>. QED
    BY <1>1, <2>1, <2>2 DEF Inv, TypeOK
<1>5. RefcntIsExact'
  BY <1>1, <1>4, SameUsers, RefcntOfUsers DEF Inv
<1>6. UseInv'
  BY <1>1, <1>3 DEF Inv, UseInv
<1>7. LockInv'
  <2>1. ASSUME NEW y \in Bufs, NEW q \in Procs
        PROVE  holder'[y] = q <=> cur'[q] = y /\ pc'[q] \in Using
    <3>1. /\ holder[y] = q <=> cur[q] = y /\ pc[q] \in Using
          /\ q # Nobody
      BY DEF Inv, LockInv, BioAssumption
    <3>2. q # p => (pc'[q] \in Using <=> pc[q] \in Using)
      BY <1>3 DEF Using
    <3>3. pc'[p] \notin Using
      BY <1>3 DEF Using
    <3>4. CASE y = x
      BY <1>1, <1>2, <1>3, <3>1, <3>2, <3>3, <3>4
    <3>5. CASE y # x
      BY <1>1, <1>3, <3>1, <3>2, <3>3, <3>5
    <3>. QED
      BY <3>4, <3>5
  <2>2. ASSUME NEW q \in Procs, pc'[q] = "asleep" PROVE holder'[cur'[q]] # Nobody
    <3>1. q # p /\ pc[q] = "asleep" /\ cur[q] # x
      BY <1>3, <2>2
    <3>2. cur[q] \in Bufs /\ holder[cur[q]] # Nobody
      BY <3>1 DEF Inv, LockInv, SleepersWaitForHolder, UseInv, TypeOK, Bufs
    <3>. QED
      BY <1>1, <1>3, <3>1, <3>2
  <2>. QED
    BY <2>1, <2>2 DEF LockInv, SleepersWaitForHolder
<1>8. DataInv'
  <2>1. \A y \in Bufs : Clean(y)' => Clean(y)
    BY <1>1, <1>3 DEF Clean
  <2>2. \A b \in Blocks : Cached(b)' = Cached(b)
    BY <1>1, <1>4, SameUsers
  <2>. QED
    BY <1>1, <2>1, <2>2 DEF Inv, DataInv
<1>. QED
  BY <1>1, <1>4, <1>5, <1>6, <1>7, <1>8, SameUsers DEF Inv

LEMMA BrelsePutStep ==
  ASSUME BioAssumption, Inv, NEW p \in Procs, BrelsePut(p)
  PROVE  Inv'
<1>1. PICK x : /\ x = cur[p] /\ pc[p] = "put" /\ refcnt' = [refcnt EXCEPT ![x] = refcnt[x] - 1]
               /\ lru' \in {MoveToFront(lru, x), lru}
               /\ pc' = [pc EXCEPT ![p] = "idle"] /\ cur' = [cur EXCEPT ![p] = 0]
               /\ UNCHANGED <<blockno, valid, pinned, holder, data, disk, latest, panic>>
  BY DEF BrelsePut
<1>2. x \in Bufs
  BY <1>1 DEF Inv, TypeOK, UseInv, Bufs
<1>3. /\ Cardinality(Users(x)) > 0 /\ Cardinality(Users(x)) \in Nat
      /\ Cardinality(Users(x)') = Cardinality(Users(x)) - 1
      /\ \A y \in Bufs \ {x} : Users(y)' = Users(y)
  <2>1. Users(x)' = {q \in Procs : cur'[q] = x}
    BY DEF Users
  <2>. QED
    BY <1>1, <1>2, <2>1, UserLeaves, UsersFinite DEF Inv
<1>4. \A y \in Bufs : refcnt[y] = Cardinality(Users(y)) + (IF y \in pinned THEN 1 ELSE 0)
  BY RefcntOfUsers DEF Inv
<1>5. /\ lru' \in [Bufs -> Bufs] /\ (\A i, j \in Bufs : lru'[i] = lru'[j] => i = j)
      /\ ListInv'
  <2>1. Ordering(lru) /\ NBUF \in Nat \ {0}
    BY DEF Inv, TypeOK, ListInv, BioAssumption, Ordering
  <2>2. Ordering(MoveToFront(lru, x))
    BY <1>2, <2>1, MoveToFrontKeeps
  <2>3. Ordering(lru')
    BY <1>1, <2>1, <2>2
  <2>. QED
    BY <2>3 DEF ListInv, Ordering
<1>6. TypeOK'
  <2>1. refcnt[x] - 1 \in Nat
    BY <1>2, <1>3, <1>4
  <2>2. refcnt' \in [Bufs -> Nat]
    BY <1>1, <2>1 DEF Inv, TypeOK
  <2>3. 0 \in 0 .. NBUF
    BY DEF BioAssumption
  <2>4. cur' \in [Procs -> 0 .. NBUF]
    BY <1>1, <2>3 DEF Inv, TypeOK
  <2>5. pc' \in [Procs -> {"idle", "lock", "asleep", "retry", "locked", "clean", "dirty", "put"}]
    BY <1>1 DEF Inv, TypeOK
  <2>. QED
    BY <1>1, <1>5, <2>2, <2>4, <2>5 DEF Inv, TypeOK
<1>7. OneBufferPerBlock' /\ NoPanic'
  BY <1>1 DEF Inv, OneBufferPerBlock, NoPanic
<1>8. RefcntIsExact'
  <2>1. ASSUME NEW y \in Bufs
        PROVE  refcnt'[y] = Cardinality(Users(y)') + (IF y \in pinned' THEN 1 ELSE 0)
    <3>1. refcnt'[y] = IF y = x THEN refcnt[y] - 1 ELSE refcnt[y]
      BY <1>1, <1>2 DEF Inv, TypeOK
    <3>2. CASE y = x
      BY <1>1, <1>3, <1>4, <3>1, <3>2
    <3>3. CASE y # x
      BY <1>1, <1>3, <1>4, <3>1, <3>3
    <3>. QED
      BY <3>2, <3>3
  <2>. QED
    BY <2>1, RefcntOfUsers
<1>9. /\ pc'[p] = "idle" /\ cur'[p] = 0
      /\ \A q \in Procs : q # p => pc'[q] = pc[q] /\ cur'[q] = cur[q]
  BY <1>1 DEF Inv, TypeOK
<1>10. UseInv'
  BY <1>1, <1>9 DEF Inv, UseInv
<1>11. LockInv'
  <2>1. 0 \notin Bufs
    BY DEF Bufs
  <2>. QED
    BY <1>1, <1>9, <2>1 DEF Inv, LockInv, Using, SleepersWaitForHolder
<1>12. DataInv'
  <2>1. \A y \in Bufs : Clean(y)' => Clean(y)
    BY <1>1, <1>9 DEF Clean
  <2>2. \A b \in Blocks : Cached(b)' = Cached(b)
    BY <1>1 DEF Cached
  <2>. QED
    BY <1>1, <2>1, <2>2 DEF Inv, DataInv
<1>. QED
  BY <1>5, <1>6, <1>7, <1>8, <1>10, <1>11, <1>12 DEF Inv

-----------------------------------------------------------------------------
(* Every step *)

LEMMA InitInv == ASSUME BioAssumption, Init PROVE Inv
<1>1. lru = [i \in Bufs |-> NBUF - i + 1]
  BY DEF Init
<1>2. \A i \in Bufs : lru[i] \in Bufs /\ lru[i] = NBUF - i + 1
  BY <1>1 DEF Bufs, BioAssumption
<1>3. ListInv
  <2>1. \A x \in Bufs : NBUF - x + 1 \in Bufs /\ NBUF - (NBUF - x + 1) + 1 = x
    BY DEF Bufs, BioAssumption
  <2>. QED
    BY <1>2, <2>1 DEF ListInv
<1>4. TypeOK
  <2>1. lru \in [Bufs -> Bufs] /\ \A i, j \in Bufs : lru[i] = lru[j] => i = j
    BY <1>1, <1>2 DEF Bufs, BioAssumption
  <2>2. 0 \in 0 .. NBUF
    BY DEF BioAssumption
  <2>. QED
    BY <2>1, <2>2 DEF Init, TypeOK
<1>5. OneBufferPerBlock /\ NoPanic
  BY DEF Init, OneBufferPerBlock, NoPanic
<1>6. RefcntIsExact
  <2>1. \A x \in Bufs : x # 0 /\ refcnt[x] = 0 /\ x \notin pinned
    BY DEF Init, Bufs
  <2>2. \A p \in Procs : cur[p] = 0
    BY DEF Init
  <2>3. \A x \in Bufs : {p \in Procs : cur[p] = x} = {}
    BY <2>1, <2>2
  <2>. QED
    BY <2>1, <2>3, FS_EmptySet DEF RefcntIsExact
<1>7. UseInv
  BY FS_EmptySet DEF Init, UseInv, BioAssumption
<1>8. LockInv
  <2>1. \A q \in Procs : q # Nobody
    BY DEF BioAssumption
  <2>. QED
    BY <2>1 DEF Init, LockInv, Using, SleepersWaitForHolder
<1>9. DataInv
  BY DEF Init, DataInv, BioAssumption
<1>. QED
  BY <1>3, <1>4, <1>5, <1>6, <1>7, <1>8, <1>9 DEF Inv

LEMMA NextInv == ASSUME BioAssumption, Inv, [Next]_vars PROVE Inv'
<1>1. CASE UNCHANGED vars
  <2>1. TypeOK' /\ ListInv' /\ OneBufferPerBlock' /\ NoPanic'
    BY <1>1 DEF vars, Inv, TypeOK, ListInv, OneBufferPerBlock, NoPanic
  <2>2. RefcntIsExact' /\ UseInv' /\ LockInv'
    BY <1>1 DEF vars, Inv, RefcntIsExact, UseInv, LockInv, SleepersWaitForHolder
  <2>3. DataInv'
    BY <1>1 DEF vars, Inv, DataInv, Clean, Cached
  <2>. QED
    BY <2>1, <2>2, <2>3 DEF Inv
<1>2. CASE Next
  BY <1>2, BgetStep, ModifyStep, AcquireSleepStep, BreadStep, BwriteStep, BpinStep, BunpinStep,
    BrelseStep, BrelsePutStep DEF Next
<1>. QED
  BY <1>1, <1>2

\* Spec keeps the invariant.
THEOREM BioInvariant == ASSUME BioAssumption PROVE Spec => []Inv
<1>1. Init => Inv
  BY InitInv
<1>2. Inv /\ [Next]_vars => Inv'
  BY NextInv
<1>. QED
  BY <1>1, <1>2, PTL DEF Spec

\* bget(), brelse(), bpin() and bunpin(): a block is never in two buffers, the
\* reference counts are exact, and with a buffer for each process and each
\* block of the log bget() does not panic.
THEOREM CacheStaysExact == ASSUME BioAssumption PROVE Spec => []CacheIsExact
<1>1. Inv => CacheIsExact
  BY DEF Inv, CacheIsExact
<1>. QED
  BY <1>1, BioInvariant, PTL

\* The sleep-lock of a buffer: one process uses it, and no process sleeps for
\* a lock that is free.
THEOREM BufferLockIsExclusive == ASSUME BioAssumption PROVE Spec => []LockIsExclusive
<1>1. Inv => LockIsExclusive
  <2>. SUFFICES ASSUME Inv PROVE OneUserPerBuffer /\ SleepersWaitForHolder
    BY DEF LockIsExclusive
  <2>1. OneUserPerBuffer
    BY OnlyUser DEF OneUserPerBuffer, Using
  <2>. QED
    BY <2>1 DEF Inv, LockInv
<1>. QED
  BY <1>1, BioInvariant, PTL

\* bread() returns what the last process left in the block, also after its
\* buffer was recycled: only a buffer that is on the disk is.
THEOREM ReadersSeeLatest == ASSUME BioAssumption PROVE Spec => []SeesLatest
<1>1. Inv => SeesLatest
  <2>. SUFFICES ASSUME Inv, NEW p \in Procs, pc[p] \in {"clean", "dirty"}
                PROVE  data[cur[p]] = latest[blockno[cur[p]]]
    BY DEF SeesLatest
  <2>1. cur[p] \in Bufs /\ blockno[cur[p]] \in Blocks /\ valid[cur[p]]
    BY OnlyUser DEF Inv, UseInv, Using
  <2>. QED
    BY <2>1 DEF Inv, DataInv
<1>. QED
  BY <1>1, BioInvariant, PTL
=============================================================================
