----------------------------- MODULE PipeProofs -----------------------------
(***************************************************************************)
(* Proofs about the pipe, for any number of processes, any PIPESIZE and    *)
(* any width of the counters that PIPESIZE divides: the ring implements    *)
(* ByteQueue, the pipe is freed once and when nobody uses it, and nobody   *)
(* sleeps beside what it waits for.                                        *)
(***************************************************************************)
EXTENDS Pipe, TLAPS

WritePcs == {"w_lock", "w_loop", "w_sleep", "w_asleep"}
ReadPcs == {"r_lock", "r_wait", "r_sleep", "r_asleep", "r_copy"}
LockedPcs == {"w_loop", "w_sleep", "r_wait", "r_sleep", "r_copy"}

\* An end is open as long as a descriptor of it is, and the pipe is freed with
\* the second end.
EndsInv ==
  /\ readopen <=> \E p \in Procs : "r" \in ends[p]
  /\ writeopen <=> \E p \in Procs : "w" \in ends[p]
  /\ frees = IF readopen \/ writeopen THEN 0 ELSE 1

\* A call in progress has its descriptor.
CallsInv ==
  \A p \in Procs : /\ pc[p] \in WritePcs => "w" \in ends[p]
                   /\ pc[p] \in ReadPcs => "r" \in ends[p]

\* pi->lock is held where the code is between acquire() and release().
LockInv == \A p \in Procs : pc[p] \in LockedPcs <=> lock = p

\* Who sleeps or is about to has its reason, but for the time until the holder
\* of the lock wakes the sleepers: a reader when it returns, a writer when it
\* returns or finds the pipe full.
SleepInv ==
  \A p \in Procs :
    /\ pc[p] = "w_sleep" => Full /\ readopen
    /\ pc[p] = "w_asleep" => \/ Full /\ readopen
                             \/ \E q \in Procs : pc[q] = "r_copy"
    /\ pc[p] = "r_sleep" => Empty /\ writeopen
    /\ pc[p] = "r_asleep" =>
         writeopen /\ (Empty \/ \E q \in Procs : killed[q] \/ pc[q] = "w_loop")

\* At most PIPESIZE bytes are in the ring.
RingInv == Pending <= PIPESIZE

Inv == TypeOK /\ RingInv /\ EndsInv /\ CallsInv /\ LockInv /\ SleepInv

-----------------------------------------------------------------------------
(* Slots and counters *)

\* Quotient and remainder.
LEMMA Division ==
  ASSUME NEW P \in Nat \ {0}, NEW a \in Int
  PROVE  a % P \in 0 .. P - 1 /\ \E k \in Int : a = k * P + (a % P)
<1>1. a \div P \in Int /\ a = (a \div P) * P + (a % P)
  OBVIOUS
<1>2. a % P \in 0 .. P - 1
  OBVIOUS
<1>. QED
  BY <1>1, <1>2

\* Zero is the only multiple of P that is less than P away from zero.
LEMMA SmallMultiple ==
  ASSUME NEW P \in Nat \ {0}, NEW k \in Int, k * P < P, 0 - P < k * P
  PROVE  k = 0
<1>1. k >= 1 => k * P >= P
  OBVIOUS
<1>2. k <= -1 => k * P <= -P
  OBVIOUS
<1>. QED
  BY <1>1, <1>2

\* The remainder is the only number below P that is a multiple of P away.
LEMMA RemainderUnique ==
  ASSUME NEW P \in Nat \ {0}, NEW a \in Int, NEW k \in Int, NEW r \in 0 .. P - 1,
         a = k * P + r
  PROVE  a % P = r
<1>1. PICK j \in Int : a = j * P + (a % P)
  BY Division
<1>2. a % P \in 0 .. P - 1
  BY Division
<1>3. (k - j) * P = k * P - j * P
  OBVIOUS
<1>4. (k - j) * P = (a % P) - r
  BY <1>1, <1>2, <1>3
<1>5. k - j \in Int /\ (k - j) * P < P /\ 0 - P < (k - j) * P
  BY <1>2, <1>4
<1>6. k - j = 0
  BY <1>5, SmallMultiple
<1>. QED
  BY <1>1, <1>2, <1>6

\* A counter that wraps at a multiple of PIPESIZE stays at its slot.
LEMMA WrapKeepsSlot ==
  ASSUME NEW P \in Nat \ {0}, NEW U \in Nat, U % P = 0, NEW a \in Int
  PROVE  (a + U) % P = a % P
<1>1. PICK j \in Int : a = j * P + (a % P)
  BY Division
<1>2. PICK k \in Int : U = k * P
  <2>1. U \in Int
    OBVIOUS
  <2>2. U \div P \in Int /\ U = (U \div P) * P + (U % P)
    OBVIOUS
  <2>3. U = (U \div P) * P
    BY <2>1, <2>2
  <2>. QED
    BY <2>2, <2>3
<1>3. PICK r \in 0 .. P - 1 : r = a % P
  BY Division
<1>4. (j + k) * P = j * P + k * P
  OBVIOUS
<1>5. j * P \in Int /\ k * P \in Int /\ (j + k) * P \in Int
  OBVIOUS
<1>6. a = j * P + r
  BY <1>1, <1>3
<1>7. a + U = (j + k) * P + r
  BY <1>2, <1>4, <1>5, <1>6
<1>8. a + U \in Int /\ j + k \in Int
  OBVIOUS
<1>9. (a + U) % P = r
  BY <1>7, <1>8, RemainderUnique
<1>. QED
  BY <1>3, <1>9

\* Fewer than PIPESIZE bytes apart, two bytes have different slots.
LEMMA SlotsDiffer ==
  ASSUME NEW P \in Nat \ {0}, NEW a \in Int, NEW b \in Int, a < b, b < a + P
  PROVE  a % P # b % P
<1>. SUFFICES ASSUME a % P = b % P PROVE FALSE
  OBVIOUS
<1>1. PICK j \in Int : a = j * P + (a % P)
  BY Division
<1>2. PICK k \in Int : b = k * P + (b % P)
  BY Division
<1>3. a % P \in 0 .. P - 1 /\ b % P \in 0 .. P - 1
  BY Division
<1>4. (k - j) * P = k * P - j * P
  OBVIOUS
<1>5. (k - j) * P = b - a
  BY <1>1, <1>2, <1>3, <1>4
<1>6. k - j = 0
  BY <1>5, SmallMultiple
<1>. QED
  BY <1>5, <1>6

\* The number of bytes between two counters, of which w may have wrapped and
\* r not.
LEMMA Distance ==
  ASSUME PipeAssumption, NEW r \in 0 .. UINT - 1, NEW w \in 0 .. UINT - 1
  PROVE  /\ (w - r) % UINT \in 0 .. UINT - 1
         /\ r + ((w - r) % UINT) = w \/ r + ((w - r) % UINT) = w + UINT
         /\ r = w <=> (w - r) % UINT = 0
         /\ w = (r + PIPESIZE) % UINT <=> (w - r) % UINT = PIPESIZE
<1>1. UINT \in Nat \ {0} /\ PIPESIZE \in Nat \ {0} /\ UINT > PIPESIZE
  BY DEF PipeAssumption
<1>2. r <= w => (w - r) % UINT = w - r
  BY <1>1
<1>3. r > w => (w - r) % UINT = w - r + UINT
  BY <1>1
<1>4. r + PIPESIZE < UINT => (r + PIPESIZE) % UINT = r + PIPESIZE
  BY <1>1
<1>5. r + PIPESIZE >= UINT => (r + PIPESIZE) % UINT = r + PIPESIZE - UINT
  BY <1>1
<1>6. w = (r + PIPESIZE) % UINT <=> (w - r) % UINT = PIPESIZE
  BY <1>1, <1>2, <1>3, <1>4, <1>5
<1>. QED
  BY <1>1, <1>2, <1>3, <1>6

\* The bytes in the ring, and the tests of the two loops.
LEMMA PendingFacts ==
  ASSUME PipeAssumption, TypeOK
  PROVE  /\ Pending \in 0 .. UINT - 1
         /\ nread + Pending = nwrite \/ nread + Pending = nwrite + UINT
         /\ Empty <=> Pending = 0
         /\ Full <=> Pending = PIPESIZE
BY Distance DEF TypeOK, Pending, Empty, Full

\* n++ in 32 bits.
LEMMA IncFacts ==
  ASSUME PipeAssumption, NEW n \in 0 .. UINT - 1
  PROVE  /\ Inc(n) \in 0 .. UINT - 1
         /\ Inc(n) = n + 1 \/ (n = UINT - 1 /\ Inc(n) = 0)
BY DEF PipeAssumption, Inc

LEMMA SlotFacts ==
  ASSUME PipeAssumption, NEW n \in Int
  PROVE  Slot(n) \in 0 .. PIPESIZE - 1 /\ Slot(n + UINT) = Slot(n)
BY Division, WrapKeepsSlot DEF PipeAssumption, Slot

-----------------------------------------------------------------------------
(* What the steps share *)

\* A step that leaves the fields of the pipe alone.
LEMMA PipeUnchanged ==
  ASSUME Inv, UNCHANGED <<pipeVars, frees, ends>>
  PROVE  /\ RingInv' /\ EndsInv' /\ Full' = Full /\ Empty' = Empty
         /\ readopen' = readopen /\ writeopen' = writeopen
BY DEF Inv, RingInv, EndsInv, Pending, Full, Empty, pipeVars

\* wakeup() moves processes from one point to another and no others.
LEMMA WakeupType ==
  ASSUME NEW f \in [Procs -> Pcs], NEW at \in Pcs, NEW to \in Pcs
  PROVE  /\ Wakeup(f, at, to) \in [Procs -> Pcs]
         /\ \A p \in Procs : Wakeup(f, at, to)[p] = IF f[p] = at THEN to ELSE f[p]
BY DEF Wakeup

LEMMA WakeFacts ==
  ASSUME NEW f \in [Procs -> Pcs]
  PROVE  /\ WakeReaders(f) \in [Procs -> Pcs] /\ WakeWriters(f) \in [Procs -> Pcs]
         /\ \A p \in Procs : WakeReaders(f)[p] = IF f[p] = "r_asleep" THEN "r_lock" ELSE f[p]
         /\ \A p \in Procs : WakeWriters(f)[p] = IF f[p] = "w_asleep" THEN "w_lock" ELSE f[p]
BY WakeupType DEF WakeReaders, WakeWriters, Pcs

\* Who holds the lock.
LEMMA HolderFacts ==
  ASSUME PipeAssumption, Inv, NEW p \in Procs, pc[p] \in LockedPcs
  PROVE  lock = p /\ lock # Nobody /\ \A q \in Procs : pc[q] \in LockedPcs => q = p
BY DEF PipeAssumption, Inv, LockInv

-----------------------------------------------------------------------------
(* The actions of pipewrite() *)

LEMMA WriteCallInv ==
  ASSUME PipeAssumption, Inv, NEW p \in Procs, NEW n \in 0 .. MaxCount, WriteCall(p, n)
  PROVE  Inv'
<1>1. TypeOK'
  BY DEF Inv, TypeOK, WriteCall, pipeVars, Pcs
<1>2. /\ RingInv' /\ EndsInv' /\ Full' = Full /\ Empty' = Empty
      /\ readopen' = readopen /\ writeopen' = writeopen
  BY PipeUnchanged DEF WriteCall
<1>3. CallsInv'
  BY DEF Inv, TypeOK, CallsInv, WriteCall, WritePcs, ReadPcs
<1>4. LockInv'
  BY DEF Inv, TypeOK, LockInv, WriteCall, LockedPcs
<1>5. SleepInv'
  BY <1>2 DEF Inv, TypeOK, SleepInv, WriteCall
<1>. QED
  BY <1>1, <1>2, <1>3, <1>4, <1>5 DEF Inv

LEMMA WriteLockInv ==
  ASSUME PipeAssumption, Inv, NEW p \in Procs, WriteLock(p)
  PROVE  Inv'
<1>1. TypeOK'
  BY DEF Inv, TypeOK, WriteLock, pipeVars, Pcs
<1>2. /\ RingInv' /\ EndsInv' /\ Full' = Full /\ Empty' = Empty
      /\ readopen' = readopen /\ writeopen' = writeopen
  BY PipeUnchanged DEF WriteLock
<1>3. CallsInv'
  BY DEF Inv, TypeOK, CallsInv, WriteLock, WritePcs, ReadPcs
<1>4. LockInv'
  BY DEF PipeAssumption, Inv, TypeOK, LockInv, WriteLock, LockedPcs
<1>5. SleepInv'
  BY <1>2 DEF Inv, TypeOK, SleepInv, WriteLock
<1>. QED
  BY <1>1, <1>2, <1>3, <1>4, <1>5 DEF Inv

LEMMA WriteDoneInv ==
  ASSUME PipeAssumption, Inv, NEW p \in Procs, WriteDone(p)
  PROVE  Inv'
<1>. DEFINE f == WakeReaders(pc)
<1>0. /\ f \in [Procs -> Pcs]
      /\ \A q \in Procs : f[q] = IF pc[q] = "r_asleep" THEN "r_lock" ELSE pc[q]
  BY WakeFacts DEF Inv, TypeOK
<1>. HIDE DEF f
<1>s. /\ pc[p] = "w_loop"
      /\ pc' = [f EXCEPT ![p] = "idle"] /\ left' = [left EXCEPT ![p] = 0]
      /\ lock' = Nobody
      /\ UNCHANGED <<pipeVars, frees, ends, killed>>
  BY DEF WriteDone, Return, f
<1>h. \A q \in Procs : pc[q] \in LockedPcs => q = p
  BY <1>s, HolderFacts DEF LockedPcs
<1>1. TypeOK'
  BY <1>0, <1>s DEF PipeAssumption, Inv, TypeOK, pipeVars, Pcs
<1>2. /\ RingInv' /\ EndsInv' /\ Full' = Full /\ Empty' = Empty
      /\ readopen' = readopen /\ writeopen' = writeopen
  BY <1>s, PipeUnchanged
<1>p. \A q \in Procs : pc'[q] = IF q = p THEN "idle" ELSE IF pc[q] = "r_asleep" THEN "r_lock" ELSE pc[q]
  BY <1>0, <1>s
<1>3. CallsInv'
  BY <1>p, <1>s DEF Inv, CallsInv, WritePcs, ReadPcs
<1>4. LockInv'
  BY <1>p, <1>s, <1>h DEF PipeAssumption, LockInv, LockedPcs
<1>5. SleepInv'
  BY <1>2, <1>p, <1>s, <1>h DEF Inv, SleepInv, LockedPcs
<1>. QED
  BY <1>1, <1>2, <1>3, <1>4, <1>5 DEF Inv

LEMMA WriteFailsInv ==
  ASSUME PipeAssumption, Inv, NEW p \in Procs, WriteFails(p)
  PROVE  Inv'
<1>s. /\ pc[p] = "w_loop" /\ (~readopen \/ killed[p])
      /\ pc' = [pc EXCEPT ![p] = "idle"] /\ left' = [left EXCEPT ![p] = 0]
      /\ lock' = Nobody
      /\ UNCHANGED <<pipeVars, frees, ends, killed>>
  BY DEF WriteFails, Return
<1>h. \A q \in Procs : pc[q] \in LockedPcs => q = p
  BY <1>s, HolderFacts DEF LockedPcs
<1>1. TypeOK'
  BY <1>s DEF PipeAssumption, Inv, TypeOK, pipeVars, Pcs
<1>2. /\ RingInv' /\ EndsInv' /\ Full' = Full /\ Empty' = Empty
      /\ readopen' = readopen /\ writeopen' = writeopen
  BY <1>s, PipeUnchanged
<1>3. CallsInv'
  BY <1>s DEF Inv, TypeOK, CallsInv, WritePcs, ReadPcs
<1>4. LockInv'
  BY <1>s, <1>h DEF PipeAssumption, Inv, TypeOK, LockInv, LockedPcs
<1>5. SleepInv'
  \* A reader asleep has its end open, so that the writer was killed.
  <2>1. \A q \in Procs : pc[q] = "r_asleep" => killed[p]
    BY <1>s DEF Inv, EndsInv, CallsInv, ReadPcs
  <2>. QED
    BY <1>2, <1>s, <1>h, <2>1 DEF Inv, TypeOK, SleepInv, LockedPcs
<1>. QED
  BY <1>1, <1>2, <1>3, <1>4, <1>5 DEF Inv

LEMMA WriteFullInv ==
  ASSUME PipeAssumption, Inv, NEW p \in Procs, WriteFull(p)
  PROVE  Inv'
<1>. DEFINE f == WakeReaders(pc)
<1>0. /\ f \in [Procs -> Pcs]
      /\ \A q \in Procs : f[q] = IF pc[q] = "r_asleep" THEN "r_lock" ELSE pc[q]
  BY WakeFacts DEF Inv, TypeOK
<1>. HIDE DEF f
<1>s. /\ pc[p] = "w_loop" /\ Full /\ readopen
      /\ pc' = [f EXCEPT ![p] = "w_sleep"]
      /\ UNCHANGED <<pipeVars, lock, frees, ends, left, killed>>
  BY DEF WriteFull, f
<1>h. lock = p /\ \A q \in Procs : pc[q] \in LockedPcs => q = p
  BY <1>s, HolderFacts DEF LockedPcs
<1>1. TypeOK'
  BY <1>0, <1>s DEF Inv, TypeOK, pipeVars, Pcs
<1>2. /\ RingInv' /\ EndsInv' /\ Full' = Full /\ Empty' = Empty
      /\ readopen' = readopen /\ writeopen' = writeopen
  BY <1>s, PipeUnchanged
<1>p. \A q \in Procs :
        pc'[q] = IF q = p THEN "w_sleep" ELSE IF pc[q] = "r_asleep" THEN "r_lock" ELSE pc[q]
  BY <1>0, <1>s
<1>3. CallsInv'
  BY <1>p, <1>s DEF Inv, CallsInv, WritePcs, ReadPcs
<1>4. LockInv'
  BY <1>p, <1>s, <1>h DEF LockInv, LockedPcs
<1>5. SleepInv'
  BY <1>2, <1>p, <1>s, <1>h DEF Inv, SleepInv, LockedPcs
<1>. QED
  BY <1>1, <1>2, <1>3, <1>4, <1>5 DEF Inv

LEMMA WriteSleepInv ==
  ASSUME PipeAssumption, Inv, NEW p \in Procs, WriteSleep(p)
  PROVE  Inv'
<1>s. /\ pc[p] = "w_sleep" /\ lock' = Nobody
      /\ pc' = [pc EXCEPT ![p] = "w_asleep"]
      /\ UNCHANGED <<pipeVars, frees, ends, left, killed>>
  BY DEF WriteSleep
<1>h. \A q \in Procs : pc[q] \in LockedPcs => q = p
  BY <1>s, HolderFacts DEF LockedPcs
<1>1. TypeOK'
  BY <1>s DEF Inv, TypeOK, pipeVars, Pcs
<1>2. /\ RingInv' /\ EndsInv' /\ Full' = Full /\ Empty' = Empty
      /\ readopen' = readopen /\ writeopen' = writeopen
  BY <1>s, PipeUnchanged
<1>3. CallsInv'
  BY <1>s DEF Inv, TypeOK, CallsInv, WritePcs, ReadPcs
<1>4. LockInv'
  BY <1>s, <1>h DEF PipeAssumption, Inv, TypeOK, LockInv, LockedPcs
<1>5. SleepInv'
  BY <1>2, <1>s, <1>h DEF Inv, TypeOK, SleepInv, LockedPcs
<1>. QED
  BY <1>1, <1>2, <1>3, <1>4, <1>5 DEF Inv

\* The writer adds a byte to the count and the reader takes one, whether or not
\* the counter wraps.
LEMMA WriteCount ==
  ASSUME PipeAssumption, Inv, ~Full, nwrite' = Inc(nwrite), nread' = nread
  PROVE  Pending' = Pending + 1 /\ Pending < PIPESIZE /\ nwrite' \in 0 .. UINT - 1
<1>1. UINT \in Nat /\ PIPESIZE \in Nat /\ UINT > PIPESIZE
  BY DEF PipeAssumption
<1>2. nread \in 0 .. UINT - 1 /\ nwrite \in 0 .. UINT - 1
  BY DEF Inv, TypeOK
<1>3. /\ Pending \in 0 .. UINT - 1 /\ Pending < PIPESIZE
      /\ nread + Pending = nwrite \/ nread + Pending = nwrite + UINT
  BY <1>1, PendingFacts DEF Inv, RingInv
<1>4. /\ nwrite' \in 0 .. UINT - 1
      /\ nwrite' = nwrite + 1 \/ (nwrite = UINT - 1 /\ nwrite' = 0)
  BY <1>2, IncFacts
<1>5. /\ Pending' \in 0 .. UINT - 1
      /\ nread + Pending' = nwrite' \/ nread + Pending' = nwrite' + UINT
  BY <1>2, <1>4, Distance DEF Pending
<1>. QED
  BY <1>1, <1>2, <1>3, <1>4, <1>5

LEMMA ReadCount ==
  ASSUME PipeAssumption, Inv, ~Empty, nread' = Inc(nread), nwrite' = nwrite
  PROVE  /\ Pending' = Pending - 1 /\ Pending \in 1 .. PIPESIZE
         /\ nread' \in 0 .. UINT - 1
<1>1. UINT \in Nat /\ PIPESIZE \in Nat /\ UINT > PIPESIZE
  BY DEF PipeAssumption
<1>2. nread \in 0 .. UINT - 1 /\ nwrite \in 0 .. UINT - 1
  BY DEF Inv, TypeOK
<1>3. /\ Pending \in 0 .. UINT - 1 /\ Pending # 0 /\ Pending <= PIPESIZE
      /\ nread + Pending = nwrite \/ nread + Pending = nwrite + UINT
  BY <1>1, PendingFacts DEF Inv, RingInv
<1>4. /\ nread' \in 0 .. UINT - 1
      /\ nread' = nread + 1 \/ (nread = UINT - 1 /\ nread' = 0)
  BY <1>2, IncFacts
<1>5. /\ Pending' \in 0 .. UINT - 1
      /\ nread' + Pending' = nwrite \/ nread' + Pending' = nwrite + UINT
  BY <1>2, <1>4, Distance DEF Pending
<1>. QED
  BY <1>1, <1>2, <1>3, <1>4, <1>5

LEMMA WriteByteInv ==
  ASSUME PipeAssumption, Inv, NEW p \in Procs, NEW d \in Bytes, WriteByte(p, d)
  PROVE  Inv'
<1>s. /\ pc[p] = "w_loop" /\ left[p] > 0 /\ ~Full
      /\ data' = [data EXCEPT ![Slot(nwrite)] = d]
      /\ nwrite' = Inc(nwrite)
      /\ left' = [left EXCEPT ![p] = @ - 1]
      /\ UNCHANGED <<nread, readopen, writeopen, lock, frees, ends, pc, killed>>
  BY DEF WriteByte
<1>h. \A q \in Procs : pc[q] \in LockedPcs => q = p
  BY <1>s, HolderFacts DEF LockedPcs
<1>c. Pending' = Pending + 1 /\ Pending < PIPESIZE /\ nwrite' \in 0 .. UINT - 1
  BY <1>s, WriteCount
<1>1. TypeOK'
  <2>1. data' \in [0 .. PIPESIZE - 1 -> Bytes]
    BY <1>s DEF Inv, TypeOK
  <2>2. left' \in [Procs -> 0 .. MaxCount]
    BY <1>s DEF PipeAssumption, Inv, TypeOK
  <2>. QED
    BY <1>s, <1>c, <2>1, <2>2 DEF Inv, TypeOK
<1>2. RingInv'
  BY <1>c, PendingFacts DEF PipeAssumption, Inv, RingInv
<1>3. EndsInv' /\ CallsInv' /\ LockInv'
  BY <1>s DEF Inv, EndsInv, CallsInv, LockInv
<1>4. SleepInv'
  <2>1. \A q \in Procs : pc[q] \notin {"w_sleep", "r_sleep", "r_copy"}
    BY <1>s, <1>h DEF LockedPcs
  <2>. QED
    BY <1>s, <2>1 DEF Inv, SleepInv
<1>. QED
  BY <1>1, <1>2, <1>3, <1>4 DEF Inv

-----------------------------------------------------------------------------
(* The actions of piperead() *)

LEMMA ReadCallInv ==
  ASSUME PipeAssumption, Inv, NEW p \in Procs, NEW n \in 0 .. MaxCount, ReadCall(p, n)
  PROVE  Inv'
<1>1. TypeOK'
  BY DEF Inv, TypeOK, ReadCall, pipeVars, Pcs
<1>2. /\ RingInv' /\ EndsInv' /\ Full' = Full /\ Empty' = Empty
      /\ readopen' = readopen /\ writeopen' = writeopen
  BY PipeUnchanged DEF ReadCall
<1>3. CallsInv'
  BY DEF Inv, TypeOK, CallsInv, ReadCall, WritePcs, ReadPcs
<1>4. LockInv'
  BY DEF Inv, TypeOK, LockInv, ReadCall, LockedPcs
<1>5. SleepInv'
  BY <1>2 DEF Inv, TypeOK, SleepInv, ReadCall
<1>. QED
  BY <1>1, <1>2, <1>3, <1>4, <1>5 DEF Inv

LEMMA ReadLockInv ==
  ASSUME PipeAssumption, Inv, NEW p \in Procs, ReadLock(p)
  PROVE  Inv'
<1>1. TypeOK'
  BY DEF Inv, TypeOK, ReadLock, pipeVars, Pcs
<1>2. /\ RingInv' /\ EndsInv' /\ Full' = Full /\ Empty' = Empty
      /\ readopen' = readopen /\ writeopen' = writeopen
  BY PipeUnchanged DEF ReadLock
<1>3. CallsInv'
  BY DEF Inv, TypeOK, CallsInv, ReadLock, WritePcs, ReadPcs
<1>4. LockInv'
  BY DEF PipeAssumption, Inv, TypeOK, LockInv, ReadLock, LockedPcs
<1>5. SleepInv'
  BY <1>2 DEF Inv, TypeOK, SleepInv, ReadLock
<1>. QED
  BY <1>1, <1>2, <1>3, <1>4, <1>5 DEF Inv

LEMMA ReadWaitInv ==
  ASSUME PipeAssumption, Inv, NEW p \in Procs, ReadWait(p)
  PROVE  Inv'
<1>s. /\ pc[p] = "r_wait" /\ Empty /\ writeopen
      /\ UNCHANGED <<pipeVars, frees, ends, killed>>
  BY DEF ReadWait, MustWait
<1>h. lock = p /\ \A q \in Procs : pc[q] \in LockedPcs => q = p
  BY <1>s, HolderFacts DEF LockedPcs
<1>2. /\ RingInv' /\ EndsInv' /\ Full' = Full /\ Empty' = Empty
      /\ readopen' = readopen /\ writeopen' = writeopen
  BY <1>s, PipeUnchanged
<1>a. CASE /\ pc' = [pc EXCEPT ![p] = "idle"] /\ left' = [left EXCEPT ![p] = 0]
           /\ lock' = Nobody
  <2>1. TypeOK'
    BY <1>a, <1>s DEF PipeAssumption, Inv, TypeOK, pipeVars, Pcs
  <2>2. CallsInv'
    BY <1>a, <1>s DEF Inv, TypeOK, CallsInv, WritePcs, ReadPcs
  <2>3. LockInv'
    BY <1>a, <1>h DEF PipeAssumption, Inv, TypeOK, LockInv, LockedPcs
  <2>4. SleepInv'
    BY <1>a, <1>2, <1>s, <1>h DEF Inv, TypeOK, SleepInv, LockedPcs
  <2>. QED
    BY <1>2, <2>1, <2>2, <2>3, <2>4 DEF Inv
<1>b. CASE pc' = [pc EXCEPT ![p] = "r_sleep"] /\ UNCHANGED <<left, lock>>
  <2>1. TypeOK'
    BY <1>b, <1>s DEF Inv, TypeOK, pipeVars, Pcs
  <2>2. CallsInv'
    BY <1>b, <1>s DEF Inv, TypeOK, CallsInv, WritePcs, ReadPcs
  <2>3. LockInv'
    BY <1>b, <1>h DEF Inv, TypeOK, LockInv, LockedPcs
  <2>4. SleepInv'
    BY <1>b, <1>2, <1>s, <1>h DEF Inv, TypeOK, SleepInv, LockedPcs
  <2>. QED
    BY <1>2, <2>1, <2>2, <2>3, <2>4 DEF Inv
<1>. QED
  BY <1>a, <1>b DEF ReadWait, Return

LEMMA ReadSleepInv ==
  ASSUME PipeAssumption, Inv, NEW p \in Procs, ReadSleep(p)
  PROVE  Inv'
<1>s. /\ pc[p] = "r_sleep" /\ lock' = Nobody
      /\ pc' = [pc EXCEPT ![p] = "r_asleep"]
      /\ UNCHANGED <<pipeVars, frees, ends, left, killed>>
  BY DEF ReadSleep
<1>h. \A q \in Procs : pc[q] \in LockedPcs => q = p
  BY <1>s, HolderFacts DEF LockedPcs
<1>1. TypeOK'
  BY <1>s DEF Inv, TypeOK, pipeVars, Pcs
<1>2. /\ RingInv' /\ EndsInv' /\ Full' = Full /\ Empty' = Empty
      /\ readopen' = readopen /\ writeopen' = writeopen
  BY <1>s, PipeUnchanged
<1>3. CallsInv'
  BY <1>s DEF Inv, TypeOK, CallsInv, WritePcs, ReadPcs
<1>4. LockInv'
  BY <1>s, <1>h DEF PipeAssumption, Inv, TypeOK, LockInv, LockedPcs
<1>5. SleepInv'
  BY <1>2, <1>s, <1>h DEF Inv, TypeOK, SleepInv, LockedPcs
<1>. QED
  BY <1>1, <1>2, <1>3, <1>4, <1>5 DEF Inv

LEMMA ReadReadyInv ==
  ASSUME PipeAssumption, Inv, NEW p \in Procs, ReadReady(p)
  PROVE  Inv'
<1>s. /\ pc[p] = "r_wait" /\ pc' = [pc EXCEPT ![p] = "r_copy"]
      /\ UNCHANGED <<pipeVars, lock, frees, ends, left, killed>>
  BY DEF ReadReady
<1>1. TypeOK'
  BY <1>s DEF Inv, TypeOK, pipeVars, Pcs
<1>2. /\ RingInv' /\ EndsInv' /\ Full' = Full /\ Empty' = Empty
      /\ readopen' = readopen /\ writeopen' = writeopen
  BY <1>s, PipeUnchanged
<1>3. CallsInv'
  BY <1>s DEF Inv, TypeOK, CallsInv, WritePcs, ReadPcs
<1>4. LockInv'
  BY <1>s DEF Inv, TypeOK, LockInv, LockedPcs
<1>5. SleepInv'
  BY <1>2, <1>s DEF Inv, TypeOK, SleepInv
<1>. QED
  BY <1>1, <1>2, <1>3, <1>4, <1>5 DEF Inv

\* The reader returns and wakes all writers.
LEMMA ReadReturn ==
  ASSUME PipeAssumption, Inv, NEW p \in Procs, pc[p] = "r_copy",
         Return(p, WakeWriters(pc)),
         UNCHANGED <<data, nwrite, readopen, writeopen, frees, ends, killed>>,
         nread' \in 0 .. UINT - 1, RingInv', Empty => Empty'
  PROVE  Inv'
<1>. DEFINE f == WakeWriters(pc)
<1>0. /\ f \in [Procs -> Pcs]
      /\ \A q \in Procs : f[q] = IF pc[q] = "w_asleep" THEN "w_lock" ELSE pc[q]
  BY WakeFacts DEF Inv, TypeOK
<1>. HIDE DEF f
<1>s. /\ pc' = [f EXCEPT ![p] = "idle"] /\ left' = [left EXCEPT ![p] = 0]
      /\ lock' = Nobody
  BY DEF Return, f
<1>h. \A q \in Procs : pc[q] \in LockedPcs => q = p
  BY <1>s, HolderFacts DEF LockedPcs
<1>1. TypeOK'
  BY <1>0, <1>s DEF PipeAssumption, Inv, TypeOK, Pcs
<1>p. \A q \in Procs : pc'[q] = IF q = p THEN "idle" ELSE IF pc[q] = "w_asleep" THEN "w_lock" ELSE pc[q]
  BY <1>0, <1>s
<1>2. EndsInv'
  BY DEF Inv, EndsInv
<1>3. CallsInv'
  BY <1>p DEF Inv, CallsInv, WritePcs, ReadPcs
<1>4. LockInv'
  BY <1>p, <1>s, <1>h DEF PipeAssumption, LockInv, LockedPcs
<1>5. SleepInv'
  <2>1. \A q \in Procs : pc[q] \in {"w_sleep", "r_sleep", "w_loop"} => FALSE
    BY <1>h DEF LockedPcs
  <2>. QED
    BY <1>p, <2>1 DEF Inv, SleepInv
<1>. QED
  BY <1>1, <1>2, <1>3, <1>4, <1>5 DEF Inv

LEMMA ReadByteInv ==
  ASSUME PipeAssumption, Inv, NEW p \in Procs, ReadByte(p)
  PROVE  Inv'
<1>s. /\ pc[p] = "r_copy" /\ left[p] > 0 /\ ~Empty
      /\ nread' = Inc(nread)
      /\ UNCHANGED <<data, nwrite, readopen, writeopen, frees, ends, killed>>
  BY DEF ReadByte
<1>c. Pending' = Pending - 1 /\ Pending \in 1 .. PIPESIZE /\ nread' \in 0 .. UINT - 1
  BY <1>s, ReadCount
<1>2. RingInv'
  BY <1>c DEF PipeAssumption, RingInv
<1>a. CASE left' = [left EXCEPT ![p] = @ - 1] /\ UNCHANGED <<pc, lock>>
  <2>1. TypeOK'
    <3>1. left' \in [Procs -> 0 .. MaxCount]
      BY <1>a, <1>s DEF PipeAssumption, Inv, TypeOK
    <3>. QED
      BY <1>a, <1>s, <1>c, <3>1 DEF Inv, TypeOK
  <2>2. EndsInv' /\ CallsInv' /\ LockInv'
    BY <1>a, <1>s DEF Inv, EndsInv, CallsInv, LockInv
  <2>3. SleepInv'
    <3>1. \A q \in Procs : pc[q] \notin {"w_sleep", "r_sleep", "w_loop"}
      BY <1>s, HolderFacts DEF LockedPcs
    <3>. QED
      BY <1>a, <1>s, <3>1 DEF Inv, SleepInv
  <2>. QED
    BY <1>2, <2>1, <2>2, <2>3 DEF Inv
<1>b. CASE Return(p, WakeWriters(pc))
  BY <1>b, <1>s, <1>c, <1>2, ReadReturn
<1>. QED
  BY <1>a, <1>b DEF ReadByte

LEMMA ReadDoneInv ==
  ASSUME PipeAssumption, Inv, NEW p \in Procs, ReadDone(p)
  PROVE  Inv'
<1>1. /\ pc[p] = "r_copy" /\ Return(p, WakeWriters(pc))
      /\ UNCHANGED <<data, nread, nwrite, readopen, writeopen, frees, ends, killed>>
  BY DEF ReadDone, pipeVars
<1>2. RingInv' /\ Empty' = Empty
  BY <1>1 DEF Inv, RingInv, Pending, Empty
<1>3. nread' \in 0 .. UINT - 1
  BY <1>1 DEF Inv, TypeOK
<1>. QED
  BY <1>1, <1>2, <1>3, ReadReturn

-----------------------------------------------------------------------------
(* pipeclose() and kill() *)

LEMMA KillInv ==
  ASSUME PipeAssumption, Inv, NEW p \in Procs, Kill(p)
  PROVE  Inv'
<1>s. /\ killed' = [killed EXCEPT ![p] = TRUE]
      /\ UNCHANGED <<pipeVars, lock, frees, ends, left>>
  BY DEF Kill
<1>p. /\ pc' \in [Procs -> Pcs]
      /\ \A q \in Procs : \/ pc'[q] = pc[q]
                          \/ pc[q] = "r_asleep" /\ pc'[q] = "r_lock"
                          \/ pc[q] = "w_asleep" /\ pc'[q] = "w_lock"
  BY DEF Kill, Inv, TypeOK, Pcs
<1>k. \A q \in Procs : killed[q] => killed'[q]
  BY <1>s DEF Inv, TypeOK
<1>1. TypeOK'
  BY <1>s, <1>p DEF Inv, TypeOK, pipeVars
<1>2. /\ RingInv' /\ EndsInv' /\ Full' = Full /\ Empty' = Empty
      /\ readopen' = readopen /\ writeopen' = writeopen
  BY <1>s, PipeUnchanged
<1>3. CallsInv'
  BY <1>s, <1>p DEF Inv, CallsInv, WritePcs, ReadPcs
<1>4. LockInv'
  BY <1>s, <1>p DEF Inv, LockInv, LockedPcs
<1>5. SleepInv'
  BY <1>2, <1>p, <1>k DEF Inv, SleepInv
<1>. QED
  BY <1>1, <1>2, <1>3, <1>4, <1>5 DEF Inv

LEMMA CloseInv ==
  ASSUME PipeAssumption, Inv, NEW p \in Procs, NEW e \in {"r", "w"}, Close(p, e)
  PROVE  Inv'
<1>s. /\ pc[p] = "idle" /\ e \in ends[p]
      /\ ends' = [ends EXCEPT ![p] = @ \ {e}]
      /\ UNCHANGED <<data, nread, nwrite, lock, left, killed>>
  BY DEF Close
<1>e. /\ ends' \in [Procs -> SUBSET {"r", "w"}]
      /\ \A q \in Procs \ {p} : ends'[q] = ends[q]
      /\ ends'[p] = ends[p] \ {e}
  BY <1>s DEF Inv, TypeOK
<1>r. RingInv' /\ Full' = Full /\ Empty' = Empty
  BY <1>s DEF Inv, RingInv, Pending, Full, Empty
<1>o. /\ e = "r" => readopen
      /\ e = "w" => writeopen
      /\ frees = 0
  BY <1>s DEF Inv, EndsInv
<1>a. CASE ~LastOf(p, e)
  <2>1. UNCHANGED <<readopen, writeopen, pc, frees>>
    BY <1>a DEF Close
  <2>2. PICK q \in Procs \ {p} : e \in ends[q]
    BY <1>a DEF LastOf
  <2>3. TypeOK'
    BY <1>s, <1>e, <2>1 DEF Inv, TypeOK
  <2>4. EndsInv'
    BY <1>e, <2>1, <2>2 DEF Inv, EndsInv
  <2>5. CallsInv'
    BY <1>s, <1>e, <2>1 DEF Inv, CallsInv, WritePcs, ReadPcs
  <2>6. LockInv' /\ SleepInv'
    BY <1>s, <1>r, <2>1 DEF Inv, LockInv, SleepInv
  <2>. QED
    BY <1>r, <2>3, <2>4, <2>5, <2>6 DEF Inv
<1>b. CASE LastOf(p, e) /\ e = "w"
  <2>1. /\ lock = Nobody
        /\ writeopen' = FALSE /\ readopen' = readopen
        /\ pc' = WakeReaders(pc)
        /\ frees' = IF readopen' \/ writeopen' THEN frees ELSE frees + 1
    BY <1>b DEF Close, PipeClose
  <2>2. /\ pc' \in [Procs -> Pcs]
        /\ \A q \in Procs : pc'[q] = IF pc[q] = "r_asleep" THEN "r_lock" ELSE pc[q]
    BY <2>1, WakeFacts DEF Inv, TypeOK
  <2>3. \A q \in Procs : pc[q] \notin LockedPcs
    BY <2>1 DEF PipeAssumption, Inv, LockInv
  <2>4. TypeOK'
    <3>1. frees' \in Nat
      BY <1>o, <2>1
    <3>2. readopen' \in BOOLEAN /\ writeopen' \in BOOLEAN
      BY <2>1 DEF Inv, TypeOK
    <3>. QED
      BY <1>s, <1>e, <2>2, <3>1, <3>2 DEF Inv, TypeOK
  <2>5. EndsInv'
    <3>1. \A q \in Procs : "w" \notin ends'[q]
      BY <1>b, <1>e DEF LastOf
    <3>2. \A q \in Procs : "r" \in ends'[q] <=> "r" \in ends[q]
      BY <1>b, <1>e
    <3>3. frees' = IF readopen' \/ writeopen' THEN 0 ELSE 1
      BY <1>o, <2>1
    <3>. QED
      BY <2>1, <3>1, <3>2, <3>3 DEF Inv, EndsInv
  <2>6. CallsInv'
    BY <1>s, <1>e, <2>2 DEF Inv, CallsInv, WritePcs, ReadPcs
  <2>7. LockInv'
    BY <1>s, <2>2 DEF Inv, LockInv, LockedPcs
  <2>8. SleepInv'
    BY <1>s, <1>r, <2>1, <2>2, <2>3 DEF Inv, SleepInv, LockedPcs
  <2>. QED
    BY <1>r, <2>4, <2>5, <2>6, <2>7, <2>8 DEF Inv
<1>c. CASE LastOf(p, e) /\ e = "r"
  <2>1. /\ lock = Nobody
        /\ readopen' = FALSE /\ writeopen' = writeopen
        /\ pc' = WakeWriters(pc)
        /\ frees' = IF readopen' \/ writeopen' THEN frees ELSE frees + 1
    BY <1>c DEF Close, PipeClose
  <2>2. /\ pc' \in [Procs -> Pcs]
        /\ \A q \in Procs : pc'[q] = IF pc[q] = "w_asleep" THEN "w_lock" ELSE pc[q]
    BY <2>1, WakeFacts DEF Inv, TypeOK
  <2>3. \A q \in Procs : pc[q] \notin LockedPcs
    BY <2>1 DEF PipeAssumption, Inv, LockInv
  <2>4. TypeOK'
    <3>1. frees' \in Nat
      BY <1>o, <2>1
    <3>2. readopen' \in BOOLEAN /\ writeopen' \in BOOLEAN
      BY <2>1 DEF Inv, TypeOK
    <3>. QED
      BY <1>s, <1>e, <2>2, <3>1, <3>2 DEF Inv, TypeOK
  <2>5. EndsInv'
    <3>1. \A q \in Procs : "r" \notin ends'[q]
      BY <1>c, <1>e DEF LastOf
    <3>2. \A q \in Procs : "w" \in ends'[q] <=> "w" \in ends[q]
      BY <1>c, <1>e
    <3>3. frees' = IF readopen' \/ writeopen' THEN 0 ELSE 1
      BY <1>o, <2>1
    <3>. QED
      BY <2>1, <3>1, <3>2, <3>3 DEF Inv, EndsInv
  <2>6. CallsInv'
    BY <1>s, <1>e, <2>2 DEF Inv, CallsInv, WritePcs, ReadPcs
  <2>7. LockInv'
    BY <1>s, <2>2 DEF Inv, LockInv, LockedPcs
  <2>8. SleepInv'
    BY <1>s, <1>r, <2>1, <2>2, <2>3 DEF Inv, SleepInv, LockedPcs
  <2>. QED
    BY <1>r, <2>4, <2>5, <2>6, <2>7, <2>8 DEF Inv
<1>. QED
  BY <1>a, <1>b, <1>c

-----------------------------------------------------------------------------
(* The invariant *)

LEMMA InitInv == ASSUME PipeAssumption, Init PROVE Inv
<1>1. TypeOK
  BY DEF PipeAssumption, Init, TypeOK, Pcs
<1>2. RingInv
  <2>1. 0 \in 0 .. UINT - 1
    BY DEF PipeAssumption
  <2>2. Pending = 0
    BY <2>1, Distance DEF Init, Pending
  <2>. QED
    BY <2>2 DEF PipeAssumption, RingInv
<1>3. EndsInv
  BY DEF PipeAssumption, Init, EndsInv
<1>4. CallsInv /\ LockInv /\ SleepInv
  BY DEF PipeAssumption, Init, CallsInv, LockInv, SleepInv, WritePcs, ReadPcs, LockedPcs
<1>. QED
  BY <1>1, <1>2, <1>3, <1>4 DEF Inv

LEMMA AdvanceInv ==
  ASSUME PipeAssumption, Inv, NEW p \in Procs, Advance(p)
  PROVE  Inv'
BY WriteLockInv, WriteDoneInv, WriteFailsInv, WriteFullInv, WriteSleepInv, WriteByteInv,
   ReadLockInv, ReadWaitInv, ReadSleepInv, ReadReadyInv, ReadByteInv, ReadDoneInv
   DEF Advance

LEMMA NextInv == ASSUME PipeAssumption, Inv, [Next]_vars PROVE Inv'
<1>1. CASE UNCHANGED vars
  BY <1>1 DEF vars, Inv, TypeOK, RingInv, Pending, EndsInv, CallsInv, LockInv, SleepInv,
              Full, Empty
<1>2. CASE Next
  BY <1>2, AdvanceInv, WriteCallInv, ReadCallInv, CloseInv, KillInv DEF Next
<1>. QED
  BY <1>1, <1>2

-----------------------------------------------------------------------------
(* The ring as a queue *)

\* A sequence, Append and Tail as functions.
LEMMA SequenceIs ==
  ASSUME NEW S, NEW s \in Seq(S), NEW n \in Nat, Len(s) = n
  PROVE  s = [i \in 1 .. n |-> s[i]]
<1>1. s \in [1 .. n -> S]
  OBVIOUS
<1>. QED
  BY <1>1

LEMMA AppendIs ==
  ASSUME NEW S, NEW s \in Seq(S), NEW d \in S, NEW n \in Nat, Len(s) = n
  PROVE  Append(s, d) = [i \in 1 .. n + 1 |-> IF i <= n THEN s[i] ELSE d]
<1>1. Append(s, d) \in Seq(S) /\ Len(Append(s, d)) = n + 1
  OBVIOUS
<1>2. \A i \in 1 .. n + 1 : Append(s, d)[i] = IF i <= n THEN s[i] ELSE d
  OBVIOUS
<1>3. Append(s, d) = [i \in 1 .. n + 1 |-> Append(s, d)[i]]
  <2>1. n + 1 \in Nat
    OBVIOUS
  <2>. QED
    BY <1>1, <2>1, SequenceIs
<1>. QED
  BY <1>2, <1>3

LEMMA TailIs ==
  ASSUME NEW S, NEW s \in Seq(S), s # <<>>, NEW n \in Nat, Len(s) = n
  PROVE  Tail(s) = [i \in 1 .. n - 1 |-> s[i + 1]]
<1>1. Tail(s) \in Seq(S) /\ Len(Tail(s)) = n - 1
  OBVIOUS
<1>2. \A i \in 1 .. n - 1 : Tail(s)[i] = s[i + 1]
  OBVIOUS
<1>3. Tail(s) = [i \in 1 .. n - 1 |-> Tail(s)[i]]
  <2>1. n - 1 \in Nat
    OBVIOUS
  <2>. QED
    BY <1>1, <2>1, SequenceIs
<1>. QED
  BY <1>2, <1>3

LEMMA ContentsUnchanged ==
  ASSUME UNCHANGED <<data, nread, nwrite>>
  PROVE  Contents' = Contents
BY DEF Contents, Pending

\* The contents are a sequence of Pending bytes.
LEMMA ContentsFacts ==
  ASSUME PipeAssumption, Inv
  PROVE  /\ Contents \in Seq(Bytes) /\ Len(Contents) = Pending
         /\ \A i \in 1 .. Pending : Contents[i] = data[Slot(nread + i - 1)]
<1>1. Pending \in Nat
  BY PendingFacts DEF Inv
<1>2. \A i \in 1 .. Pending : nread + i - 1 \in Int
  BY <1>1 DEF Inv, TypeOK
<1>3. \A i \in 1 .. Pending : data[Slot(nread + i - 1)] \in Bytes
  BY <1>2, SlotFacts DEF Inv, TypeOK
<1>. QED
  BY <1>1, <1>3 DEF Contents

\* The slot pipewrite() stores to is behind all bytes in the ring.
LEMMA WriteAppends ==
  ASSUME PipeAssumption, Inv, NEW d \in Bytes, ~Full,
         data' = [data EXCEPT ![Slot(nwrite)] = d], nwrite' = Inc(nwrite), nread' = nread
  PROVE  Contents' = Append(Contents, d)
<1>1. Pending' = Pending + 1 /\ Pending < PIPESIZE
  BY WriteCount
<1>2. /\ Pending \in Nat
      /\ nread + Pending = nwrite \/ nread + Pending = nwrite + UINT
  BY PendingFacts DEF Inv
<1>3. nread \in Int /\ nwrite \in Int /\ nread + Pending \in Int
  BY <1>2 DEF Inv, TypeOK
<1>4. Slot(nread + Pending) = Slot(nwrite) /\ Slot(nwrite) \in 0 .. PIPESIZE - 1
  BY <1>2, <1>3, SlotFacts
<1>5. \A i \in 1 .. Pending : /\ Slot(nread + i - 1) # Slot(nread + Pending)
                              /\ Slot(nread + i - 1) \in 0 .. PIPESIZE - 1
  <2>. SUFFICES ASSUME NEW i \in 1 .. Pending
                PROVE  /\ Slot(nread + i - 1) # Slot(nread + Pending)
                       /\ Slot(nread + i - 1) \in 0 .. PIPESIZE - 1
    OBVIOUS
  <2>1. /\ PIPESIZE \in Nat \ {0} /\ nread + i - 1 \in Int
        /\ nread + i - 1 < nread + Pending
        /\ nread + Pending < nread + i - 1 + PIPESIZE
    BY <1>1, <1>2, <1>3 DEF PipeAssumption
  <2>2. Slot(nread + i - 1) # Slot(nread + Pending)
    BY <1>3, <2>1, SlotsDiffer DEF Slot
  <2>. QED
    BY <2>1, <2>2, SlotFacts
<1>6. \A i \in 1 .. Pending : data'[Slot(nread + i - 1)] = data[Slot(nread + i - 1)]
  BY <1>4, <1>5 DEF Inv, TypeOK
<1>7. data'[Slot(nread + Pending)] = d
  BY <1>4 DEF Inv, TypeOK
<1>8. /\ Contents' = [i \in 1 .. Pending + 1 |-> data'[Slot(nread + i - 1)]]
  BY <1>1 DEF Contents, Slot
<1>9. \A i \in 1 .. Pending + 1 :
        Contents'[i] = IF i <= Pending THEN data[Slot(nread + i - 1)] ELSE d
  <2>. SUFFICES ASSUME NEW i \in 1 .. Pending + 1
                PROVE  Contents'[i] = IF i <= Pending THEN data[Slot(nread + i - 1)] ELSE d
    OBVIOUS
  <2>1. Contents'[i] = data'[Slot(nread + i - 1)]
    BY <1>8
  <2>2. CASE i <= Pending
    BY <1>2, <1>6, <2>1, <2>2
  <2>3. CASE i = Pending + 1
    <3>1. nread + i - 1 = nread + Pending
      BY <1>2, <1>3, <2>3
    <3>. QED
      BY <1>2, <1>7, <2>1, <2>3, <3>1
  <2>. QED
    BY <1>2, <2>2, <2>3
<1>10. Contents' = Append(Contents, d)
  <2>1. Append(Contents, d) = [i \in 1 .. Pending + 1 |-> IF i <= Pending THEN Contents[i] ELSE d]
    BY <1>2, ContentsFacts, AppendIs
  <2>2. Contents' = [i \in 1 .. Pending + 1 |-> IF i <= Pending THEN Contents[i] ELSE d]
    BY <1>2, <1>8, <1>9, ContentsFacts
  <2>. QED
    BY <2>1, <2>2
<1>. QED
  BY <1>10

\* The slot piperead() loads from is that of the oldest byte.
LEMMA ReadTakesHead ==
  ASSUME PipeAssumption, Inv, ~Empty, nread' = Inc(nread), UNCHANGED <<data, nwrite>>
  PROVE  Contents # <<>> /\ Contents' = Tail(Contents)
<1>1. Pending' = Pending - 1 /\ Pending \in 1 .. PIPESIZE
  BY ReadCount
<1>2. nread \in 0 .. UINT - 1 /\ UINT \in Nat
  BY DEF PipeAssumption, Inv, TypeOK
<1>3. nread' = nread + 1 \/ nread' + UINT = nread + 1
  BY <1>2, IncFacts
<1>4. \A i \in 1 .. Pending - 1 : Slot(nread' + i - 1) = Slot(nread + (i + 1) - 1)
  <2>. SUFFICES ASSUME NEW i \in 1 .. Pending - 1
                PROVE  Slot(nread' + i - 1) = Slot(nread + (i + 1) - 1)
    OBVIOUS
  <2>1. CASE nread' = nread + 1
    <3>1. nread' + i - 1 = nread + (i + 1) - 1
      BY <1>2, <2>1
    <3>. QED
      BY <3>1
  <2>2. CASE nread' + UINT = nread + 1
    <3>1. nread' = nread + 1 - UINT
      BY <1>2, <2>2, IncFacts
    <3>2. (nread' + i - 1) + UINT = nread + (i + 1) - 1 /\ nread' + i - 1 \in Int
      BY <1>2, <3>1
    <3>. QED
      BY <3>2, SlotFacts
  <2>. QED
    BY <1>3, <2>1, <2>2
<1>5. Contents' = [i \in 1 .. Pending - 1 |-> data[Slot(nread' + i - 1)]]
  BY <1>1 DEF Contents, Slot
<1>6. Contents' = [i \in 1 .. Pending - 1 |-> Contents[i + 1]]
  <2>1. \A i \in 1 .. Pending - 1 : i + 1 \in 1 .. Pending
    BY <1>1
  <2>2. \A i \in 1 .. Pending - 1 : Contents[i + 1] = data[Slot(nread + (i + 1) - 1)]
    BY <2>1, ContentsFacts
  <2>. QED
    BY <1>4, <1>5, <2>2
<1>7. Contents \in Seq(Bytes) /\ Len(Contents) = Pending
  BY ContentsFacts
<1>8. Contents # <<>>
  BY <1>1, <1>7
<1>. QED
  BY <1>1, <1>6, <1>7, <1>8, TailIs

\* Every step of the pipe is one of the queue, or changes nothing of it.
LEMMA StepRefines == ASSUME PipeAssumption, Inv, [Next]_vars PROVE QueueStep
<1>u. ASSUME UNCHANGED pipeVars PROVE QueueStep
  <2>1. Contents' = Contents
    BY <1>u, ContentsUnchanged DEF pipeVars
  <2>. QED
    BY <1>u, <2>1 DEF QueueStep, BQ!qvars, pipeVars
<1>1. ASSUME NEW p \in Procs, NEW d \in Bytes, WriteByte(p, d) PROVE QueueStep
  <2>1. /\ pc[p] = "w_loop" /\ ~Full /\ readopen
        /\ data' = [data EXCEPT ![Slot(nwrite)] = d]
        /\ nwrite' = Inc(nwrite) /\ nread' = nread
        /\ UNCHANGED <<readopen, writeopen>>
    BY <1>1 DEF WriteByte
  <2>2. writeopen
    BY <2>1 DEF Inv, EndsInv, CallsInv, WritePcs
  <2>3. Contents' = Append(Contents, d)
    BY <2>1, WriteAppends
  <2>4. Len(Contents) < PIPESIZE
    BY <2>1, WriteCount, ContentsFacts
  <2>5. BQ!Put(d)
    BY <2>1, <2>2, <2>3, <2>4 DEF BQ!Put
  <2>. QED
    BY <2>5 DEF QueueStep, BQ!Next
<1>2. ASSUME NEW p \in Procs, ReadByte(p) PROVE QueueStep
  <2>1. /\ pc[p] = "r_copy" /\ ~Empty /\ nread' = Inc(nread)
        /\ UNCHANGED <<data, nwrite, readopen, writeopen>>
    BY <1>2 DEF ReadByte
  <2>2. readopen
    BY <2>1 DEF Inv, EndsInv, CallsInv, ReadPcs
  <2>3. Contents # <<>> /\ Contents' = Tail(Contents)
    BY <2>1, ReadTakesHead
  <2>4. BQ!Get
    BY <2>1, <2>2, <2>3 DEF BQ!Get
  <2>. QED
    BY <2>4 DEF QueueStep, BQ!Next
<1>3. ASSUME NEW p \in Procs, NEW e \in {"r", "w"}, Close(p, e) PROVE QueueStep
  <2>1. e \in ends[p] /\ UNCHANGED <<data, nread, nwrite>>
    BY <1>3 DEF Close
  <2>2. Contents' = Contents
    BY <2>1, ContentsUnchanged
  <2>3. CASE ~LastOf(p, e)
    BY <1>3, <1>u, <2>1, <2>3 DEF Close, pipeVars
  <2>4. CASE LastOf(p, e) /\ e = "w"
    <3>1. writeopen /\ writeopen' = FALSE /\ readopen' = readopen
      BY <1>3, <2>1, <2>4 DEF Close, PipeClose, Inv, EndsInv
    <3>. QED
      BY <2>2, <3>1 DEF QueueStep, BQ!Next, BQ!CloseWrite
  <2>5. CASE LastOf(p, e) /\ e = "r"
    <3>1. readopen /\ readopen' = FALSE /\ writeopen' = writeopen
      BY <1>3, <2>1, <2>5 DEF Close, PipeClose, Inv, EndsInv
    <3>. QED
      BY <2>2, <3>1 DEF QueueStep, BQ!Next, BQ!CloseRead
  <2>. QED
    BY <2>3, <2>4, <2>5
<1>4. ASSUME NEW p \in Procs, Advance(p) PROVE QueueStep
  BY <1>1, <1>2, <1>4, <1>u
     DEF Advance, WriteLock, WriteDone, WriteFails, WriteFull, WriteSleep,
         ReadLock, ReadWait, ReadSleep, ReadReady, ReadDone
<1>5. ASSUME NEW p \in Procs, NEW n \in 0 .. MaxCount, WriteCall(p, n) \/ ReadCall(p, n)
      PROVE  QueueStep
  BY <1>5, <1>u DEF WriteCall, ReadCall
<1>6. ASSUME NEW p \in Procs, Kill(p) PROVE QueueStep
  BY <1>6, <1>u DEF Kill
<1>7. CASE UNCHANGED vars
  BY <1>7, <1>u DEF vars, pipeVars
<1>8. CASE Next
  BY <1>8, <1>3, <1>4, <1>5, <1>6 DEF Next
<1>. QED
  BY <1>7, <1>8

LEMMA InitRefines == ASSUME PipeAssumption, Init PROVE QueueInit
<1>1. Inv
  BY InitInv
<1>2. Pending = 0
  BY <1>1, PendingFacts DEF Init, Empty, Inv
<1>3. Contents = <<>>
  BY <1>1, <1>2, ContentsFacts
<1>. QED
  BY <1>3 DEF Init, QueueInit, BQ!Init

-----------------------------------------------------------------------------
(* Theorems *)

\* The inductive invariant holds of every reachable state: how far the counters
\* are apart, who holds pi->lock, which ends are open and why a process sleeps.
THEOREM PipeInvariant == ASSUME PipeAssumption PROVE Spec => []Inv
<1>1. Init => Inv
  BY InitInv
<1>2. Inv /\ [Next]_vars => Inv'
  BY NextInv
<1>. QED
  BY <1>1, <1>2, PTL DEF Spec

\* pipe.c implements a bounded FIFO queue of bytes: pipewrite() and piperead()
\* lose, duplicate and reorder nothing, whatever the number of processes, the
\* size of the ring and the width of the counters, and across the wrap of both.
THEOREM PipeRefinesQueue == ASSUME PipeAssumption PROVE Spec => PipeIsQueue
<1>1. Init => BQ!Init
  BY InitRefines DEF QueueInit
<1>2. Inv /\ [Next]_vars => [BQ!Next]_(BQ!qvars)
  BY StepRefines DEF QueueStep
<1>. QED
  BY <1>1, <1>2, PipeInvariant, PTL DEF Spec, PipeIsQueue, BQ!Spec

\* kfree(pi) is called once, and no process is then in pipewrite() or
\* piperead() or has a descriptor left to get there.
THEOREM PipeFreedOnce == ASSUME PipeAssumption PROVE Spec => []FreedOnceAndUnused
<1>1. ASSUME Inv PROVE FreedOnceAndUnused
  <2>1. readopen \/ writeopen <=> \E p \in Procs : ends[p] # {}
    BY <1>1 DEF Inv, TypeOK, EndsInv
  <2>2. frees = IF \A p \in Procs : ends[p] = {} THEN 1 ELSE 0
    BY <1>1, <2>1 DEF Inv, EndsInv
  <2>3. (\A p \in Procs : ends[p] = {}) => \A p \in Procs : pc[p] = "idle"
    BY <1>1 DEF Inv, TypeOK, CallsInv, Pcs, WritePcs, ReadPcs
  <2>. QED
    BY <2>2, <2>3 DEF FreedOnceAndUnused
<1>. QED
  BY <1>1, PipeInvariant, PTL

\* No wakeup() is lost: when pi->lock is free a writer is asleep only while the
\* pipe is full and has a reader, and a reader only while the pipe has a writer
\* and is empty or some writer was killed before its final wakeup().
THEOREM PipeSleepersHaveReason ==
  ASSUME PipeAssumption
  PROVE  Spec => [](WriterSleepsOnlyWhenFull /\ ReaderSleepsOnlyWhenEmpty)
<1>1. ASSUME Inv PROVE WriterSleepsOnlyWhenFull /\ ReaderSleepsOnlyWhenEmpty
  <2>1. lock = Nobody => \A p \in Procs : pc[p] \notin {"r_copy", "w_loop"}
    BY <1>1 DEF PipeAssumption, Inv, LockInv, LockedPcs
  <2>. QED
    BY <1>1, <2>1 DEF Inv, SleepInv, WriterSleepsOnlyWhenFull, ReaderSleepsOnlyWhenEmpty
<1>. QED
  BY <1>1, PipeInvariant, PTL
=============================================================================
