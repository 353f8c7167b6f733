-------------------------------- MODULE Pipe --------------------------------
(***************************************************************************)
(* One pipe (kernel/pipe.c) shared by several processes through their file *)
(* descriptors (fileclose() of kernel/file.c calls pipeclose() for the last *)
(* reference of an end).  A step is one round of the loops of pipewrite()  *)
(* and piperead(), with pi->lock held from acquire() to release() or       *)
(* sleep(); kill() takes no lock of the pipe and may fall anywhere.        *)
(*                                                                         *)
(* nread and nwrite are 32-bit unsigned counters: UINT stands for 2^32.    *)
(***************************************************************************)
EXTENDS Integers, Sequences

CONSTANTS
  Procs,     \* processes
  Bytes,     \* byte values
  PIPESIZE,  \* slots of the ring
  UINT,      \* number of values of nread and nwrite
  MaxCount,  \* largest n of a read() or write() call
  InitEnds,  \* the descriptors each process starts with
  Killable,  \* processes that may be killed
  Nobody     \* the holder of a free lock

PipeAssumption ==
  /\ PIPESIZE \in Nat \ {0} /\ MaxCount \in Nat
  /\ UINT \in Nat /\ UINT > PIPESIZE /\ UINT % PIPESIZE = 0
  /\ InitEnds \in [Procs -> SUBSET {"r", "w"}]
  /\ \A e \in {"r", "w"} : \E p \in Procs : e \in InitEnds[p]
  /\ Killable \subseteq Procs
  /\ Nobody \notin Procs

VARIABLES
  data,       \* pi->data
  nread,      \* pi->nread
  nwrite,     \* pi->nwrite
  readopen,   \* pi->readopen
  writeopen,  \* pi->writeopen
  lock,       \* pi->lock
  frees,      \* calls of kfree(pi)
  ends,       \* the ends a process has descriptors of
  pc,         \* where the process is
  left,       \* n - i: the bytes its call has still to move
  killed      \* p->killed

vars == <<data, nread, nwrite, readopen, writeopen, lock, frees, ends, pc,
          left, killed>>

Pcs == {"idle", "w_lock", "w_loop", "w_sleep", "w_asleep",
        "r_lock", "r_wait", "r_sleep", "r_asleep", "r_copy"}

-----------------------------------------------------------------------------
\* pipealloc(), and the descriptors handed out by pipe() and fork().
Init ==
  /\ data \in {[i \in 0 .. PIPESIZE - 1 |-> d] : d \in Bytes}
  /\ nread = 0
  /\ nwrite = 0
  /\ readopen = TRUE
  /\ writeopen = TRUE
  /\ lock = Nobody
  /\ frees = 0
  /\ ends = InitEnds
  /\ pc = [p \in Procs |-> "idle"]
  /\ left = [p \in Procs |-> 0]
  /\ killed = [p \in Procs |-> FALSE]

\* An increment of a counter that grows without bound.
IncNoWrap(n) == n + 1

\* n++ on a 32-bit counter.
Inc(n) == (n + 1) % UINT

\* n % PIPESIZE, the slot of byte number n.
Slot(n) == n % PIPESIZE

\* The test for a full pipe, not reduced to 32 bits.
FullNoWrap == nwrite = nread + PIPESIZE

Full == nwrite = (nread + PIPESIZE) % UINT

Empty == nread = nwrite

\* A wakeup of nobody.
NoWakeup(f, at, to) == f

\* wakeup(): the processes asleep at a point of the kernel go on to another.
Wakeup(f, at, to) == [p \in Procs |-> IF f[p] = at THEN to ELSE f[p]]

WakeReaders(f) == Wakeup(f, "r_asleep", "r_lock")

WakeWriters(f) == Wakeup(f, "w_asleep", "w_lock")

pipeVars == <<data, nread, nwrite, readopen, writeopen>>

\* Back to user space with the lock released.
Return(p, f) ==
  /\ pc' = [f EXCEPT ![p] = "idle"]
  /\ left' = [left EXCEPT ![p] = 0]
  /\ lock' = Nobody

-----------------------------------------------------------------------------
(* pipewrite() *)

\* write(fd, addr, n) on the writing end; a killed process makes no more calls.
WriteCall(p, n) ==
  /\ pc[p] = "idle" /\ "w" \in ends[p] /\ ~killed[p]
  /\ pc' = [pc EXCEPT ![p] = "w_lock"]
  /\ left' = [left EXCEPT ![p] = n]
  /\ UNCHANGED <<pipeVars, lock, frees, ends, killed>>

\* acquire(&pi->lock), also at the end of sleep().
WriteLock(p) ==
  /\ pc[p] = "w_lock" /\ lock = Nobody
  /\ lock' = p
  /\ pc' = [pc EXCEPT ![p] = "w_loop"]
  /\ UNCHANGED <<pipeVars, frees, ends, left, killed>>

\* The end of the loop: all bytes written, or copyin() failed.
WriteDone(p) ==
  /\ pc[p] = "w_loop"
  /\ left[p] = 0 \/ (readopen /\ ~killed[p] /\ ~Full)
  /\ Return(p, WakeReaders(pc))
  /\ UNCHANGED <<pipeVars, frees, ends, killed>>

\* No reader, or the caller is killed: return -1.
WriteFails(p) ==
  /\ pc[p] = "w_loop" /\ left[p] > 0
  /\ ~readopen \/ killed[p]
  /\ Return(p, pc)
  /\ UNCHANGED <<pipeVars, frees, ends, killed>>

\* pi->data[pi->nwrite++ % PIPESIZE] = ch.
WriteByte(p, d) ==
  /\ pc[p] = "w_loop" /\ left[p] > 0
  /\ readopen /\ ~killed[p] /\ ~Full
  /\ data' = [data EXCEPT ![Slot(nwrite)] = d]
  /\ nwrite' = Inc(nwrite)
  /\ left' = [left EXCEPT ![p] = @ - 1]
  /\ UNCHANGED <<nread, readopen, writeopen, lock, frees, ends, pc, killed>>

\* The pipe is full: wake the readers, then sleep.
WriteFull(p) ==
  /\ pc[p] = "w_loop" /\ left[p] > 0
  /\ readopen /\ ~killed[p] /\ Full
  /\ pc' = [WakeReaders(pc) EXCEPT ![p] = "w_sleep"]
  /\ UNCHANGED <<pipeVars, lock, frees, ends, left, killed>>

\* sleep(&pi->nwrite, &pi->lock).
WriteSleep(p) ==
  /\ pc[p] = "w_sleep"
  /\ lock' = Nobody
  /\ pc' = [pc EXCEPT ![p] = "w_asleep"]
  /\ UNCHANGED <<pipeVars, frees, ends, left, killed>>

-----------------------------------------------------------------------------
(* piperead() *)

\* read(fd, addr, n) on the reading end.
ReadCall(p, n) ==
  /\ pc[p] = "idle" /\ "r" \in ends[p] /\ ~killed[p]
  /\ pc' = [pc EXCEPT ![p] = "r_lock"]
  /\ left' = [left EXCEPT ![p] = n]
  /\ UNCHANGED <<pipeVars, lock, frees, ends, killed>>

ReadLock(p) ==
  /\ pc[p] = "r_lock" /\ lock = Nobody
  /\ lock' = p
  /\ pc' = [pc EXCEPT ![p] = "r_wait"]
  /\ UNCHANGED <<pipeVars, frees, ends, left, killed>>

\* The loop test without writeopen.
MustWaitForData == Empty

\* The loop test: nothing to read, and a writer may still come.
MustWait == Empty /\ writeopen

\* Return -1 when killed, otherwise on to sleep().
ReadWait(p) ==
  /\ pc[p] = "r_wait" /\ MustWait
  /\ IF killed[p] THEN Return(p, pc)
     ELSE /\ pc' = [pc EXCEPT ![p] = "r_sleep"]
          /\ UNCHANGED <<left, lock>>
  /\ UNCHANGED <<pipeVars, frees, ends, killed>>

\* sleep(&pi->nread, &pi->lock).
ReadSleep(p) ==
  /\ pc[p] = "r_sleep"
  /\ lock' = Nobody
  /\ pc' = [pc EXCEPT ![p] = "r_asleep"]
  /\ UNCHANGED <<pipeVars, frees, ends, left, killed>>

ReadReady(p) ==
  /\ pc[p] = "r_wait" /\ ~MustWait
  /\ pc' = [pc EXCEPT ![p] = "r_copy"]
  /\ UNCHANGED <<pipeVars, lock, frees, ends, left, killed>>

\* ch = pi->data[pi->nread++ % PIPESIZE]; when copyout() then fails the loop
\* ends, and the byte is gone.
ReadByte(p) ==
  /\ pc[p] = "r_copy" /\ left[p] > 0 /\ ~Empty
  /\ nread' = Inc(nread)
  /\ \/ left' = [left EXCEPT ![p] = @ - 1] /\ UNCHANGED <<pc, lock>>
     \/ Return(p, WakeWriters(pc))
  /\ UNCHANGED <<data, nwrite, readopen, writeopen, frees, ends, killed>>

\* The end of the loop: n bytes read, or nothing left to read.
ReadDone(p) ==
  /\ pc[p] = "r_copy" /\ (left[p] = 0 \/ Empty)
  /\ Return(p, WakeWriters(pc))
  /\ UNCHANGED <<pipeVars, frees, ends, killed>>

-----------------------------------------------------------------------------
(* pipeclose() and kill() *)

\* Nobody but p has a descriptor of end e.
LastOf(p, e) == \A q \in Procs \ {p} : e \notin ends[q]

\* pipeclose() that frees the pipe with either end.
PipeCloseFrees(e) ==
  /\ IF e = "w" THEN writeopen' = FALSE /\ pc' = WakeReaders(pc) /\ UNCHANGED readopen
                ELSE readopen' = FALSE /\ pc' = WakeWriters(pc) /\ UNCHANGED writeopen
  /\ frees' = frees + 1

\* pipeclose(pi, e = "w"): wake the other side, free with the second end.
PipeClose(e) ==
  /\ IF e = "w" THEN writeopen' = FALSE /\ pc' = WakeReaders(pc) /\ UNCHANGED readopen
                ELSE readopen' = FALSE /\ pc' = WakeWriters(pc) /\ UNCHANGED writeopen
  /\ frees' = IF readopen' \/ writeopen' THEN frees ELSE frees + 1

\* close(fd), or exit(): fileclose() of one end.
Close(p, e) ==
  /\ pc[p] = "idle" /\ e \in ends[p]
  /\ ends' = [ends EXCEPT ![p] = @ \ {e}]
  /\ IF LastOf(p, e) THEN lock = Nobody /\ PipeClose(e)
                     ELSE UNCHANGED <<readopen, writeopen, pc, frees>>
  /\ UNCHANGED <<data, nread, nwrite, lock, left, killed>>

\* kill(): mark, and make a sleeping process run again.
Kill(p) ==
  /\ p \in Killable /\ ~killed[p]
  /\ killed' = [killed EXCEPT ![p] = TRUE]
  /\ pc' = [pc EXCEPT ![p] = IF @ = "r_asleep" THEN "r_lock"
                             ELSE IF @ = "w_asleep" THEN "w_lock" ELSE @]
  /\ UNCHANGED <<pipeVars, lock, frees, ends, left>>

-----------------------------------------------------------------------------
\* A step of a call in progress.
Advance(p) ==
  \/ WriteLock(p) \/ WriteDone(p) \/ WriteFails(p) \/ WriteFull(p) \/ WriteSleep(p)
  \/ \E d \in Bytes : WriteByte(p, d)
  \/ ReadLock(p) \/ ReadWait(p) \/ ReadSleep(p) \/ ReadReady(p)
  \/ ReadByte(p) \/ ReadDone(p)

Next == \E p \in Procs :
  \/ Advance(p)
  \/ \E n \in 0 .. MaxCount : WriteCall(p, n) \/ ReadCall(p, n)
  \/ \E e \in {"r", "w"} : Close(p, e)
  \/ Kill(p)

Spec == Init /\ [][Next]_vars

\* A call in progress is executed, and gets a lock that is free again and
\* again; every process closes its descriptors some day, at the latest in
\* exit().
Fairness == \A p \in Procs : /\ SF_vars(Advance(p))
                             /\ SF_vars(\E e \in {"r", "w"} : Close(p, e))

-----------------------------------------------------------------------------
(* Properties *)

\* The fields of struct pipe keep their types; the counters stay 32-bit.
TypeOK ==
  /\ data \in [0 .. PIPESIZE - 1 -> Bytes]
  /\ nread \in 0 .. UINT - 1
  /\ nwrite \in 0 .. UINT - 1
  /\ readopen \in BOOLEAN
  /\ writeopen \in BOOLEAN
  /\ lock \in Procs \cup {Nobody}
  /\ frees \in Nat
  /\ ends \in [Procs -> SUBSET {"r", "w"}]
  /\ pc \in [Procs -> Pcs]
  /\ left \in [Procs -> 0 .. MaxCount]
  /\ killed \in [Procs -> BOOLEAN]

\* The bytes in the ring, oldest first, read with wrapping arithmetic.
Pending == (nwrite - nread) % UINT

Contents == [i \in 1 .. Pending |-> data[Slot(nread + i - 1)]]

BQ == INSTANCE ByteQueue WITH
  Capacity <- PIPESIZE, q <- Contents, ropen <- readopen, wopen <- writeopen

\* The ring with its wrapping counters is a bounded FIFO queue of bytes:
\* pipewrite() and piperead() lose, duplicate and reorder nothing, across the
\* wrap of the slots and of the 32-bit counters, and nothing is written once
\* the readers are gone.
PipeIsQueue == BQ!Spec

\* Its initial condition and its steps.
QueueInit == BQ!Init
QueueStep == [BQ!Next]_(BQ!qvars)

\* A writer is asleep only while the pipe is full and still has a reader:
\* no wakeup of piperead() or pipeclose() is lost.
WriterSleepsOnlyWhenFull ==
  lock = Nobody => \A p \in Procs : pc[p] = "w_asleep" => Full /\ readopen

\* A reader is asleep only while the pipe is empty and still has a writer; a
\* killed writer may leave bytes behind without waking it, as pipewrite()
\* returns -1 without the final wakeup(), but never an end that is closed.
ReaderSleepsOnlyWhenEmpty ==
  lock = Nobody =>
    \A p \in Procs : pc[p] = "r_asleep" =>
      writeopen /\ (Empty \/ \E q \in Procs : killed[q])

\* kfree(pi) comes once, after the last descriptor of both ends is closed, so
\* that no process is in the pipe's code then.
FreedOnceAndUnused ==
  /\ frees = IF \A p \in Procs : ends[p] = {} THEN 1 ELSE 0
  /\ frees > 0 => \A p \in Procs : pc[p] = "idle"
=============================================================================
