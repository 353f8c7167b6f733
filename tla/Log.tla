-------------------------------- MODULE Log ---------------------------------
(***************************************************************************)
(* The write-ahead log of kernel/log.c, with the part of the buffer cache  *)
(* (kernel/bio.c) it depends on: which blocks are cached, which buffers    *)
(* are pinned or locked, and that an unreferenced buffer may be recycled   *)
(* at any time.  Every disk write (bwrite) is a step of its own, and the   *)
(* machine may crash between any two steps; a crash keeps the disk and     *)
(* nothing else.  After a crash initlog() runs recover_from_log() before   *)
(* any process can call the file system.                                   *)
(*                                                                         *)
(* An operation is one begin_op() ... end_op() bracket.  In between it     *)
(* repeats the pattern of log.c:209-213 (bread, modify, log_write, brelse) *)
(* on at most OpBlocks different blocks.                                   *)
(***************************************************************************)
EXTENDS Integers, Sequences, FiniteSets

CONSTANTS Procs,        \* processes that make file-system calls
          Blocks,       \* home block numbers
          Data,         \* contents of one block
          MAXOPBLOCKS,  \* blocks begin_op() reserves for one operation
          LOGSIZE,      \* entries of struct logheader
          NLOG,         \* sb->nlog: blocks of the on-disk log, header included
          OpBlocks,     \* distinct blocks one operation really writes
          NoBuf,        \* the block has no buffer in the cache
          Nobody        \* nobody holds the buffer's sleep lock

ASSUME SizesAssumption ==
  /\ MAXOPBLOCKS \in Nat \ {0}
  /\ LOGSIZE \in Nat
  /\ NLOG \in Nat \ {0}
  /\ OpBlocks \in Nat
  /\ MAXOPBLOCKS <= LOGSIZE

ASSUME ValuesAssumption ==
  /\ IsFiniteSet(Procs)
  /\ IsFiniteSet(Blocks)
  /\ NoBuf \notin Data
  /\ Nobody \notin Procs

\* What the panics of log_write() leave room for: with sb.nlog = LOGSIZE, as
\* mkfs lays the disk out, an operation writes at most MAXOPBLOCKS - 2 blocks.
BudgetFits == /\ OpBlocks < MAXOPBLOCKS
              /\ LOGSIZE - MAXOPBLOCKS + OpBlocks < NLOG - 1

VARIABLES
  disk,        \* home blocks on the disk
  logblk,      \* log blocks on the disk: logblk[i] is block log.start + i
  head,        \* header block on the disk, as the sequence block[0 .. n-1]
  buf,         \* cached contents of each home block, or NoBuf
  refcnt,      \* b->refcnt of each home block's buffer
  holder,      \* owner of each buffer's sleep lock
  lh,          \* log.lh, as the sequence block[0 .. n-1]
  outstanding, \* log.outstanding
  committing,  \* log.committing
  tail,        \* loop variable of write_log() and install_trans()
  pc,          \* where each process is
  wrote,       \* blocks the process's current operation has logged
  sys          \* what the machine as a whole is doing

vars == <<disk, logblk, head, buf, refcnt, holder, lh, outstanding,
          committing, tail, pc, wrote, sys>>

diskVars == <<disk, logblk, head>>
bufVars == <<buf, refcnt, holder>>
logVars == <<lh, outstanding, committing>>

LogSlots == 1 .. NLOG - 1

CommitPcs == {"write_log", "write_head", "install", "erase", "finish"}

\* Processes between begin_op() and end_op().
Active == {p \in Procs : pc[p] \in {"inop", "modify"}}

\* The block numbers of a header.
Entries(h) == {h[i] : i \in DOMAIN h}

\* What bread(b) returns: the cached buffer, or a fresh one read from disk.
Contents(b) == IF buf[b] = NoBuf THEN disk[b] ELSE buf[b]

\* A wakeup that wakes nobody.
NotWoken(f) == f

\* wakeup(&log): every process asleep on the log tries begin_op() again.
Woken(f) == [p \in Procs |-> IF f[p] = "asleep" THEN "begin" ELSE f[p]]

-----------------------------------------------------------------------------
\* The disk mkfs made: an empty log, any file system contents; the kernel
\* is about to run initlog().
Init ==
  /\ disk \in [Blocks -> Data]
  /\ logblk \in {[i \in LogSlots |-> d] : d \in Data}
  /\ head = <<>>
  /\ buf = [b \in Blocks |-> NoBuf]
  /\ refcnt = [b \in Blocks |-> 0]
  /\ holder = [b \in Blocks |-> Nobody]
  /\ lh = <<>>
  /\ outstanding = 0
  /\ committing = FALSE
  /\ tail = 1
  /\ pc = [p \in Procs |-> "idle"]
  /\ wrote = [p \in Procs |-> {}]
  /\ sys = "read_head"

-----------------------------------------------------------------------------
(* begin_op() *)

\* Off by one: room for the operations already outstanding only.
HasRoomForOthers == Len(lh) + outstanding * MAXOPBLOCKS <= LOGSIZE

\* The reservation test of begin_op(): room for one more whole operation.
HasRoom == Len(lh) + (outstanding + 1) * MAXOPBLOCKS <= LOGSIZE

\* An operation is admitted although a commit is under way.
BeginOpWhileCommitting(p) ==
  /\ sys = "up"
  /\ pc[p] \in {"idle", "begin"}
  /\ HasRoom
  /\ outstanding' = outstanding + 1
  /\ pc' = [pc EXCEPT ![p] = "inop"]
  /\ wrote' = [wrote EXCEPT ![p] = {}]
  /\ UNCHANGED <<diskVars, bufVars, lh, committing, tail, sys>>

\* begin_op() admits the operation.
BeginOp(p) ==
  /\ sys = "up"
  /\ pc[p] \in {"idle", "begin"}
  /\ ~committing
  /\ HasRoom
  /\ outstanding' = outstanding + 1
  /\ pc' = [pc EXCEPT ![p] = "inop"]
  /\ wrote' = [wrote EXCEPT ![p] = {}]
  /\ UNCHANGED <<diskVars, bufVars, lh, committing, tail, sys>>

\* Both sleep() calls; sleep() releases log.lock and sleeps in one step.
BeginOpSleep(p) ==
  /\ sys = "up"
  /\ pc[p] \in {"idle", "begin"}
  /\ committing \/ ~HasRoom
  /\ pc' = [pc EXCEPT ![p] = "asleep"]
  /\ UNCHANGED <<diskVars, bufVars, logVars, tail, wrote, sys>>

-----------------------------------------------------------------------------
(* Inside an operation *)

\* bp = bread(b), then bp->data changes; the buffer stays locked.
Modify(p, b, d) ==
  /\ sys = "up"
  /\ pc[p] = "inop"
  /\ holder[b] = Nobody
  /\ Cardinality(wrote[p] \cup {b}) <= OpBlocks
  /\ holder' = [holder EXCEPT ![b] = p]
  /\ refcnt' = [refcnt EXCEPT ![b] = @ + 1]
  /\ buf' = [buf EXCEPT ![b] = d]
  /\ pc' = [pc EXCEPT ![p] = "modify"]
  /\ UNCHANGED <<diskVars, logVars, tail, wrote, sys>>

\* panic(): the machine stops; only a reboot follows.
Panic == /\ sys' = "panic"
         /\ UNCHANGED <<diskVars, bufVars, logVars, tail, pc, wrote>>

\* The two panics at the top of log_write().
LogWritePanics ==
  \/ Len(lh) >= LOGSIZE
  \/ Len(lh) >= NLOG - 1
  \/ outstanding < 1

\* Looks at the newest entry only.
AbsorbedByLast(b) == lh # <<>> /\ lh[Len(lh)] = b

\* The search loop of log_write(): the block has an entry already.
Absorbed(b) == \E i \in DOMAIN lh : lh[i] = b

\* log_write(bp): absorb, or append and pin; then brelse(bp).
LogWrite(p, b) ==
  /\ sys = "up"
  /\ pc[p] = "modify"
  /\ holder[b] = p
  /\ IF LogWritePanics
     THEN Panic
     ELSE /\ IF Absorbed(b)
             THEN /\ UNCHANGED lh
                  /\ refcnt' = [refcnt EXCEPT ![b] = @ - 1]
             ELSE /\ lh' = Append(lh, b)
                  /\ UNCHANGED refcnt
          /\ holder' = [holder EXCEPT ![b] = Nobody]
          /\ wrote' = [wrote EXCEPT ![p] = @ \cup {b}]
          /\ pc' = [pc EXCEPT ![p] = "inop"]
          /\ UNCHANGED <<diskVars, buf, outstanding, committing, tail, sys>>

-----------------------------------------------------------------------------
(* end_op() and commit() *)

\* The first critical section of end_op(), up to its release(&log.lock).
EndOp(p) ==
  /\ sys = "up"
  /\ pc[p] = "inop"
  /\ IF committing
     THEN Panic
     ELSE /\ outstanding' = outstanding - 1
          /\ IF outstanding' = 0
             THEN /\ committing' = TRUE
                  /\ pc' = [pc EXCEPT ![p] = IF lh = <<>> THEN "finish"
                                                          ELSE "write_log"]
             ELSE /\ pc' = Woken([pc EXCEPT ![p] = "idle"])
                  /\ UNCHANGED committing
          /\ tail' = 1
          /\ UNCHANGED <<diskVars, bufVars, lh, wrote, sys>>

\* Off by one: stops before the last entry.
AtEntryBeforeLast == tail + 1 >= Len(lh)

\* The loops over log.lh.block end here.
AtLastEntry == tail >= Len(lh)

\* One iteration of write_log(): cached block to log block on disk.
WriteLog(p) ==
  /\ sys = "up"
  /\ pc[p] = "write_log"
  /\ holder[lh[tail]] = Nobody
  /\ logblk' = [logblk EXCEPT ![tail] = Contents(lh[tail])]
  /\ IF AtLastEntry
     THEN tail' = 1 /\ pc' = [pc EXCEPT ![p] = "write_head"]
     ELSE tail' = tail + 1 /\ UNCHANGED pc
  /\ UNCHANGED <<disk, head, bufVars, logVars, wrote, sys>>

\* write_head(): the header block reaches the disk in one write.
WriteHead(p) ==
  /\ sys = "up"
  /\ pc[p] = "write_head"
  /\ head' = lh
  /\ pc' = [pc EXCEPT ![p] = "install"]
  /\ UNCHANGED <<disk, logblk, bufVars, logVars, tail, wrote, sys>>

\* Ignores `recovering' and always unpins.
InstallAndUnpin(unpin) ==
  LET b == lh[tail] IN
  /\ holder[b] = Nobody
  /\ disk' = [disk EXCEPT ![b] = logblk[tail]]
  /\ buf' = [buf EXCEPT ![b] = logblk[tail]]
  /\ refcnt' = [refcnt EXCEPT ![b] = @ - 1]
  /\ tail' = IF AtLastEntry THEN 1 ELSE tail + 1

\* One iteration of install_trans(): log block to home block.
InstallBlock(unpin) ==
  LET b == lh[tail] IN
  /\ holder[b] = Nobody
  /\ disk' = [disk EXCEPT ![b] = logblk[tail]]
  /\ buf' = [buf EXCEPT ![b] = logblk[tail]]
  /\ refcnt' = [refcnt EXCEPT ![b] = @ - unpin]
  /\ tail' = IF AtLastEntry THEN 1 ELSE tail + 1

Install(p) ==
  /\ sys = "up"
  /\ pc[p] = "install"
  /\ InstallBlock(1)
  /\ pc' = IF AtLastEntry THEN [pc EXCEPT ![p] = "erase"] ELSE pc
  /\ UNCHANGED <<logblk, head, holder, logVars, wrote, sys>>

\* log.lh.n = 0; write_head()
Erase(p) ==
  /\ sys = "up"
  /\ pc[p] = "erase"
  /\ lh' = <<>>
  /\ head' = <<>>
  /\ pc' = [pc EXCEPT ![p] = "finish"]
  /\ UNCHANGED <<disk, logblk, bufVars, outstanding, committing, tail, wrote, sys>>

\* The tail of end_op(): committing = 0; wakeup(&log).
Finish(p) ==
  /\ sys = "up"
  /\ pc[p] = "finish"
  /\ committing' = FALSE
  /\ pc' = Woken([pc EXCEPT ![p] = "idle"])
  /\ UNCHANGED <<diskVars, bufVars, lh, outstanding, tail, wrote, sys>>

-----------------------------------------------------------------------------
(* The buffer cache around the log *)

\* bread() of an uncached block by any process, followed by brelse().
Bread(b) ==
  /\ sys = "up"
  /\ buf[b] = NoBuf
  /\ buf' = [buf EXCEPT ![b] = disk[b]]
  /\ UNCHANGED <<diskVars, refcnt, holder, logVars, tail, pc, wrote, sys>>

\* bget() recycles an unreferenced buffer for another block.
Recycle(b) ==
  /\ sys = "up"
  /\ buf[b] # NoBuf
  /\ refcnt[b] = 0
  /\ buf' = [buf EXCEPT ![b] = NoBuf]
  /\ UNCHANGED <<diskVars, refcnt, holder, logVars, tail, pc, wrote, sys>>

-----------------------------------------------------------------------------
(* Crash and recovery *)

Crash ==
  /\ buf' = [b \in Blocks |-> NoBuf]
  /\ refcnt' = [b \in Blocks |-> 0]
  /\ holder' = [b \in Blocks |-> Nobody]
  /\ lh' = <<>>
  /\ outstanding' = 0
  /\ committing' = FALSE
  /\ tail' = 1
  /\ pc' = [p \in Procs |-> "idle"]
  /\ wrote' = [p \in Procs |-> {}]
  /\ sys' = "read_head"
  /\ UNCHANGED diskVars

ReadHead ==
  /\ sys = "read_head"
  /\ lh' = head
  /\ tail' = 1
  /\ sys' = IF head = <<>> THEN "erase" ELSE "install"
  /\ UNCHANGED <<diskVars, bufVars, outstanding, committing, pc, wrote>>

RecoverInstall ==
  /\ sys = "install"
  /\ InstallBlock(0)
  /\ sys' = IF AtLastEntry THEN "erase" ELSE sys
  /\ UNCHANGED <<logblk, head, holder, logVars, pc, wrote>>

RecoverErase ==
  /\ sys = "erase"
  /\ lh' = <<>>
  /\ head' = <<>>
  /\ sys' = "up"
  /\ UNCHANGED <<disk, logblk, bufVars, outstanding, committing, tail, pc, wrote>>

-----------------------------------------------------------------------------
Commit(p) == WriteLog(p) \/ WriteHead(p) \/ Install(p) \/ Erase(p) \/ Finish(p)

Recover == ReadHead \/ RecoverInstall \/ RecoverErase

Next ==
  \/ \E p \in Procs :
       \/ BeginOp(p)
       \/ BeginOpSleep(p)
       \/ \E b \in Blocks, d \in Data : Modify(p, b, d)
       \/ \E b \in Blocks : LogWrite(p, b)
       \/ EndOp(p)
       \/ Commit(p)
  \/ \E b \in Blocks : Bread(b) \/ Recycle(b)
  \/ Crash
  \/ Recover

Spec == Init /\ [][Next]_vars

(***************************************************************************)
(* A process keeps running its kernel code, and recovery runs to its end:  *)
(* the scheduler runs every RUNNABLE process again and again.  An          *)
(* operation logs a bounded number of blocks and then calls end_op(), so   *)
(* EndOp is strongly fair; nothing is assumed about starting operations,   *)
(* about who wins the race for log space, or about crashes.                *)
(***************************************************************************)
Fairness ==
  /\ \A p \in Procs : /\ WF_vars(\E b \in Blocks : LogWrite(p, b))
                      /\ SF_vars(EndOp(p))
                      /\ WF_vars(Commit(p))
                      /\ WF_vars(pc[p] = "begin" /\ (BeginOp(p) \/ BeginOpSleep(p)))
  /\ WF_vars(Recover)

-----------------------------------------------------------------------------
(* Properties *)

Pcs == {"idle", "begin", "asleep", "inop", "modify"} \cup CommitPcs

\* The shape of the state, including the bounds of both headers.
TypeOK ==
  /\ disk \in [Blocks -> Data]
  /\ logblk \in [LogSlots -> Data]
  /\ head \in Seq(Blocks) /\ Len(head) < NLOG
  /\ buf \in [Blocks -> Data \cup {NoBuf}]
  /\ refcnt \in [Blocks -> Nat]
  /\ holder \in [Blocks -> Procs \cup {Nobody}]
  /\ lh \in Seq(Blocks) /\ Len(lh) < NLOG
  /\ outstanding \in Nat
  /\ committing \in BOOLEAN
  /\ tail \in Nat \ {0}
  /\ pc \in [Procs -> Pcs]
  /\ wrote \in [Procs -> SUBSET Blocks]
  /\ sys \in {"up", "panic", "read_head", "install", "erase"}

\* No operation that keeps to its block budget runs into a panic() of
\* log_write() ("too big a transaction", "log_write outside of trans") or of
\* end_op() ("log.committing"): begin_op()'s reservation is enough, although
\* it never looks at log.size.
NoPanic == sys # "panic"

\* A process sleeping in begin_op() sleeps for a reason that still holds: it
\* is never left asleep once a commit has ended or room has been given back.
NoMissedWakeup ==
  \A p \in Procs : pc[p] = "asleep" => committing \/ ~HasRoom

\* Log entries that log_write() pinned and install_trans() has not unpinned.
PinnedEntries ==
  {i \in DOMAIN lh :
     /\ sys \in {"up", "panic"}
     /\ \A p \in Procs : /\ pc[p] = "install" => i >= tail
                         /\ pc[p] # "erase"}

Pinned == {lh[i] : i \in PinnedEntries}

\* Reference counts balance: one for the process working on the buffer and
\* one pin per logged block, however many times the block was written
\* (absorption), and no pin is left behind by a commit.
PinsBalanced ==
  \A b \in Blocks : refcnt[b] = (IF holder[b] = Nobody THEN 0 ELSE 1)
                                + (IF b \in Pinned THEN 1 ELSE 0)

\* What recovery would produce if the machine stopped now: the home blocks
\* overwritten by the committed log blocks.
Durable ==
  [b \in Blocks |->
     IF b \in Entries(head)
     THEN logblk[CHOOSE i \in DOMAIN head : head[i] = b]
     ELSE disk[b]]

\* What the file system reads; before recovery has finished, nothing reads.
Current == IF sys \in {"up", "panic"} THEN [b \in Blocks |-> Contents(b)]
                                      ELSE Durable

\* When the end_op() that committed is about to return, everything logged so
\* far is durable.
DurableAtReturn == \A p \in Procs : pc[p] = "finish" => Durable = Current

\* The log gives every call all-or-nothing effect across crashes, also across
\* a crash in the middle of a commit or of a recovery: the disk that recovery
\* produces changes only at write_head(), in one step, and to a state in which
\* no call is half done.
AD == INSTANCE AtomicDisk WITH durable <- Durable, current <- Current,
                               active <- Active

LogIsAtomic == AD!Spec
=============================================================================
