----------------------------- MODULE MCProgress -----------------------------
(***************************************************************************)
(* Does everybody who waits go on?  Small instances of the log, the inode  *)
(* layer, the disk driver, the UART, a pipe and the clock, each under the  *)
(* fairness its module states.  A behaviour is one of one part, chosen in  *)
(* the initial state; the variables of the other parts stay None.          *)
(***************************************************************************)
EXTENDS Integers, Sequences, FiniteSets

CONSTANTS Procs, Block, Data, MAXOPBLOCKS, LOGSIZE, OpBlocks,
          Users, Inums, Root, Names, DotDot,
          NUM, IdxMod, UART_TX_BUF_SIZE, FIFO_SIZE, UartMod, MaxChars,
          Reader, PIPESIZE, UINT, MaxCount, TickMod, Delays, None

VARIABLES
  part,
  pc, lock, lk, disk, buf, pending, panic, data, killed,            \* several
  logblk, head, refcnt, holder, lh, outstanding, committing,        \* Log
  tail, wrote, sys,
  dtype, dlink, ent, up, ref, valid, mtype, mlink,                  \* Inode
  call, path, new, cur, ip, rel, put, cwd, fd,
  free, desc, ops, info, ring, avail, usedRing, used, usedIdx,      \* Virtio
  idx, write, asleep, bdisk, want, seen, busy,
  r, w, at, sync, fifo, accepted, out,                              \* Uart
  nread, nwrite, readopen, writeopen, frees, ends, left,            \* Pipe
  ticks, n, ticks0, passed, late                                    \* Clock

\* The paths of one and of two names.
Deep == {<<a>> : a \in Names} \cup {<<a, b>> : a, b \in Names}

\* The arguments of sleep().
Naps == {-1, 2}

G == INSTANCE Log WITH Blocks <- {Block}, NLOG <- LOGSIZE, NoBuf <- None, Nobody <- None
I == INSTANCE Inode WITH Procs <- Users, Paths <- Deep, Calls <- {"mkdir", "unlink"}, Crashes <- FALSE
V == INSTANCE Virtio WITH Procs <- Users
U == INSTANCE Uart WITH Writers <- Users, Printers <- {}, Mod <- UartMod
P == INSTANCE Pipe WITH Procs <- Users, Bytes <- {0}, Killable <- {}, Nobody <- None,
                        InitEnds <- [p \in Users |-> IF p = Reader THEN {"r"} ELSE {"w"}]
K == INSTANCE Clock WITH Procs <- Users, UINT <- TickMod, Nobody <- None

ASSUME K!ClockAssumption

LogOnly == <<logblk, head, refcnt, holder, lh, outstanding, committing, tail, wrote, sys>>
InodeOnly == <<dtype, dlink, ent, up, ref, valid, mtype, mlink,
               call, path, new, cur, ip, rel, put, cwd, fd>>
VirtioOnly == <<free, desc, ops, info, ring, avail, usedRing, used, usedIdx,
                idx, write, asleep, bdisk, data, want, seen, busy>>
UartOnly == <<r, w, at, sync, fifo, accepted, out>>
PipeOnly == <<nread, nwrite, readopen, writeopen, frees, ends, left>>
ClockOnly == <<ticks, n, ticks0, passed, late>>

vars == <<part, pc, lock, lk, disk, buf, pending, panic, data, killed,
          LogOnly, InodeOnly, VirtioOnly, UartOnly, PipeOnly, ClockOnly>>

NoLog ==
  /\ logblk = None /\ head = None /\ refcnt = None /\ holder = None /\ lh = None
  /\ outstanding = None /\ committing = None /\ tail = None /\ wrote = None /\ sys = None
NoInode ==
  /\ dtype = None /\ dlink = None /\ ent = None /\ up = None /\ ref = None
  /\ valid = None /\ mtype = None /\ mlink = None /\ call = None /\ path = None /\ new = None
  /\ cur = None /\ ip = None /\ rel = None /\ put = None /\ cwd = None /\ fd = None
NoVirtio ==
  /\ free = None /\ desc = None /\ ops = None /\ info = None /\ ring = None /\ avail = None
  /\ usedRing = None /\ used = None /\ usedIdx = None /\ idx = None /\ write = None
  /\ asleep = None /\ bdisk = None /\ want = None /\ seen = None /\ busy = None
NoUart ==
  /\ r = None /\ w = None /\ at = None /\ sync = None /\ fifo = None
  /\ accepted = None /\ out = None
NoPipe ==
  /\ nread = None /\ nwrite = None /\ readopen = None /\ writeopen = None
  /\ frees = None /\ ends = None /\ left = None
NoClock == ticks = None /\ n = None /\ ticks0 = None /\ passed = None /\ late = None

Init ==
  \/ /\ part = "log" /\ G!Init /\ NoInode /\ NoVirtio /\ NoUart /\ NoPipe /\ NoClock
     /\ lock = None /\ lk = None /\ pending = None /\ panic = None /\ data = None /\ killed = None
  \/ /\ part = "inode" /\ I!Init /\ NoLog /\ NoVirtio /\ NoUart /\ NoPipe /\ NoClock
     /\ lk = None /\ disk = None /\ buf = None /\ pending = None /\ data = None /\ killed = None
  \/ /\ part = "disk" /\ V!Init /\ NoLog /\ NoInode /\ NoUart /\ NoPipe /\ NoClock
     /\ lock = None /\ buf = None /\ killed = None
  \/ /\ part = "uart" /\ U!Init /\ NoLog /\ NoInode /\ NoVirtio /\ NoPipe /\ NoClock
     /\ lock = None /\ disk = None /\ panic = None /\ data = None /\ killed = None
  \/ /\ part = "pipe" /\ P!Init /\ NoLog /\ NoInode /\ NoVirtio /\ NoUart /\ NoClock
     /\ lk = None /\ disk = None /\ buf = None /\ pending = None /\ panic = None
  \/ /\ part = "clock" /\ K!Init /\ NoLog /\ NoInode /\ NoVirtio /\ NoUart /\ NoPipe
     /\ lock = None /\ disk = None /\ buf = None /\ pending = None /\ panic = None /\ data = None

\* A step A of one part.
OfLog(A) ==
  /\ part = "log" /\ A
  /\ UNCHANGED <<part, lock, lk, pending, panic, data, killed, InodeOnly, VirtioOnly, UartOnly, PipeOnly,
                 ClockOnly>>
OfInode(A) ==
  /\ part = "inode" /\ A
  /\ UNCHANGED <<part, lk, disk, buf, pending, data, killed, LogOnly, VirtioOnly, UartOnly, PipeOnly,
                 ClockOnly>>
OfDisk(A) ==
  /\ part = "disk" /\ A
  /\ UNCHANGED <<part, lock, buf, killed, LogOnly, InodeOnly, UartOnly, PipeOnly, ClockOnly>>
OfUart(A) ==
  /\ part = "uart" /\ A
  /\ UNCHANGED <<part, lock, disk, panic, data, killed, LogOnly, InodeOnly, VirtioOnly, PipeOnly,
                 ClockOnly>>
OfPipe(A) ==
  /\ part = "pipe" /\ A
  /\ UNCHANGED <<part, lk, disk, buf, pending, panic, LogOnly, InodeOnly, VirtioOnly, UartOnly, ClockOnly>>
OfClock(A) ==
  /\ part = "clock" /\ A
  /\ UNCHANGED <<part, lock, disk, buf, pending, panic, LogOnly, InodeOnly, VirtioOnly, UartOnly, PipeOnly>>

Next ==
  \/ OfLog(G!Next) \/ OfInode(I!Next) \/ OfDisk(V!Next) \/ OfUart(U!Next) \/ OfPipe(P!Next)
  \/ OfClock(K!Next)

\* The fairness of the six modules.  What is strongly fair there for the same
\* process, or for the device's interrupt, is one condition here.
Fairness ==
  /\ \A p \in Procs :
       /\ SF_vars(\/ OfLog(G!EndOp(p))
                  \/ /\ p \in Users
                     /\ \/ OfInode(I!Advance(p)) \/ OfDisk(V!Advance(p))
                        \/ OfPipe(P!Advance(p)) \/ OfClock(K!Advance(p)))
       /\ WF_vars(OfLog(\E b \in {Block} : G!LogWrite(p, b)))
       /\ WF_vars(OfLog(G!Commit(p)))
       /\ WF_vars(OfLog(pc[p] = "begin" /\ (G!BeginOp(p) \/ G!BeginOpSleep(p))))
  /\ \A p \in Users : SF_vars(OfPipe(\E e \in {"r", "w"} : P!Close(p, e)))
  /\ WF_vars(OfLog(G!Recover))
  /\ SF_vars(OfDisk(V!IntrStart) \/ OfUart(U!Uartintr) \/ OfClock(K!Clockintr))
  /\ WF_vars(OfDisk(V!DeviceTake) \/ OfUart(U!Transmit))
  /\ \A h \in 0..NUM - 1 : WF_vars(OfDisk(V!DeviceComplete(h)))
  /\ WF_vars(OfDisk(V!IntrOne \/ V!IntrEnd) \/ OfUart(U!UartstartTest \/ U!UartstartSend))

FairSpec == Init /\ [][Next]_vars /\ Fairness

-----------------------------------------------------------------------------
\* What p waits for in its part.
Waits(p) ==
  \/ part = "log" /\ pc[p] = "asleep"
  \/ part = "inode" /\ p \in Users /\ ~I!Idle(p)
  \/ part = "disk" /\ p \in Users /\ pc[p] = "wait"
  \/ part = "pipe" /\ p \in Users /\ pc[p] # "idle"
  \/ part = "clock" /\ p \in Users /\ ~K!Outside(p)
GoesOn(p) ==
  \/ part = "log" /\ pc[p] # "asleep"
  \/ part = "inode" /\ p \in Users /\ (I!Idle(p) \/ panic)
  \/ part \in {"disk", "pipe"} /\ p \in Users /\ pc[p] = "idle"
  \/ part = "clock" /\ p \in Users /\ K!Outside(p)

\* Who waits goes on: a sleeper in begin_op() is woken by end_op(); mkdir() and
\* unlink() return, as the locks of parent and child are taken in an order
\* that cannot deadlock; a request given to the disk is completed and
\* virtio_disk_rw() returns; reads and writes of a pipe return, at the latest
\* when the other side is closed; every call of sleep() returns; and every
\* character put into the transmit ring of the UART is sent.
WaitersGoOn ==
  /\ \A p \in Procs : Waits(p) ~> GoesOn(p)
  /\ \A k \in 1..MaxChars : part = "uart" /\ Len(accepted) >= k ~> part = "uart" /\ Len(out) >= k

\* sys_sleep(): 0 is returned only after n ticks, also across the wrap of
\* ticks, -1 only to a killed process; nobody sleeps beyond the tick it waits
\* for, nor, once killed, beyond the next tick.
SleepsRight == [][part = "clock" => K!ReturnsRight /\ K!SleepsInTime']_vars
=============================================================================
