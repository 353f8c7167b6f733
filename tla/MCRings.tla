------------------------------ MODULE MCRings -------------------------------
(***************************************************************************)
(* The kernel's ring buffers on small instances: console input, UART       *)
(* output, the disk's request rings and pipes.  They share no state, so a  *)
(* property of one of them holds of all together if it holds of that one   *)
(* alone: a behaviour is one of one ring, chosen in the initial state, and *)
(* the variables of the others stay None.  Rings whose modules name a      *)
(* variable alike share it.                                                *)
(***************************************************************************)
EXTENDS Integers, Sequences, FiniteSets, TLC

CONSTANTS Procs, Users, Cpus, INPUT_BUF_SIZE, MaxN, UART_TX_BUF_SIZE, FIFO_SIZE, MaxChars,
          NUM, ConsoleMod, UartMod, IdxMod, PIPESIZE, UINT, MaxCount, None

VARIABLES
  part,
  buf, r, w, lk, pc, pending, killed, data,                        \* several
  e, target, n, got,                                               \* Console
  at, sync, fifo, accepted, out,                                   \* Uart
  free, desc, ops, info, ring, avail, usedRing, used, usedIdx,     \* Virtio
  idx, write, asleep, bdisk, disk, want, seen, busy, panic,
  nread, nwrite, readopen, writeopen, lock, frees, ends, left      \* Pipe

C == INSTANCE Console WITH Readers <- Users, Mod <- ConsoleMod
U == INSTANCE Uart WITH Writers <- Users, Printers <- Cpus, Mod <- UartMod
V == INSTANCE Virtio
P == INSTANCE Pipe WITH Procs <- Users, Bytes <- {0, 1}, Killable <- Users, Nobody <- None,
                        InitEnds <- [p \in Users |-> {"r", "w"}]

ASSUME C!ConsoleAssumption /\ U!UartAssumption /\ V!VirtioAssumption /\ P!PipeAssumption

ConsoleOnly == <<e, target, n, got>>
UartOnly == <<at, sync, fifo, accepted, out>>
VirtioOnly == <<free, desc, ops, info, ring, avail, usedRing, used, usedIdx,
                idx, write, asleep, bdisk, disk, want, seen, busy, panic>>
PipeOnly == <<nread, nwrite, readopen, writeopen, lock, frees, ends, left>>

NoConsole == e = None /\ target = None /\ n = None /\ got = None
NoUart == at = None /\ sync = None /\ fifo = None /\ accepted = None /\ out = None
NoVirtio ==
  /\ free = None /\ desc = None /\ ops = None /\ info = None /\ ring = None
  /\ avail = None /\ usedRing = None /\ used = None /\ usedIdx = None /\ idx = None
  /\ write = None /\ asleep = None /\ bdisk = None /\ disk = None /\ want = None
  /\ seen = None /\ busy = None /\ panic = None
NoPipe ==
  /\ nread = None /\ nwrite = None /\ readopen = None /\ writeopen = None
  /\ lock = None /\ frees = None /\ ends = None /\ left = None

Init ==
  \/ /\ part = "console" /\ C!Init /\ NoUart /\ NoVirtio /\ NoPipe
     /\ pending = None /\ data = None
  \/ /\ part = "uart" /\ U!Init /\ NoConsole /\ NoVirtio /\ NoPipe
     /\ killed = None /\ data = None
  \/ /\ part = "disk" /\ V!Init /\ NoConsole /\ NoUart /\ NoPipe
     /\ buf = None /\ r = None /\ w = None /\ killed = None
  \/ /\ part = "pipe" /\ P!Init /\ NoConsole /\ NoUart /\ NoVirtio
     /\ buf = None /\ r = None /\ w = None /\ lk = None /\ pending = None

\* The processes at a pipe are done when they have closed their descriptors,
\* and may wait for themselves when they have both ends.
PipeDone ==
  /\ \A p \in Users : ends[p] = {} \/ pc[p] \in {"r_asleep", "w_asleep"}
  /\ UNCHANGED <<data, killed, pc, PipeOnly>>

Next ==
  /\ part' = part
  /\ \/ part = "console" /\ C!Next /\ UNCHANGED <<UartOnly, VirtioOnly, PipeOnly, pending, data>>
     \/ part = "uart" /\ U!Next /\ UNCHANGED <<ConsoleOnly, VirtioOnly, PipeOnly, killed, data>>
     \/ part = "disk" /\ V!Next /\ UNCHANGED <<ConsoleOnly, UartOnly, PipeOnly, buf, r, w, killed>>
     \/ part = "pipe" /\ (P!Next \/ PipeDone) /\ UNCHANGED <<ConsoleOnly, UartOnly, VirtioOnly, buf, r, w, lk, pending>>

vars == <<part, buf, r, w, lk, pc, pending, killed, data, ConsoleOnly, UartOnly, VirtioOnly, PipeOnly>>

Spec == Init /\ [][Next]_vars

\* Which process has which disk transfer makes no difference.
Symmetry == Permutations(Procs)

\* The state without what is overwritten before it is read again: console
\* characters outside the indices; ring entries that were consumed, records
\* of free descriptors and the last transfer of an idle process.
View ==
  CASE part = "console" ->
         <<r, w, e, lk, pc, target, n, got, killed,
           [k \in 1..C!Minus(e, r) |-> C!At(C!Plus(r, k - 1))]>>
    [] part = "uart" -> <<buf, r, w, lk, pc, pending, UartOnly>>
    [] part = "disk" ->
         <<free, desc, avail, used, usedIdx, lk, pc, idx, asleep, bdisk, disk, seen, busy, pending, panic,
           {<<k, ring[k % NUM]>> : k \in V!Between(seen, avail)},
           {<<k, usedRing[k % NUM]>> : k \in V!Between(usedIdx, used)},
           [p \in Procs |-> IF pc[p] = "publish" THEN ring[avail % NUM] ELSE None],
           [d \in V!Desc \ free |-> <<ops[d], info[d]>>],
           [p \in Procs |-> IF pc[p] = "idle" THEN <<>> ELSE <<write[p], data[p], want[p]>>]>>
    [] part = "pipe" -> <<data, killed, pc, PipeOnly>>

-----------------------------------------------------------------------------
(* The properties of each ring; Console, Uart, Virtio and Pipe explain them. *)

\* console.c: no key changes committed input, consoleread() takes it from the
\* front, at most a line at a time, and returns 0 bytes for every ^D; r, w and
\* e stay in order and at most a buffer apart, and a full buffer can be read.
InputInOrder ==
  [][part = "console" =>
       /\ C!CommittedStep /\ C!EofStep
       /\ (C!TypeOK /\ C!IndicesInOrder /\ C!FullIsReadable /\ C!OneLinePerRead)']_vars

\* uart.c loses, repeats and reorders no character of a writer, and while
\* characters wait someone is going to send them.
OutputInOrder == part = "uart" => U!TypeOK /\ U!CharsInOrder /\ U!NotStalled

\* virtio_disk.c loses and shares no descriptor and reaches no panic, the
\* device works only on chains and buffers of processes that wait for it, and
\* virtio_disk_rw() returns after its own transfer.
RequestsAreRight ==
  part = "disk" => V!TypeOK /\ V!DescriptorsAccounted /\ V!DeviceOwnsChain /\ V!TransferDone /\ V!NoPanic

\* pipe.c: the ring with its wrapping counters is a bounded FIFO queue, freed
\* once, when nobody can use it any more.
PipeIsQueue ==
  /\ part = "pipe" => P!QueueInit
  /\ [][part = "pipe" => P!QueueStep /\ (P!TypeOK /\ P!FreedOnceAndUnused)']_vars

\* Nobody sleeps beside what it waits for: consoleread() beside committed
\* input, uartputc() beside room in the ring, virtio_disk_rw() beside free
\* descriptors or its finished request, piperead() and pipewrite() beside
\* data, room or a closed end (but for a killed writer, see Pipe).
SleepersHaveReason ==
  CASE part = "console" -> C!SleepsOnlyWithoutInput
    [] part = "uart" -> U!SleepsOnlyWhenFull
    [] part = "disk" -> V!SleepersHaveReason
    [] part = "pipe" -> P!WriterSleepsOnlyWhenFull /\ P!ReaderSleepsOnlyWhenEmpty
=============================================================================
