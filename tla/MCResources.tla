----------------------------- MODULE MCResources ----------------------------
(***************************************************************************)
(* What the kernel hands out and takes back, on small instances: open      *)
(* files (twice: for references and for shared offsets), the blocks of     *)
(* files, the space of the log, the pages of processes, and linked lists.  *)
(* They share no state, so a behaviour is one of one part, chosen in the   *)
(* initial state, and the variables of the other parts stay None.          *)
(***************************************************************************)
EXTENDS Integers, Sequences, FiniteSets, TLC

CONSTANTS u1, u2, Opened, Inodes, Pipes, None,
          NFILE, NOFILE, MaxOff, MaxIo,
          LogBlocks, MAXOPBLOCKS, LOGSIZE,
          NBLOCKS, NDIRECT, NINDIRECT, BSIZE, Bytes, BlocksWord,
          Pages, PGSIZE, FAN, VmWord, trampoline,
          Heads, Nodes

Procs == {u1, u2}

VARIABLES
  part,
  pc, buf, panic,                                                            \* several
  file, ofile, live, iref, lock, pipe, held, ff, cur, peer, left, used,      \* File
  bitmap, logged, ind, inode, dinode, op, content,                           \* Blocks
  disk, logblk, head, refcnt, holder, lh, outstanding, committing, tail,     \* Log
  wrote, sys,
  free, others, proc, failed,                                                \* Vm
  l, lists, valid, clean, iter                                               \* List

ReadWrite == {<<TRUE, TRUE>>}
Separate == {<<TRUE, FALSE>>, <<FALSE, TRUE>>}

\* An empty segment, one of part of a page, one that leaves a gap.
Segments ==
  {[vaddr |-> 0, memsz |-> 0], [vaddr |-> 0, memsz |-> 1], [vaddr |-> 4, memsz |-> 1]}

\* One byte, three pages, one byte less, and less than any size.
Grows == {1, 6, -1, -40}

F == INSTANCE File WITH Inodes <- Opened, Pages <- Pipes, Modes <- ReadWrite, MaxOff <- 0,
                        MaxIo <- 1, Nobody <- None
O == INSTANCE File WITH Inodes <- Opened, Pages <- {}, Modes <- Separate, NFILE <- 2,
                        Nobody <- None
B == INSTANCE Blocks WITH WORD <- BlocksWord
G == INSTANCE Log WITH Blocks <- LogBlocks, Data <- {0}, NLOG <- LOGSIZE, OpBlocks <- 1,
                       NoBuf <- None, Nobody <- None
M == INSTANCE Vm WITH WORD <- VmWord, Argcs <- {0, 2}
L == INSTANCE List

ASSUME F!FileAssumption /\ O!FileAssumption /\ B!BlocksAssumption /\ M!VmAssumption

FileVars == <<file, ofile, live, iref, lock, pipe, held, ff, cur, peer, left, used>>
BlocksVars == <<bitmap, logged, ind, inode, dinode, op, content>>
LogVars == <<disk, logblk, head, refcnt, holder, lh, outstanding, committing, tail, wrote, sys>>
VmVars == <<free, others, proc, failed>>
ListVars == <<l, lists, valid, clean, iter>>

vars == <<part, pc, buf, panic, FileVars, BlocksVars, LogVars, VmVars, ListVars>>

NoFiles ==
  /\ file = None /\ ofile = None /\ live = None /\ iref = None /\ lock = None
  /\ pipe = None /\ held = None /\ ff = None /\ cur = None
  /\ peer = None /\ left = None /\ used = None
NoBlocks ==
  /\ bitmap = None /\ logged = None /\ ind = None
  /\ inode = None /\ dinode = None /\ op = None /\ content = None
NoLog ==
  /\ disk = None /\ logblk = None /\ head = None /\ refcnt = None /\ holder = None
  /\ lh = None /\ outstanding = None /\ committing = None /\ tail = None
  /\ wrote = None /\ sys = None
NoVm == free = None /\ others = None /\ proc = None /\ failed = None
NoLists == l = None /\ lists = None /\ valid = None /\ clean = None /\ iter = None

Init ==
  \/ /\ part = "files" /\ F!Init
     /\ NoBlocks /\ NoLog /\ NoVm /\ NoLists /\ buf = None /\ panic = None
  \/ /\ part = "offsets" /\ O!Init
     /\ NoBlocks /\ NoLog /\ NoVm /\ NoLists /\ buf = None /\ panic = None
  \/ part = "blocks" /\ B!Init /\ NoFiles /\ NoLog /\ NoVm /\ NoLists /\ pc = None
  \/ part = "log" /\ G!Init /\ NoFiles /\ NoBlocks /\ NoVm /\ NoLists /\ panic = None
  \/ /\ part = "memory" /\ M!Init
     /\ NoFiles /\ NoBlocks /\ NoLog /\ NoLists /\ pc = None /\ buf = None
  \/ /\ part = "lists" /\ L!Init
     /\ NoFiles /\ NoBlocks /\ NoLog /\ NoVm /\ pc = None /\ buf = None /\ panic = None

Next ==
  /\ part' = part
  /\ \/ /\ part = "files" /\ F!Next
        /\ UNCHANGED <<BlocksVars, LogVars, VmVars, ListVars, buf, panic>>
     \/ /\ part = "offsets" /\ O!Next
        /\ UNCHANGED <<BlocksVars, LogVars, VmVars, ListVars, buf, panic>>
     \/ part = "blocks" /\ B!Next /\ UNCHANGED <<FileVars, LogVars, VmVars, ListVars, pc>>
     \/ part = "log" /\ G!Next /\ UNCHANGED <<FileVars, BlocksVars, VmVars, ListVars, panic>>
     \/ part = "memory" /\ M!Next /\ UNCHANGED <<FileVars, BlocksVars, LogVars, ListVars, pc, buf>>
     \/ /\ part = "lists" /\ L!Next
        /\ UNCHANGED <<FileVars, BlocksVars, LogVars, VmVars, pc, buf, panic>>

Spec == Init /\ [][Next]_vars

\* The files of Blocks are interchangeable.
Symmetry == Permutations(Inodes)

\* The state without what is assigned before it is read again: the fields of
\* files that are not in use or being closed, the data of free blocks, and
\* which page serves which use.  The numbers of pages tell a state that
\* violates PagesAccounted from every state of the same shape that does not.
View ==
  CASE part \in {"files", "offsets"} ->
         <<part,
           [f \in DOMAIN file |-> IF file[f].ref = 0 \/ file[f].type = "none"
                                  THEN <<file[f].ref, file[f].type>>
                                  ELSE IF file[f].type = "pipe" THEN [file[f] EXCEPT !.off = 0]
                                  ELSE <<file[f], used[f]>>],
           ofile, live, iref, lock, pipe, pc, held, cur, peer, left,
           [p \in Procs |-> IF pc[p] # "drop" THEN None
                            ELSE <<ff[p].type, IF ff[p].type = "none" THEN None
                                               ELSE <<ff[p].obj, ff[p].writable>>>>]>>
    [] part = "blocks" ->
         <<bitmap, inode, dinode, op, content, panic,
           [b \in bitmap |-> <<buf[b], logged[b], ind[b]>>]>>
    [] part = "log" -> <<pc, buf, LogVars>>
    [] part = "memory" ->
         <<Cardinality(free), Cardinality(others),
           Cardinality({u[1] : u \in UNION {M!Uses(p) : p \in Procs}}),
           [p \in Procs |-> <<M!Live(p), proc[p].sz, DOMAIN proc[p].pt.nodes, DOMAIN proc[p].pt.leaf>>],
           failed, panic>>
    [] part = "lists" -> ListVars

-----------------------------------------------------------------------------
(* The properties of each part; File, Blocks, Vm and List explain them.     *)

\* file.c: a file's count is the number of descriptors and calls that have it,
\* inodes and ends of pipes are referenced exactly as often as files have
\* them, a descriptor of a process in user mode is an open file, and
\* fileread() and filewrite() use no offset of a shared file twice.
FilesAreExact ==
  /\ part = "files" => F!TypeOK /\ F!RefIsExact /\ F!ObjectsAreExact /\ F!DescriptorsAreOpen
  /\ part = "offsets" => O!TypeOK /\ O!RefIsExact /\ O!OffsetUsedOnce

\* balloc(), bfree(), bmap() and itrunc(): a block is marked exactly when one
\* file has it, in one place, and a file has every block below its size.  begin_op() reserves enough blocks of
\* the log: log_write() does not panic.
BlocksAccounted ==
  /\ part = "blocks" => B!TypeOK /\ B!BlocksAccounted /\ B!NoHoles
  /\ part = "log" => G!TypeOK /\ G!NoPanic

\* readi() returns what writei() wrote, for every offset and length, and
\* iupdate() was called after the last change of the inode.
ReadBack == part = "blocks" => B!ReadBack /\ B!DiskInodeCurrent

\* kalloc() and kfree(): every page is free or in exactly one use, a process
\* has exactly the pages below its size, and no panic of vm.c is reached.
PagesAccounted == part = "memory" => M!TypeOK /\ M!PagesAccounted /\ M!SizeIsMapped /\ M!NoPanic

\* A fork(), exec() or sbrk() that fails changes no process's memory.
FailureIsClean == [][part = "memory" => M!FailureStep]_vars

\* list.h: the pointers go through exactly the nodes of each list, the tests
\* for no and for one node are right, and list_for_each_safe() visits every
\* node although its body removes some.
ListsAreRight == part = "lists" => L!TypeOK /\ L!WellLinked /\ L!TestsAreRight /\ L!EachVisitsAll
=============================================================================
