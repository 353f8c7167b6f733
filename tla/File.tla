-------------------------------- MODULE File --------------------------------
(***************************************************************************)
(* Open files: the file table of kernel/file.c, the descriptors of every   *)
(* process, and the system calls that create, copy, use and drop           *)
(* references to them: open, pipe, dup, close, fork, exit, read and write  *)
(* (kernel/sysfile.c, kernel/pipe.c, kernel/proc.c).                       *)
(*                                                                         *)
(* An action is what a process does between two points where another one   *)
(* can interfere: one critical section of ftable.lock, one access to an    *)
(* inode or pipe.  Paths, directories and inode contents are in Inode; the *)
(* bytes of a pipe in Pipe.  A file of a device has no offset and is       *)
(* otherwise treated as one of an inode.                                   *)
(***************************************************************************)
EXTENDS Integers, Sequences, FiniteSets, FiniteSetsExt

CONSTANTS
  Procs,    \* process slots
  Inodes,   \* inodes that can be opened
  Pages,    \* pages a pipe can be allocated in
  Modes,    \* modes of open(): pairs of readable and writable
  NFILE,    \* files in the table
  NOFILE,   \* descriptors of a process
  MaxOff,   \* bound: reads and writes stop at this offset
  MaxIo,    \* bound: pieces of one write
  Nobody    \* holder of a free lock

FileAssumption ==
  /\ NFILE \in Nat \ {0} /\ NOFILE \in Nat \ {0} /\ MaxOff \in Nat /\ MaxIo \in Nat
  /\ Modes \subseteq {<<TRUE, FALSE>>, <<FALSE, TRUE>>, <<TRUE, TRUE>>}
  /\ IsFiniteSet(Procs) /\ Procs # {} /\ Nobody \notin Procs

VARIABLES
  file,    \* ftable.file: ref, type, object, writable end, readable, off
  ofile,   \* p->ofile; 0 is a free descriptor
  live,    \* processes that exist
  iref,    \* references to each inode held by open files
  lock,    \* holder of each inode's lock
  pipe,    \* for each page: the ends of its pipe that are open
  pc,      \* where each process is
  held,    \* files the running call of a process holds and has yet to place or close
  ff,      \* fileclose()'s copy of the file it closes
  cur,     \* descriptor, file or inode the call works on
  peer,    \* the child fork() makes
  left,    \* pieces left of a read or write
  used     \* history: how often each offset was used through a file

vars == <<file, ofile, live, iref, lock, pipe, pc, held, ff, cur, peer, left, used>>

Files == 1..NFILE
Fds == 1..NOFILE
Offs == 0..MaxOff
NoFile == [ref |-> 0, type |-> "none", obj |-> 0, readable |-> FALSE, writable |-> FALSE, off |-> 0]
Zero == [o \in Offs |-> 0]

\* The descriptors a fdalloc() may hand out: the lowest one.
FreeFds(p) == {fd \in Fds : ofile[p][fd] = 0}
FreeFiles == {f \in Files : file[f].ref = 0}

Goto(p, l) == pc' = [pc EXCEPT ![p] = l]
Hold(p, s) == held' = [held EXCEPT ![p] = s]

\* The first process, which never exits.
initproc == CHOOSE p \in Procs : TRUE

Init ==
  /\ file = [f \in Files |-> NoFile]
  /\ ofile = [p \in Procs |-> [fd \in Fds |-> 0]]
  /\ live = {initproc}
  /\ iref = [i \in Inodes |-> 0] /\ lock = [i \in Inodes |-> Nobody]
  /\ pipe = [g \in Pages |-> {}]
  /\ pc = [p \in Procs |-> "user"] /\ held = [p \in Procs |-> <<>>]
  /\ ff = [p \in Procs |-> NoFile] /\ cur = [p \in Procs |-> 0]
  /\ peer = [p \in Procs |-> p] /\ left = [p \in Procs |-> 0]
  /\ used = [f \in Files |-> Zero]

Idle(p) == p \in live /\ pc[p] = "user"

-----------------------------------------------------------------------------
(* fileclose() of the files in held[p], one after the other. *)

\* The critical section of fileclose().
CloseRef(p) ==
  LET f == Head(held[p]) IN
  /\ pc[p] = "close" /\ held[p] # <<>>
  /\ Hold(p, Tail(held[p]))
  /\ IF file[f].ref = 1
     THEN /\ ff' = [ff EXCEPT ![p] = file[f]]
          /\ file' = [file EXCEPT ![f] = [@ EXCEPT !.ref = 0, !.type = "none"]]
          /\ Goto(p, "drop")
     ELSE /\ file' = [file EXCEPT ![f].ref = @ - 1]
          /\ UNCHANGED <<ff, pc>>
  /\ UNCHANGED <<ofile, live, iref, lock, pipe, cur, peer, left, used>>

\* pipeclose() or iput(), as the copy says.
CloseDrop(p) ==
  /\ pc[p] = "drop"
  /\ LET c == ff[p] IN
     /\ pipe' = IF c.type = "pipe"
                THEN [pipe EXCEPT ![c.obj] = @ \ {IF c.writable THEN "w" ELSE "r"}] ELSE pipe
     /\ iref' = IF c.type = "inode" THEN [iref EXCEPT ![c.obj] = @ - 1] ELSE iref
  /\ ff' = [ff EXCEPT ![p] = NoFile]
  /\ Goto(p, "close")
  /\ UNCHANGED <<file, ofile, live, lock, held, cur, peer, left, used>>

\* All files are closed: back to exit(), to the error path of open(), or to
\* the caller.
CloseDone(p) ==
  /\ pc[p] = "close" /\ held[p] = <<>>
  /\ IF cur[p] \in Inodes THEN Goto(p, "openbad") /\ UNCHANGED ofile
     ELSE IF cur[p] \in Fds
     THEN Goto(p, "exit") /\ ofile' = [ofile EXCEPT ![p][cur[p]] = 0]
     ELSE Goto(p, "user") /\ UNCHANGED ofile
  /\ cur' = [cur EXCEPT ![p] = IF @ \in Inodes THEN @ ELSE 0]
  /\ UNCHANGED <<file, live, iref, lock, pipe, held, ff, peer, left, used>>

\* filealloc().
Filealloc(p, ok, bad) ==
  IF FreeFiles = {} THEN Goto(p, bad) /\ UNCHANGED <<file, held>>
  ELSE LET f == Min(FreeFiles) IN
       /\ file' = [file EXCEPT ![f].ref = 1]
       /\ Hold(p, Append(held[p], f))
       /\ Goto(p, ok)

-----------------------------------------------------------------------------
(* open() *)

\* sys_open() has found the inode and locked it.
Open(p, i) ==
  /\ Idle(p) /\ lock[i] = Nobody
  /\ lock' = [lock EXCEPT ![i] = p]
  /\ iref' = [iref EXCEPT ![i] = @ + 1]
  /\ cur' = [cur EXCEPT ![p] = i]
  /\ Goto(p, "open")
  /\ UNCHANGED <<file, ofile, live, pipe, held, ff, peer, left, used>>

OpenAlloc(p) ==
  /\ pc[p] = "open"
  /\ Filealloc(p, "openfd", "openbad")
  /\ UNCHANGED <<ofile, live, iref, lock, pipe, ff, cur, peer, left, used>>

\* fdalloc() and, on success, the assignments to the file; the lock of the
\* inode is released.  Without a descriptor the file is closed again.
OpenFd(p, mode) ==
  LET f == Head(held[p])
      i == cur[p] IN
  /\ pc[p] = "openfd"
  /\ IF FreeFds(p) = {}
     THEN Goto(p, "close") /\ UNCHANGED <<file, ofile, lock, held, cur, used>>
     ELSE /\ ofile' = [ofile EXCEPT ![p][Min(FreeFds(p))] = f]
          /\ file' = [file EXCEPT ![f] = [@ EXCEPT !.type = "inode", !.obj = i, !.off = 0,
                                                   !.readable = mode[1], !.writable = mode[2]]]
          /\ used' = [used EXCEPT ![f] = Zero]
          /\ lock' = [lock EXCEPT ![i] = Nobody]
          /\ cur' = [cur EXCEPT ![p] = 0]
          /\ Hold(p, <<>>) /\ Goto(p, "user")
  /\ UNCHANGED <<live, iref, pipe, ff, peer, left>>

\* iunlockput() of the error path keeps the reference.
BadRefsKept(i) == iref[i]

\* iunlockput() of the error path.
BadRefs(i) == iref[i] - 1

OpenBad(p) ==
  /\ pc[p] = "openbad"
  /\ lock' = [lock EXCEPT ![cur[p]] = Nobody]
  /\ iref' = [iref EXCEPT ![cur[p]] = BadRefs(cur[p])]
  /\ cur' = [cur EXCEPT ![p] = 0]
  /\ Goto(p, "user")
  /\ UNCHANGED <<file, ofile, live, pipe, held, ff, peer, left, used>>

-----------------------------------------------------------------------------
(* pipe() *)

PipeStart(p) ==
  /\ Idle(p)
  /\ Filealloc(p, "pipe1", "user")
  /\ UNCHANGED <<ofile, live, iref, lock, pipe, ff, cur, peer, left, used>>

\* The second file; without one, bad: closes the first.
PipeSecond(p) ==
  /\ pc[p] = "pipe1"
  /\ Filealloc(p, "pipe2", "close")
  /\ UNCHANGED <<ofile, live, iref, lock, pipe, ff, cur, peer, left, used>>

\* The page of the pipe and the assignments to the two files; without a page,
\* bad: closes both.
PipeAlloc(p) ==
  LET rf == held[p][1]
      wf == held[p][2]
      free == {g \in Pages : pipe[g] = {}} IN
  /\ pc[p] = "pipe2"
  /\ IF free = {} THEN Goto(p, "close") /\ UNCHANGED <<file, pipe>>
     ELSE LET g == CHOOSE x \in free : TRUE IN
          /\ pipe' = [pipe EXCEPT ![g] = {"r", "w"}]
          /\ file' = [file EXCEPT
               ![rf] = [@ EXCEPT !.type = "pipe", !.obj = g, !.readable = TRUE, !.writable = FALSE],
               ![wf] = [@ EXCEPT !.type = "pipe", !.obj = g, !.readable = FALSE, !.writable = TRUE]]
          /\ Goto(p, "pipe3")
  /\ UNCHANGED <<ofile, live, iref, lock, held, ff, cur, peer, left, used>>

\* sys_pipe() that leaves fd0 in place when there is no second descriptor.
PipeFdsBadKeeps(p, rf) == [ofile[p] EXCEPT ![Min(FreeFds(p))] = rf]

\* The descriptors after a failed sys_pipe(): fd0 is free again.
PipeFdsBad(p, rf) == ofile[p]

\* sys_pipe(): two descriptors, or none and both files closed; so, too, if
\* the numbers cannot be copied out.
PipeFds(p, copied) ==
  LET rf == held[p][1]
      wf == held[p][2]
      fd0 == Min(FreeFds(p))
      fd1 == Min(FreeFds(p) \ {fd0}) IN
  /\ pc[p] = "pipe3"
  /\ IF Cardinality(FreeFds(p)) >= 2 /\ copied
     THEN /\ ofile' = [ofile EXCEPT ![p][fd0] = rf, ![p][fd1] = wf]
          /\ Hold(p, <<>>) /\ Goto(p, "user")
     ELSE /\ ofile' = IF Cardinality(FreeFds(p)) = 1
                      THEN [ofile EXCEPT ![p] = PipeFdsBad(p, rf)] ELSE ofile
          /\ Goto(p, "close") /\ UNCHANGED held
  /\ UNCHANGED <<file, live, iref, lock, pipe, ff, cur, peer, left, used>>

-----------------------------------------------------------------------------
(* dup(), close(), fork(), exit() *)

\* sys_dup(): fdalloc() first, then filedup().
Dup(p, fd) ==
  LET f == ofile[p][fd] IN
  /\ Idle(p) /\ f # 0 /\ FreeFds(p) # {}
  /\ ofile' = [ofile EXCEPT ![p][Min(FreeFds(p))] = f]
  /\ cur' = [cur EXCEPT ![p] = f]
  /\ Goto(p, "dup")
  /\ UNCHANGED <<file, live, iref, lock, pipe, held, ff, peer, left, used>>

Filedup(p) ==
  /\ pc[p] = "dup"
  /\ file' = [file EXCEPT ![cur[p]].ref = @ + 1]
  /\ cur' = [cur EXCEPT ![p] = 0]
  /\ Goto(p, "user")
  /\ UNCHANGED <<ofile, live, iref, lock, pipe, held, ff, peer, left, used>>

\* sys_close(): the descriptor is cleared first.
Close(p, fd) ==
  /\ Idle(p) /\ ofile[p][fd] # 0
  /\ ofile' = [ofile EXCEPT ![p][fd] = 0]
  /\ Hold(p, <<ofile[p][fd]>>)
  /\ Goto(p, "close")
  /\ UNCHANGED <<file, live, iref, lock, pipe, ff, cur, peer, left, used>>

\* fork() has allocated the child q.
Fork(p, q) ==
  /\ Idle(p) /\ q \notin live /\ \A r \in live : peer[r] # q
  /\ peer' = [peer EXCEPT ![p] = q]
  /\ cur' = [cur EXCEPT ![p] = 0]
  /\ Goto(p, "fork")
  /\ UNCHANGED <<file, ofile, live, iref, lock, pipe, held, ff, left, used>>

\* The child's reference is not counted.
ForkRefShared(f) == file[f].ref

\* filedup() for the child.
ForkRef(f) == file[f].ref + 1

\* One round of fork()'s loop over the descriptors; then the child may run.
ForkFd(p) ==
  LET todo == {fd \in Fds : fd > cur[p] /\ ofile[p][fd] # 0}
      fd == Min(todo)
      f == ofile[p][fd] IN
  /\ pc[p] = "fork"
  /\ IF todo = {}
     THEN /\ live' = live \cup {peer[p]}
          /\ peer' = [peer EXCEPT ![p] = p]
          /\ cur' = [cur EXCEPT ![p] = 0]
          /\ Goto(p, "user") /\ UNCHANGED <<file, ofile>>
     ELSE /\ file' = [file EXCEPT ![f].ref = ForkRef(f)]
          /\ ofile' = [ofile EXCEPT ![peer[p]][fd] = f]
          /\ cur' = [cur EXCEPT ![p] = fd]
          /\ UNCHANGED <<live, peer, pc>>
  /\ UNCHANGED <<iref, lock, pipe, held, ff, left, used>>

Exit(p) ==
  /\ Idle(p) /\ p # initproc
  /\ Goto(p, "exit")
  /\ UNCHANGED <<file, ofile, live, iref, lock, pipe, held, ff, cur, peer, left, used>>

\* exit()'s loop over the descriptors: fileclose(f), then ofile[fd] = 0
\* (CloseDone); afterwards the process is gone.
ExitFd(p) ==
  LET open == {fd \in Fds : ofile[p][fd] # 0} IN
  /\ pc[p] = "exit"
  /\ IF open = {}
     THEN live' = live \ {p} /\ Goto(p, "user") /\ UNCHANGED <<held, cur>>
     ELSE /\ cur' = [cur EXCEPT ![p] = Min(open)]
          /\ Hold(p, <<ofile[p][Min(open)]>>)
          /\ Goto(p, "close") /\ UNCHANGED live
  /\ UNCHANGED <<file, ofile, iref, lock, pipe, ff, peer, left, used>>

-----------------------------------------------------------------------------
(* fileread() and filewrite() of an inode, a piece at a time *)

\* n pieces; a read has one.
Io(p, fd, write, n) ==
  LET f == ofile[p][fd] IN
  /\ Idle(p) /\ f # 0 /\ n \in 1..MaxIo
  /\ file[f].type = "inode" /\ file[f].off < MaxOff
  /\ IF write THEN file[f].writable ELSE file[f].readable /\ n = 1
  /\ cur' = [cur EXCEPT ![p] = fd]
  /\ left' = [left EXCEPT ![p] = n]
  /\ Goto(p, "iolock")
  /\ UNCHANGED <<file, ofile, live, iref, lock, pipe, held, ff, peer, used>>

\* The inode is not locked.
MayLockAlways(i) == TRUE

\* ilock() returns when nobody holds the inode's lock.
MayLock(i) == lock[i] = Nobody

IoLock(p) ==
  LET i == file[ofile[p][cur[p]]].obj IN
  /\ pc[p] = "iolock" /\ MayLock(i)
  /\ lock' = [lock EXCEPT ![i] = p]
  /\ Goto(p, "io")
  /\ UNCHANGED <<file, ofile, live, iref, pipe, held, ff, cur, peer, left, used>>

\* readi() or writei() at f->off, of one piece or, after an error or at the
\* end of the file, of none.
IoPiece(p, r) ==
  LET f == ofile[p][cur[p]]
      n == IF file[f].off < MaxOff THEN r ELSE 0 IN
  /\ pc[p] = "io"
  /\ used' = [used EXCEPT ![f][file[f].off] = @ + n]
  /\ left' = [left EXCEPT ![p] = IF n = 0 THEN 0 ELSE @]
  /\ Goto(p, "iooff")
  /\ UNCHANGED <<file, ofile, live, iref, lock, pipe, held, ff, cur, peer>>

\* f->off += r, iunlock(), and on to the next piece.
IoOff(p) ==
  LET f == ofile[p][cur[p]]
      more == left[p] > 1 IN
  /\ pc[p] = "iooff"
  /\ file' = [file EXCEPT ![f].off = IF left[p] > 0 THEN @ + 1 ELSE @]
  /\ lock' = [lock EXCEPT ![file[f].obj] = Nobody]
  /\ left' = [left EXCEPT ![p] = IF more THEN @ - 1 ELSE 0]
  /\ cur' = [cur EXCEPT ![p] = IF more THEN @ ELSE 0]
  /\ Goto(p, IF more THEN "iolock" ELSE "user")
  /\ UNCHANGED <<ofile, live, iref, pipe, held, ff, peer, used>>

-----------------------------------------------------------------------------
Step(p) ==
  \/ CloseRef(p) \/ CloseDrop(p) \/ CloseDone(p)
  \/ OpenAlloc(p) \/ OpenBad(p)
  \/ \E mode \in Modes : OpenFd(p, mode)
  \/ PipeSecond(p) \/ PipeAlloc(p)
  \/ \E copied \in BOOLEAN : PipeFds(p, copied)
  \/ Filedup(p) \/ ForkFd(p) \/ ExitFd(p)
  \/ IoLock(p) \/ IoOff(p)
  \/ \E r \in {0, 1} : IoPiece(p, r)

Call(p) ==
  \/ \E i \in Inodes : Open(p, i)
  \/ PipeStart(p)
  \/ \E fd \in Fds : Dup(p, fd) \/ Close(p, fd)
  \/ \E q \in Procs : Fork(p, q)
  \/ Exit(p)
  \/ \E fd \in Fds, write \in BOOLEAN, n \in 1..MaxIo : Io(p, fd, write, n)

Next == \E p \in Procs : Step(p) \/ Call(p)

Spec == Init /\ [][Next]_vars

-----------------------------------------------------------------------------
(* Properties *)

TypeOK ==
  /\ \A f \in Files :
       /\ file[f].ref \in Nat /\ file[f].off \in Offs
       /\ file[f].type \in {"none", "pipe", "inode"}
  /\ ofile \in [Procs -> [Fds -> 0..NFILE]] /\ live \subseteq Procs
  /\ iref \in [Inodes -> Nat]
  /\ \A p \in Procs : held[p] \in Seq(Files)

\* Where references to file f are held: descriptors, those of a child under
\* construction included, and files a call has yet to place or close.  The
\* descriptor of a dup() before its filedup() does not count yet, nor does
\* the one exit() is closing.
Refs(f) ==
  {<<p, fd>> \in Procs \X Fds : ofile[p][fd] = f /\ ~(pc[p] \in {"close", "drop"} /\ cur[p] = fd)}
  \cup {<<p, 0 - k>> : <<p, k>> \in {x \in Procs \X (1..2) :
                         x[2] <= Len(held[x[1]]) /\ held[x[1]][x[2]] = f}}

Dups(f) == {p \in Procs : pc[p] = "dup" /\ cur[p] = f}

\* A file's count is the number of its references, whatever forks, dups,
\* closes and failed calls overlap; so no entry is reused while somebody has
\* it, and none is lost.
RefIsExact ==
  \A f \in Files : file[f].ref + Cardinality(Dups(f)) = Cardinality(Refs(f))

\* An inode has one reference for every open file that has it, and one for
\* every call that is opening or closing it; an end of a pipe is open exactly
\* as long as a file has it or is being closed.
ObjectsAreExact ==
  /\ \A i \in Inodes :
       iref[i] = Cardinality({f \in Files : file[f].ref > 0 /\ file[f].type = "inode" /\ file[f].obj = i})
               + Cardinality({p \in Procs : pc[p] = "drop" /\ ff[p].type = "inode" /\ ff[p].obj = i})
               + Cardinality({p \in Procs : pc[p] \in {"open", "openfd", "openbad", "close", "drop"}
                                            /\ cur[p] = i})
  /\ \A g \in Pages :
       pipe[g] = {IF file[f].writable THEN "w" ELSE "r" :
                    f \in {x \in Files : file[x].ref > 0 /\ file[x].type = "pipe" /\ file[x].obj = g}}
                 \cup {IF ff[p].writable THEN "w" ELSE "r" :
                         p \in {x \in Procs : pc[x] = "drop" /\ ff[x].type = "pipe" /\ ff[x].obj = g}}

\* A descriptor of a process in user mode is an open file: read and write
\* never meet a file without a type (panic "fileread", "filewrite"), and
\* dup and close never meet one without references.
DescriptorsAreOpen ==
  \A p \in live, fd \in Fds :
    pc[p] = "user" /\ ofile[p][fd] # 0 =>
      file[ofile[p][fd]].ref > 0 /\ file[ofile[p][fd]].type # "none"

\* Processes that share a file through fork() or dup() never use an offset
\* twice: what one has written the other does not overwrite, and what one has
\* read the other does not read again.
OffsetUsedOnce == \A f \in Files, o \in Offs : used[f][o] <= 1
=============================================================================
