------------------------------- MODULE Inode --------------------------------
(***************************************************************************)
(* Inodes and directories: iget, ilock, iput, ialloc, dirlookup, dirlink   *)
(* and namex of kernel/fs.c, and the system calls open, mkdir, mknod,      *)
(* link, unlink, chdir, fstat and close of kernel/sysfile.c, exec(), and   *)
(* the current directory in fork() and exit(), by several processes at     *)
(* once.                                                                   *)
(*                                                                         *)
(* A section under itable.lock is one step.  A section under the sleep     *)
(* lock of one inode that waits for no other lock is one step.  iput() is  *)
(* up to four steps.  The disk is seen through the log: Crash() happens    *)
(* between system calls only, which is what the log provides.  The table   *)
(* entry of an inode is named by its number, iget() keeps one per inode.   *)
(***************************************************************************)
EXTENDS Integers, Sequences, FiniteSetsExt

CONSTANTS
  Procs,    \* processes
  Inums,    \* inode numbers
  Root,     \* ROOTINO
  Names,    \* file names
  DotDot,   \* the name of the parent directory
  Paths,    \* the paths used, sequences of names
  Calls,    \* the system calls used
  Crashes,  \* whether the machine may crash
  None      \* no inode, no process

ASSUME InodeAssumption ==
  /\ Root \in Inums /\ None \notin Inums \cup Procs
  /\ DotDot \notin Names /\ Paths \subseteq Seq(Names \cup {DotDot}) \ {<<>>}
  /\ Calls \subseteq {"create", "mkdir", "mknod", "unlink", "link", "open", "chdir", "fstat", "exec", "fork"}
  /\ Crashes \in BOOLEAN

VARIABLES
  dtype,  \* type of the inode on disk, "free" for 0
  dlink,  \* nlink on disk
  ent,    \* contents of a directory: the inode of each name
  up,     \* and that of its ".." entry
  ref,    \* ip->ref
  valid,  \* ip->valid
  mtype,  \* ip->type
  mlink,  \* ip->nlink
  lock,   \* ip->lock
  pc,     \* where the process is in its system call
  call,   \* which one
  path,   \* the path elements still to look up
  new,    \* second path of link()
  cur,    \* ip of namex(), dp of its callers
  ip,     \* the file the call works on
  rel,    \* references to be dropped by iput() before the call goes on
  put,    \* where it is in iput()
  cwd,    \* p->cwd, None when p has exited
  fd,     \* the inode of the process's open file
  panic   \* a panic of ilock() or unlink()

disk == <<dtype, dlink, ent, up>>
mem == <<valid, mtype, mlink>>
locals == <<call, path, new, cur, ip>>
vars == <<disk, ref, mem, lock, pc, locals, rel, put, cwd, fd, panic>>

Empty == [n \in Names |-> None]

\* A fresh file system with a root directory, the current directory of
\* every process.
Init ==
  /\ dtype = [i \in Inums |-> IF i = Root THEN "dir" ELSE "free"]
  /\ dlink = [i \in Inums |-> IF i = Root THEN 1 ELSE 0]
  /\ ent = [i \in Inums |-> Empty]
  /\ up = [i \in Inums |-> IF i = Root THEN Root ELSE None]
  /\ ref = [i \in Inums |-> IF i = Root THEN Cardinality(Procs) ELSE 0]
  /\ valid = [i \in Inums |-> FALSE]
  /\ mtype = [i \in Inums |-> "free"]
  /\ mlink = [i \in Inums |-> 0]
  /\ lock = [i \in Inums |-> None]
  /\ pc = [p \in Procs |-> "idle"]
  /\ call = [p \in Procs |-> "none"]
  /\ path = [p \in Procs |-> <<>>]
  /\ new = [p \in Procs |-> <<>>]
  /\ cur = [p \in Procs |-> None]
  /\ ip = [p \in Procs |-> None]
  /\ rel = [p \in Procs |-> <<>>]
  /\ put = [p \in Procs |-> "test"]
  /\ cwd = [p \in Procs |-> Root]
  /\ fd = [p \in Procs |-> None]
  /\ panic = FALSE

-----------------------------------------------------------------------------
(* iget(), ilock() and iput() *)

\* iget(): a new table entry is not valid; an existing one is shared.
Iget(i) == ref' = [ref EXCEPT ![i] = @ + 1]

\* What ilock(i) finds: the entry if it is valid, otherwise the disk inode.
TypeOf(i) == IF valid[i] THEN mtype[i] ELSE dtype[i]
LinksOf(i) == IF valid[i] THEN mlink[i] ELSE dlink[i]

\* ilock() reads an inode from disk that is not allocated: "ilock: no type".
NoType(i) == ~valid[i] /\ dtype[i] = "free"

\* The inode's sleep lock is free, as ilock() needs it.
Free(i) == lock[i] = None

\* ilock() leaves the entry valid; its nlink is n at the end of the section.
Entry(i, n) ==
  /\ valid' = [valid EXCEPT ![i] = TRUE]
  /\ mtype' = [mtype EXCEPT ![i] = TypeOf(i)]
  /\ mlink' = [mlink EXCEPT ![i] = n]

\* iupdate(): type t and n links go to disk.
Iupdate(i, t, n) ==
  /\ dtype' = [dtype EXCEPT ![i] = t]
  /\ dlink' = [dlink EXCEPT ![i] = n]

Ready(p, l) == pc[p] = l /\ rel[p] = <<>> /\ ~panic
Goto(p, l) == pc' = [pc EXCEPT ![p] = l]

\* The call is over, after the references in s are dropped.
Finish(p, s) ==
  /\ Goto(p, "idle")
  /\ rel' = [rel EXCEPT ![p] = s]

\* An inode with a reference left and no links is freed as well.
LastUnlinkedAnyRef(i) == valid[i] /\ mlink[i] = 0

\* The test of iput(): the last reference to an inode without links.
LastUnlinked(i) == ref[i] = 1 /\ valid[i] /\ mlink[i] = 0

\* iput() under itable.lock: drop the reference, or lock the inode to free it.
IputTest(p) ==
  LET i == Head(rel[p]) IN
  /\ rel[p] # <<>> /\ put[p] = "test" /\ ~panic
  /\ IF LastUnlinked(i)
     THEN /\ lock[i] = None
          /\ lock' = [lock EXCEPT ![i] = p]
          /\ put' = [put EXCEPT ![p] = "trunc"]
          /\ UNCHANGED <<ref, mem, rel>>
     ELSE /\ ref' = [ref EXCEPT ![i] = @ - 1]
          /\ valid' = [valid EXCEPT ![i] = @ /\ ref[i] > 1]
          /\ rel' = [rel EXCEPT ![p] = Tail(@)]
          /\ UNCHANGED <<mtype, mlink, lock, put>>
  /\ UNCHANGED <<disk, pc, locals, cwd, fd, panic>>

\* itrunc(ip); ip->type = 0; iupdate(ip).
IputFree(p) ==
  LET i == Head(rel[p]) IN
  /\ put[p] = "trunc" /\ ~panic
  /\ Iupdate(i, "free", mlink[i])
  /\ mtype' = [mtype EXCEPT ![i] = "free"]
  /\ ent' = [ent EXCEPT ![i] = Empty]
  /\ up' = [up EXCEPT ![i] = None]
  /\ put' = [put EXCEPT ![p] = "invalid"]
  /\ UNCHANGED <<ref, valid, mlink, lock, pc, locals, rel, cwd, fd, panic>>

\* releasesleep() with the entry still valid.
IputStaysValid(p) ==
  LET i == Head(rel[p]) IN
  /\ put[p] = "invalid" /\ ~panic
  /\ lock' = [lock EXCEPT ![i] = None]
  /\ put' = [put EXCEPT ![p] = "dec"]
  /\ UNCHANGED <<disk, ref, mem, pc, locals, rel, cwd, fd, panic>>

\* ip->valid = 0; releasesleep(&ip->lock).
IputInvalidate(p) ==
  LET i == Head(rel[p]) IN
  /\ put[p] = "invalid" /\ ~panic
  /\ valid' = [valid EXCEPT ![i] = FALSE]
  /\ lock' = [lock EXCEPT ![i] = None]
  /\ put' = [put EXCEPT ![p] = "dec"]
  /\ UNCHANGED <<disk, ref, mtype, mlink, pc, locals, rel, cwd, fd, panic>>

\* ip->ref--.
IputDec(p) ==
  LET i == Head(rel[p]) IN
  /\ put[p] = "dec" /\ ~panic
  /\ ref' = [ref EXCEPT ![i] = @ - 1]
  /\ valid' = [valid EXCEPT ![i] = @ /\ ref[i] > 1]
  /\ rel' = [rel EXCEPT ![p] = Tail(@)]
  /\ put' = [put EXCEPT ![p] = "test"]
  /\ UNCHANGED <<disk, mtype, mlink, lock, pc, locals, cwd, fd, panic>>

-----------------------------------------------------------------------------
(* namex() *)

\* A call begins: begin_op(), and namex() starts at the root, or at
\* the current directory for a relative path.
Start(p, c, base, pa, n) ==
  /\ Ready(p, "idle") /\ cwd[p] # None
  /\ c \in {"open", "create"} => fd[p] = None
  /\ c # "link" => n = pa
  /\ Iget(base)
  /\ call' = [call EXCEPT ![p] = c]
  /\ path' = [path EXCEPT ![p] = pa]
  /\ new' = [new EXCEPT ![p] = IF c = "link" THEN n ELSE <<>>]
  /\ cur' = [cur EXCEPT ![p] = base]
  /\ ip' = [ip EXCEPT ![p] = None]
  /\ Goto(p, "walk")
  /\ UNCHANGED <<disk, mem, lock, rel, put, cwd, fd, panic>>

\* nameiparent() for all but open(), chdir(), exec() and the first path of link().
Parent(p) == ~(call[p] \in {"open", "chdir", "exec"} \/ (call[p] = "link" /\ ip[p] = None))

\* namex() goes round again instead of returning.
NotFoundRetries(p) ==
  /\ Goto(p, "walk")
  /\ UNCHANGED rel

\* namex() found nothing: the call fails; link() has a link to take back.
NotFound(p) ==
  /\ Goto(p, IF call[p] = "link" /\ ip[p] # None THEN "link_bad" ELSE "idle")
  /\ rel' = [rel EXCEPT ![p] = <<cur[p]>>]

\* dirlookup(); every directory has a ".." entry.
Lookup(d, n) == IF n = DotDot THEN up[d] ELSE ent[d][n]

\* dirlink() finds no entry of that name and writes one.  (An inode it does
\* find has a link, so that iput() only takes back the reference.)
Dirlink(d, n, i) == Lookup(d, n) = None /\ ent' = [ent EXCEPT ![d][n] = i]

\* One round of namex(): ilock(), dirlookup() with its iget(), iunlock(),
\* and iput() of the directory to come.
Walk(p) ==
  LET i == cur[p]
      next == Lookup(i, Head(path[p])) IN
  /\ Ready(p, "walk") /\ Free(i)
  /\ Entry(i, LinksOf(i))
  /\ panic' = NoType(i)
  /\ IF TypeOf(i) = "dir" /\ Parent(p) /\ Len(path[p]) = 1
     THEN /\ Goto(p, "at_parent")
          /\ UNCHANGED <<ref, path, cur, rel>>
     ELSE IF TypeOf(i) = "dir" /\ next # None
     THEN /\ Iget(next)
          /\ cur' = [cur EXCEPT ![p] = next]
          /\ path' = [path EXCEPT ![p] = Tail(@)]
          /\ rel' = [rel EXCEPT ![p] = <<i>>]
          /\ Goto(p, IF Len(path[p]) = 1 THEN "found" ELSE "walk")
     ELSE /\ NotFound(p)
          /\ UNCHANGED <<ref, path, cur>>
  /\ UNCHANGED <<disk, lock, call, new, ip, put, cwd, fd>>

-----------------------------------------------------------------------------
(* create(), for open(O_CREATE), mkdir() and mknod() *)

\* The type that create() is called with.
NewType(c) == CASE c = "create" -> "file" [] c = "mkdir" -> "dir" [] c = "mknod" -> "device"

\* ialloc(): an inode that is free on disk, cleared but for its type, and iget().
Ialloc(i, t) ==
  /\ dtype[i] = "free"
  /\ dtype' = [dtype EXCEPT ![i] = t]
  /\ dlink' = [dlink EXCEPT ![i] = 0]
  /\ Iget(i)

\* ilock(dp), kept; dirlookup(): an existing file, a free inode, or none.
\* The disk full of inodes ends the call.
Create(p) ==
  LET d == cur[p]
      old == Lookup(d, path[p][1]) IN
  /\ Ready(p, "at_parent") /\ call[p] \in {"create", "mkdir", "mknod"} /\ Free(d)
  /\ Entry(d, LinksOf(d))
  /\ panic' = NoType(d)
  /\ \/ /\ old # None
        /\ Iget(old)
        /\ ip' = [ip EXCEPT ![p] = old]
        /\ rel' = [rel EXCEPT ![p] = <<d>>]
        /\ Goto(p, "exists")
        /\ UNCHANGED <<dtype, dlink, lock>>
     \/ \E i \in Inums :
          /\ old = None /\ Ialloc(i, NewType(call[p]))
          /\ ip' = [ip EXCEPT ![p] = i]
          /\ lock' = [lock EXCEPT ![d] = p]
          /\ Goto(p, "create_init")
          /\ UNCHANGED rel
     \/ /\ old = None /\ \A i \in Inums : dtype[i] # "free"
        /\ Finish(p, <<d>>)
        /\ UNCHANGED <<dtype, dlink, ref, lock, ip>>
  /\ UNCHANGED <<ent, up, call, path, new, cur, put, cwd, fd>>

\* create() has made i in d and unlocked d.  open() keeps i locked, mkdir()
\* and mknod() end with iunlockput().
Created(p, d, i) ==
  LET made == call[p] \in {"mkdir", "mknod"} IN
  /\ rel' = [rel EXCEPT ![p] = IF made THEN <<d, i>> ELSE <<d>>]
  /\ lock' = [lock EXCEPT ![d] = None, ![i] = IF made THEN None ELSE p]
  /\ Goto(p, IF made THEN "idle" ELSE "opened")

\* ilock(ip); nlink = 1; dirlink() and the count of "..", then iunlock(dp);
\* when dirlink() fails nlink = 0 again and dp stays locked for iput(ip).
CreateInit(p) ==
  LET d == cur[p]
      i == ip[p]
      isdir == call[p] = "mkdir" IN
  /\ Ready(p, "create_init") /\ Free(i)
  /\ panic' = NoType(i)
  /\ \/ /\ dlink' = [dlink EXCEPT ![i] = 1, ![d] = IF isdir THEN @ + 1 ELSE @]
        /\ mlink' = [mlink EXCEPT ![i] = 1, ![d] = IF isdir THEN @ + 1 ELSE @]
        /\ Dirlink(d, path[p][1], i)
        /\ up' = [up EXCEPT ![i] = IF isdir THEN d ELSE None]
        /\ Created(p, d, i)
     \/ /\ mlink' = [mlink EXCEPT ![i] = 0]
        /\ rel' = [rel EXCEPT ![p] = <<i>>]
        /\ Goto(p, "unlock_dp")
        /\ UNCHANGED <<dlink, ent, up, lock>>
  /\ valid' = [valid EXCEPT ![i] = TRUE]
  /\ mtype' = [mtype EXCEPT ![i] = TypeOf(i)]
  /\ UNCHANGED <<dtype, ref, locals, put, cwd, fd>>

\* iunlockput(dp) after iunlockput(ip).
UnlockDp(p) ==
  /\ Ready(p, "unlock_dp")
  /\ lock' = [lock EXCEPT ![cur[p]] = None]
  /\ Finish(p, <<cur[p]>>)
  /\ UNCHANGED <<disk, ref, mem, locals, put, cwd, fd, panic>>

\* The name exists, or open() has found its file: ilock(ip), kept for the
\* rest of open(); mkdir(), mknod(), and open(O_CREATE) of a directory, fail.
OpenFound(p) ==
  LET i == IF pc[p] = "found" THEN cur[p] ELSE ip[p]
      ok == call[p] = "open" \/ (call[p] = "create" /\ TypeOf(i) \in {"file", "device"}) IN
  /\ \/ Ready(p, "exists")
     \/ Ready(p, "found") /\ call[p] = "open"
  /\ Free(i)
  /\ Entry(i, LinksOf(i))
  /\ panic' = NoType(i)
  /\ IF ok THEN /\ lock' = [lock EXCEPT ![i] = p]
                /\ Goto(p, "opened")
                /\ UNCHANGED rel
     ELSE /\ Finish(p, <<i>>)
          /\ UNCHANGED lock
  /\ ip' = [ip EXCEPT ![p] = i]
  /\ UNCHANGED <<disk, ref, call, path, new, cur, put, cwd, fd>>

\* The failing end of open() forgets iput().
OpenDoneLeaks(p) ==
  LET i == ip[p] IN
  /\ Ready(p, "opened")
  /\ lock' = [lock EXCEPT ![i] = None]
  /\ \/ fd' = [fd EXCEPT ![p] = i] /\ Finish(p, <<>>)
     \/ UNCHANGED fd /\ Finish(p, <<>>)
  /\ UNCHANGED <<disk, ref, mem, locals, put, cwd, panic>>

\* The end of open(): a file structure takes over the reference, or there is
\* none left and the call fails.
OpenDone(p) ==
  LET i == ip[p] IN
  /\ Ready(p, "opened")
  /\ lock' = [lock EXCEPT ![i] = None]
  /\ \/ fd' = [fd EXCEPT ![p] = i] /\ Finish(p, <<>>)
     \/ UNCHANGED fd /\ Finish(p, <<i>>)
  /\ UNCHANGED <<disk, ref, mem, locals, put, cwd, panic>>

\* close() that leaves the descriptor in place.
CloseKeeps(p) ==
  /\ Ready(p, "idle") /\ fd[p] # None
  /\ Finish(p, <<fd[p]>>)
  /\ UNCHANGED <<disk, ref, mem, lock, locals, put, cwd, fd, panic>>

\* close(): iput() of the file's inode.
Close(p) ==
  /\ Ready(p, "idle") /\ fd[p] # None
  /\ fd' = [fd EXCEPT ![p] = None]
  /\ Finish(p, <<fd[p]>>)
  /\ UNCHANGED <<disk, ref, mem, lock, locals, put, cwd, panic>>

\* fstat(): ilock(), stati() and iunlock() of the open file.
Fstat(p) ==
  LET i == fd[p] IN
  /\ "fstat" \in Calls /\ Ready(p, "idle") /\ i # None /\ Free(i)
  /\ Entry(i, LinksOf(i))
  /\ panic' = NoType(i)
  /\ UNCHANGED <<disk, ref, lock, pc, locals, rel, put, cwd, fd>>

\* chdir(): the new directory takes the place of the old one.  p->cwd is
\* assigned after iput() of the old one; only p itself reads it.
Chdir(p) ==
  LET i == cur[p] IN
  /\ Ready(p, "found") /\ call[p] = "chdir" /\ Free(i)
  /\ Entry(i, LinksOf(i))
  /\ panic' = NoType(i)
  /\ IF TypeOf(i) = "dir"
     THEN cwd' = [cwd EXCEPT ![p] = i] /\ Finish(p, <<cwd[p]>>)
     ELSE UNCHANGED cwd /\ Finish(p, <<i>>)
  /\ UNCHANGED <<disk, ref, lock, locals, put, fd>>

\* exec(): the program is read under ilock(), then iunlockput().
Exec(p) ==
  LET i == cur[p] IN
  /\ Ready(p, "found") /\ call[p] = "exec" /\ Free(i)
  /\ Entry(i, LinksOf(i))
  /\ panic' = NoType(i)
  /\ Finish(p, <<i>>)
  /\ UNCHANGED <<disk, ref, lock, locals, put, cwd, fd>>

\* fork(): the child q starts in the directory of p.  The open files they
\* share hold one reference, which stays with p here.
Fork(p, q) ==
  /\ "fork" \in Calls /\ Ready(p, "idle") /\ Ready(q, "idle")
  /\ cwd[p] # None /\ cwd[q] = None
  /\ Iget(cwd[p])
  /\ cwd' = [cwd EXCEPT ![q] = cwd[p]]
  /\ UNCHANGED <<disk, mem, lock, pc, locals, rel, put, fd, panic>>

\* exit() of one of several processes, once its files are closed.
Exit(p) ==
  /\ "fork" \in Calls /\ Ready(p, "idle") /\ fd[p] = None
  /\ cwd[p] # None /\ \E q \in Procs \ {p} : cwd[q] # None
  /\ cwd' = [cwd EXCEPT ![p] = None]
  /\ Finish(p, <<cwd[p]>>)
  /\ UNCHANGED <<disk, ref, mem, lock, locals, put, fd, panic>>

-----------------------------------------------------------------------------
(* unlink() *)

\* dirlookup() without keeping dp locked.
UnlinkUnlocked(p) ==
  LET d == cur[p]
      i == Lookup(d, path[p][1]) IN
  /\ Ready(p, "at_parent") /\ call[p] = "unlink" /\ Free(d)
  /\ Entry(d, LinksOf(d))
  /\ panic' = NoType(d)
  /\ IF path[p][1] = DotDot \/ i = None
     THEN Finish(p, <<d>>) /\ UNCHANGED <<ref, lock, ip>>
     ELSE /\ Iget(i)
          /\ ip' = [ip EXCEPT ![p] = i]
          /\ Goto(p, "unlink_ip")
          /\ UNCHANGED <<lock, rel>>
  /\ UNCHANGED <<disk, call, path, new, cur, put, cwd, fd>>

\* ilock(dp), kept, and dirlookup() with its iget().
Unlink(p) ==
  LET d == cur[p]
      i == Lookup(d, path[p][1]) IN
  /\ Ready(p, "at_parent") /\ call[p] = "unlink" /\ Free(d)
  /\ Entry(d, LinksOf(d))
  /\ panic' = NoType(d)
  /\ IF path[p][1] = DotDot \/ i = None
     THEN Finish(p, <<d>>) /\ UNCHANGED <<ref, lock, ip>>
     ELSE /\ Iget(i)
          /\ ip' = [ip EXCEPT ![p] = i]
          /\ lock' = [lock EXCEPT ![d] = p]
          /\ Goto(p, "unlink_ip")
          /\ UNCHANGED rel
  /\ UNCHANGED <<disk, call, path, new, cur, put, cwd, fd>>

\* isdirempty() fails.
Busy(i) == TypeOf(i) = "dir" /\ ent[i] # Empty

\* ilock(ip); the entry is cleared and dp unlocked, ip stays locked.
UnlinkErase(p) ==
  LET d == cur[p]
      i == ip[p]
      isdir == TypeOf(i) = "dir" IN
  /\ Ready(p, "unlink_ip") /\ Free(i)
  /\ panic' = (NoType(i) \/ LinksOf(i) < 1)
  /\ valid' = [valid EXCEPT ![i] = TRUE]
  /\ mtype' = [mtype EXCEPT ![i] = TypeOf(i)]
  /\ IF Busy(i)
     THEN /\ mlink' = [mlink EXCEPT ![i] = LinksOf(i)]
          /\ rel' = [rel EXCEPT ![p] = <<i>>]
          /\ Goto(p, "unlock_dp")
          /\ UNCHANGED <<dlink, ent, lock>>
     ELSE /\ ent' = [ent EXCEPT ![d][path[p][1]] = None]
          /\ dlink' = [dlink EXCEPT ![d] = IF isdir THEN @ - 1 ELSE @]
          /\ mlink' = [mlink EXCEPT ![i] = LinksOf(i), ![d] = IF isdir THEN @ - 1 ELSE @]
          /\ lock' = [lock EXCEPT ![d] = None, ![i] = p]
          /\ rel' = [rel EXCEPT ![p] = <<d>>]
          /\ Goto(p, "unlink_dec")
  /\ UNCHANGED <<dtype, up, ref, locals, put, cwd, fd>>

\* ip->nlink--; iupdate(ip); iunlockput(ip).
UnlinkDec(p) ==
  LET i == ip[p] IN
  /\ Ready(p, "unlink_dec")
  /\ mlink' = [mlink EXCEPT ![i] = @ - 1]
  /\ Iupdate(i, mtype[i], mlink[i] - 1)
  /\ lock' = [lock EXCEPT ![i] = None]
  /\ Finish(p, <<i>>)
  /\ UNCHANGED <<ent, up, ref, valid, mtype, locals, put, cwd, fd, panic>>

-----------------------------------------------------------------------------
(* link() *)

\* link() that counts the new link only in memory.
LinkCountInMemory(p) ==
  LET i == cur[p] IN
  /\ Ready(p, "found") /\ call[p] = "link" /\ Free(i)
  /\ panic' = NoType(i)
  /\ IF TypeOf(i) = "dir"
     THEN /\ Entry(i, LinksOf(i))
          /\ Finish(p, <<i>>)
          /\ UNCHANGED <<dlink, ref, path, cur, ip>>
     ELSE /\ Entry(i, LinksOf(i) + 1)
          /\ ip' = [ip EXCEPT ![p] = i]
          /\ \E base \in {Root, cwd[p]} : Iget(base) /\ cur' = [cur EXCEPT ![p] = base]
          /\ path' = [path EXCEPT ![p] = new[p]]
          /\ Goto(p, "walk")
          /\ UNCHANGED <<dlink, rel>>
  /\ UNCHANGED <<dtype, ent, up, lock, call, new, put, cwd, fd>>

\* The old path is found: nlink++ unless it is a directory; then namex() of
\* the parent of the new path begins.
LinkCount(p) ==
  LET i == cur[p] IN
  /\ Ready(p, "found") /\ call[p] = "link" /\ Free(i)
  /\ panic' = NoType(i)
  /\ IF TypeOf(i) = "dir"
     THEN /\ Entry(i, LinksOf(i))
          /\ Finish(p, <<i>>)
          /\ UNCHANGED <<dtype, dlink, ref, path, cur, ip>>
     ELSE /\ Entry(i, LinksOf(i) + 1)
          /\ Iupdate(i, TypeOf(i), LinksOf(i) + 1)
          /\ ip' = [ip EXCEPT ![p] = i]
          /\ \E base \in {Root, cwd[p]} : Iget(base) /\ cur' = [cur EXCEPT ![p] = base]
          /\ path' = [path EXCEPT ![p] = new[p]]
          /\ Goto(p, "walk")
          /\ UNCHANGED rel
  /\ UNCHANGED <<ent, up, lock, call, new, put, cwd, fd>>

\* ilock(dp); dirlink(), which fails for a name in use or a full disk.
LinkEnter(p) ==
  LET d == cur[p] IN
  /\ Ready(p, "at_parent") /\ call[p] = "link" /\ Free(d)
  /\ Entry(d, LinksOf(d))
  /\ panic' = NoType(d)
  /\ \/ /\ Dirlink(d, path[p][1], ip[p])
        /\ Finish(p, <<d, ip[p]>>)
     \/ /\ Goto(p, "link_bad")
        /\ rel' = [rel EXCEPT ![p] = <<d>>]
        /\ UNCHANGED ent
  /\ UNCHANGED <<dtype, dlink, up, ref, lock, locals, put, cwd, fd>>

\* bad: the link count is taken back.
LinkBad(p) ==
  LET i == ip[p] IN
  /\ Ready(p, "link_bad") /\ Free(i)
  /\ mlink' = [mlink EXCEPT ![i] = @ - 1]
  /\ Iupdate(i, mtype[i], mlink[i] - 1)
  /\ Finish(p, <<i>>)
  /\ UNCHANGED <<ent, up, ref, valid, mtype, lock, locals, put, cwd, fd, panic>>

-----------------------------------------------------------------------------
\* A crash between system calls, and the reboot: memory is lost, processes
\* start again in the root directory.
Crash ==
  /\ Crashes /\ ~panic
  /\ \A p \in Procs : Ready(p, "idle")
  /\ ref' = [i \in Inums |-> IF i = Root THEN Cardinality(Procs) ELSE 0]
  /\ valid' = [i \in Inums |-> FALSE]
  /\ cwd' = [p \in Procs |-> Root]
  /\ fd' = [p \in Procs |-> None]
  /\ UNCHANGED <<disk, mtype, mlink, lock, pc, locals, rel, put, panic>>

\* A step of the call in progress.
Advance(p) ==
  \/ IputTest(p) \/ IputFree(p) \/ IputInvalidate(p) \/ IputDec(p)
  \/ Walk(p) \/ Create(p) \/ CreateInit(p) \/ UnlockDp(p)
  \/ OpenFound(p) \/ OpenDone(p) \/ Chdir(p) \/ Exec(p)
  \/ Unlink(p) \/ UnlinkErase(p) \/ UnlinkDec(p)
  \/ LinkCount(p) \/ LinkEnter(p) \/ LinkBad(p)

Next ==
  \/ \E p \in Procs :
       \/ Advance(p) \/ Close(p) \/ Fstat(p) \/ Exit(p)
       \/ \E q \in Procs : Fork(p, q)
       \/ \E c \in Calls \ {"fstat", "fork"}, base \in {Root, cwd[p]}, pa, n \in Paths : Start(p, c, base, pa, n)
  \/ Crash

Spec == Init /\ [][Next]_vars

\* A call in progress that can go on eventually does: a process is scheduled
\* again and again, and takes a lock that is free again and again.
Fairness == \A p \in Procs : SF_vars(Advance(p))

-----------------------------------------------------------------------------
(* Properties *)

TypeOK ==
  /\ dtype \in [Inums -> {"free", "dir", "file", "device"}]
  /\ dlink \in [Inums -> Nat]
  /\ ent \in [Inums -> [Names -> Inums \cup {None}]]
  /\ ref \in [Inums -> Nat]
  /\ valid \in [Inums -> BOOLEAN]
  /\ mtype \in [Inums -> {"free", "dir", "file", "device"}]
  /\ mlink \in [Inums -> Nat]
  /\ lock \in [Inums -> Procs \cup {None}]
  /\ rel \in [Procs -> Seq(Inums)]
  /\ put \in [Procs -> {"test", "trunc", "invalid", "dec"}]
  /\ up \in [Inums -> Inums \cup {None}]
  /\ cwd \in [Procs -> Inums \cup {None}]
  /\ fd \in [Procs -> Inums \cup {None}]
  /\ panic \in BOOLEAN

Idle(p) == pc[p] = "idle" /\ rel[p] = <<>>
Quiet == \A p \in Procs : Idle(p)

\* The process holds a pointer to the entry in cur, in ip, in the rest of an
\* iput(), as its file or as its directory.
HasCur(p, i) ==
  cur[p] = i /\ pc[p] \in {"walk", "at_parent", "found", "create_init", "unlink_ip", "unlock_dp"}
HasIp(p, i) == ip[p] = i /\
  \/ pc[p] \in {"exists", "create_init", "opened", "unlink_ip", "unlink_dec", "link_bad"}
  \/ call[p] = "link" /\ pc[p] \in {"walk", "at_parent"}
Drops(p, i) == Cardinality({k \in DOMAIN rel[p] : rel[p][k] = i})
Pointers(i) ==
  Cardinality({p \in Procs : HasCur(p, i)}) + Cardinality({p \in Procs : HasIp(p, i)})
  + Cardinality({p \in Procs : fd[p] = i}) + Cardinality({p \in Procs : cwd[p] = i})
  + MapThenSumSet(LAMBDA p : Drops(p, i), Procs)

\* ip->ref counts the pointers to the table entry: an entry in use is never
\* recycled by iget(), an unused one is never kept.
RefIsExact == \A i \in Inums : ref[i] = Pointers(i)

\* A directory entry names an allocated inode with a link count that covers
\* it, at every moment: dirlink() comes after nlink++, nlink-- after the
\* entry is cleared.
EntriesAreCounted ==
  \A i \in Inums :
    LET n == Cardinality({e \in Inums \X Names : ent[e[1]][e[2]] = i}) IN
    n > 0 => dtype[i] # "free" /\ dlink[i] >= n

\* iput() frees no inode that a process has open or is in.
OpenFileLives ==
  \A p \in Procs :
    /\ fd[p] # None => dtype[fd[p]] # "free"
    /\ cwd[p] # None => dtype[cwd[p]] = "dir"

\* iput() calls acquiresleep() with itable.lock held; "this acquiresleep()
\* won't block (or deadlock)", because no other process can have it locked.
IputNeverSleeps ==
  \A p \in Procs :
    rel[p] # <<>> /\ put[p] = "test" /\ LastUnlinked(Head(rel[p]))
      => lock[Head(rel[p])] = None

\* A valid table entry nobody has locked is what is on disk: every change of
\* the entry is written by iupdate() before iunlock().
EntryMatchesDisk ==
  \A i \in Inums :
    valid[i] /\ lock[i] = None => mtype[i] = dtype[i] /\ mlink[i] = dlink[i]

\* The panics of ilock() ("ilock: no type") and unlink() ("nlink < 1") are
\* never reached, as a name or a pointer leads to an allocated, linked inode,
\* and neither is that of sched() ("sched locks") from within iput().
NoPanic == ~panic /\ IputNeverSleeps

\* The inode table as iget(), ilock(), iupdate() and iput() keep it.
TableIsExact == TypeOK /\ RefIsExact /\ EntryMatchesDisk

\* What a directory names, or a process has open or is in, is allocated.
NamedOrOpenLives == EntriesAreCounted /\ OpenFileLives

\* "An inode is allocated if its type is non-zero; iput() frees if the
\* reference and link counts have fallen to zero": no unlinked inode stays
\* allocated when nobody has a pointer to it and no call is in progress.
UnlinkedIsFreed ==
  Quiet => \A i \in Inums : dtype[i] # "free" /\ dlink[i] = 0 => ref[i] > 0
=============================================================================
