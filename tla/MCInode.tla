------------------------------- MODULE MCInode ------------------------------
(***************************************************************************)
(* Inode for TLC, in four uses: paths of one and two names without         *)
(* crashes; and paths of one name with crashes, for open files with        *)
(* several links, for links and current directories, and for current       *)
(* directories over fork() and exit().  A behaviour is one of one use,     *)
(* chosen in the initial state.                                            *)
(***************************************************************************)
EXTENDS Inode, TLC

VARIABLE use

Short == {<<n>> : n \in Names}
Deep == Short \cup {<<m, n>> : m, n \in Names}

Links == INSTANCE Inode WITH
  Paths <- Short, Calls <- {"create", "link", "unlink", "open"}, Crashes <- TRUE
Dirs == INSTANCE Inode WITH
  Paths <- Short, Calls <- {"mknod", "mkdir", "link", "unlink", "chdir"}, Crashes <- TRUE
Forks == INSTANCE Inode WITH
  Paths <- Short, Calls <- {"mkdir", "unlink", "chdir", "exec", "fork"}, Crashes <- TRUE

MCInit == Init /\ use \in {"deep", "links", "dirs", "forks"}

MCNext ==
  /\ use' = use
  /\ \/ use = "deep" /\ Next
     \/ use = "links" /\ Links!Next
     \/ use = "dirs" /\ Dirs!Next
     \/ use = "forks" /\ Forks!Next

MCSpec == MCInit /\ [][MCNext]_<<vars, use>>

Symmetry == Permutations(Procs) \cup Permutations(Inums \ {Root}) \cup Permutations(Names)

\* The state without the registers of a process that is between calls and
\* without the contents of table entries that are not valid: they are
\* overwritten before they are read.
View ==
  <<use, disk, ref, valid, lock, pc, rel, put, cwd, fd, panic,
    [i \in Inums |-> IF valid[i] THEN <<mtype[i], mlink[i]>> ELSE <<>>],
    [p \in Procs |-> IF pc[p] = "idle" THEN <<>>
                     ELSE <<call[p], path[p], new[p], cur[p], ip[p]>>]>>
=============================================================================
