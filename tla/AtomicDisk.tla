----------------------------- MODULE AtomicDisk -----------------------------
(***************************************************************************)
(* What the logging layer of kernel/log.c promises its callers: a disk     *)
(* whose contents change only by whole transactions.  A transaction groups *)
(* the updates of file-system calls that overlap; it becomes durable in    *)
(* one step, at a moment when no call is in progress, and a crash takes    *)
(* the disk back to the last durable contents.                             *)
(***************************************************************************)
CONSTANTS Procs,    \* processes making file-system calls
          Blocks,   \* home blocks of the file system
          Data      \* contents of a block

VARIABLES durable,  \* contents that survive a crash
          current,  \* contents the file-system code reads and writes
          active    \* processes between begin_op() and end_op()

vars == <<durable, current, active>>

Init == /\ durable \in [Blocks -> Data]
        /\ current = durable
        /\ active = {}

Begin(p) == /\ p \notin active
            /\ active' = active \cup {p}
            /\ UNCHANGED <<durable, current>>

Write(p, b, d) == /\ p \in active
                  /\ current' = [current EXCEPT ![b] = d]
                  /\ UNCHANGED <<durable, active>>

End(p) == /\ p \in active
          /\ active' = active \ {p}
          /\ UNCHANGED <<durable, current>>

\* All calls of the group at once, and none of them half done.
Commit == /\ active = {}
          /\ durable' = current
          /\ UNCHANGED <<current, active>>

Crash == /\ current' = durable
         /\ active' = {}
         /\ UNCHANGED durable

Next == \/ \E p \in Procs : \/ Begin(p)
                            \/ \E b \in Blocks, d \in Data : Write(p, b, d)
                            \/ End(p)
        \/ Commit
        \/ Crash

Spec == Init /\ [][Next]_vars
=============================================================================
