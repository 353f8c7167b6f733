------------------------------- MODULE MCProc -------------------------------
(***************************************************************************)
(* Two process tables for TLC: three slots on two CPUs, where processes    *)
(* run at the same time, and four slots on one CPU, where a process other  *)
(* than initproc can have grandchildren.  A behaviour is one of one table, *)
(* chosen in the initial state.                                            *)
(***************************************************************************)
EXTENDS Integers, TLC

CONSTANTS c1, c2, Free

VARIABLES table, state, chan, killed, parent, pc, ctx, child, lk, wlock, scan, wk, cpu, sch, at

Smp == INSTANCE Proc WITH NPROC <- 3, CPUs <- {c1, c2}
Family == INSTANCE Proc WITH NPROC <- 4, CPUs <- {c1}

ASSUME Smp!ProcAssumption /\ Family!ProcAssumption

Init ==
  \/ table = "smp" /\ Smp!Init
  \/ table = "family" /\ Family!Init

Next ==
  /\ table' = table
  /\ \/ table = "smp" /\ Smp!Next
     \/ table = "family" /\ Family!Next

Spec == Init /\ [][Next]_<<table, Smp!vars>>

-----------------------------------------------------------------------------
\* scheduler(), sched() and wait(): no process runs on two CPUs, state is
\* RUNNING exactly while one executes it, the tests of sched() succeed, and no
\* slot is freed whose stack a CPU still uses.
OneCpu ==
  IF table = "smp" THEN Smp!TypeOK /\ Smp!OneCpu /\ Smp!SchedTests /\ Smp!FreedIsOff
                   ELSE Family!TypeOK /\ Family!OneCpu /\ Family!SchedTests /\ Family!FreedIsOff

\* wait() and exit(): nobody sleeps in wait() with a zombie child, also when
\* reparent() handed it over, and no child is left behind without a parent
\* that can wait for it.
NoLostExit ==
  IF table = "smp" THEN Smp!NoLostExit /\ Smp!ParentsLive
                   ELSE Family!NoLostExit /\ Family!ParentsLive
=============================================================================
