------------------------------- MODULE Clock --------------------------------
(***************************************************************************)
(* Time (sys_sleep() of kernel/sysproc.c and clockintr() of kernel/trap.c) *)
(* with kill() of kernel/proc.c.  What is done under tickslock while no    *)
(* other lock can be waited for is one step; sleep() is apart from the     *)
(* test of killed() before it, as kill() takes p->lock and not tickslock.  *)
(*                                                                         *)
(* ticks is a uint and wraps at UINT; n is an int.  A runnable process is  *)
(* assumed to run before UINT ticks have passed since its call (13 years). *)
(***************************************************************************)
EXTENDS Integers

CONSTANTS Procs,    \* processes that call sleep()
          UINT,     \* 2^32
          Delays,   \* arguments, within an int
          Nobody    \* tickslock is free

ClockAssumption == UINT \in Nat /\ UINT % 2 = 0 /\ \A n \in Delays : n >= -(UINT \div 2) /\ n < UINT \div 2

VARIABLES ticks,    \* ticks
          lk,       \* tickslock
          pc,       \* "user" | "call" | "test" | "sleep" | "asleep" | "woken",
                    \* "failed": back in usertrap() with -1
          n,        \* the argument
          ticks0,   \* ticks at the start of the call
          killed,   \* p->killed
          passed,   \* history: ticks since the call took ticks0
          late      \* history: p was killed before the last tick

vars == <<ticks, lk, pc, n, ticks0, killed, passed, late>>

Init ==
  /\ ticks = 0 /\ lk = Nobody
  /\ pc = [p \in Procs |-> "user"]
  /\ n = [p \in Procs |-> 0] /\ ticks0 = [p \in Procs |-> 0]
  /\ killed = [p \in Procs |-> FALSE]
  /\ passed = [p \in Procs |-> 0] /\ late = [p \in Procs |-> FALSE]

\* In user space, or on the way there.
Outside(p) == pc[p] \in {"user", "failed"}

InCall(p) == pc[p] \in {"test", "sleep", "asleep", "woken"}

\* usertrap() has found p not killed; argint(), and a negative n becomes 0.
Call(p) ==
  /\ pc[p] = "user" /\ ~killed[p]
  /\ \E d \in Delays : n' = [n EXCEPT ![p] = IF d < 0 THEN 0 ELSE d]
  /\ pc' = [pc EXCEPT ![p] = "call"]
  /\ UNCHANGED <<ticks, lk, ticks0, killed, passed, late>>

Start(p) ==
  /\ pc[p] = "call" /\ lk = Nobody
  /\ lk' = p /\ ticks0' = [ticks0 EXCEPT ![p] = ticks]
  /\ passed' = [passed EXCEPT ![p] = 0]
  /\ pc' = [pc EXCEPT ![p] = "test"]
  /\ UNCHANGED <<ticks, n, killed, late>>

\* Mutant of Due: the sum wraps, ticks0 + n <= ticks.
DueSum(p) == (ticks0[p] + n[p]) % UINT <= ticks

\* ticks - ticks0 < n is false; the difference is unsigned.
Due(p) == (ticks - ticks0[p]) % UINT >= n[p]

\* Give up tickslock and return.
Return(p, to) ==
  /\ lk' = Nobody /\ pc' = [pc EXCEPT ![p] = to]
  /\ n' = [n EXCEPT ![p] = 0] /\ ticks0' = [ticks0 EXCEPT ![p] = 0] /\ passed' = [passed EXCEPT ![p] = 0]
  /\ UNCHANGED <<ticks, killed, late>>

\* The test of the loop, then killed(), which takes p->lock and gives it back.
Test(p) ==
  /\ pc[p] = "test"
  /\ \/ Due(p) /\ Return(p, "user")
     \/ ~Due(p) /\ killed[p] /\ Return(p, "failed")
     \/ /\ ~Due(p) /\ ~killed[p]
        /\ pc' = [pc EXCEPT ![p] = "sleep"]
        /\ UNCHANGED <<ticks, lk, n, ticks0, killed, passed, late>>

\* sleep(&ticks, &tickslock): tickslock is given up under p->lock.
Sleep(p) ==
  /\ pc[p] = "sleep"
  /\ pc' = [pc EXCEPT ![p] = "asleep"] /\ lk' = Nobody
  /\ UNCHANGED <<ticks, n, ticks0, killed, passed, late>>

\* The end of sleep(): tickslock is taken again.
Woken(p) ==
  /\ pc[p] = "woken" /\ lk = Nobody
  /\ lk' = p /\ pc' = [pc EXCEPT ![p] = "test"]
  /\ UNCHANGED <<ticks, n, ticks0, killed, passed, late>>

Awake == [p \in Procs |-> IF pc[p] = "asleep" THEN "woken" ELSE pc[p]]

\* Mutant of Wakeup: only one sleeper is woken.
WakeupOne == \E p \in Procs : (\A q \in Procs : pc[q] = "asleep" => pc[p] = "asleep") /\ pc' = [pc EXCEPT ![p] = Awake[p]]

\* wakeup(&ticks), with tickslock held: all who sleep.
Wakeup == pc' = Awake

\* clockintr() on CPU 0.  The bound: nobody's call is UINT ticks old.
Clockintr ==
  /\ lk = Nobody
  /\ \A p \in Procs : InCall(p) => passed[p] + 1 < UINT
  /\ ticks' = (ticks + 1) % UINT
  /\ passed' = [p \in Procs |-> IF InCall(p) THEN passed[p] + 1 ELSE passed[p]]
  /\ late' = killed
  /\ Wakeup
  /\ UNCHANGED <<lk, n, ticks0, killed>>

\* kill() wakes a sleeping victim.
KillWakes(p) == IF pc[p] = "asleep" THEN "woken" ELSE pc[p]

\* kill() by another process.
Kill(p) ==
  /\ ~killed[p]
  /\ killed' = [killed EXCEPT ![p] = TRUE]
  /\ pc' = [pc EXCEPT ![p] = KillWakes(p)]
  /\ UNCHANGED <<ticks, lk, n, ticks0, passed, late>>

\* A killed process exits at the end of its system call, or at the next trap,
\* and its slot is used again.
Exit(p) ==
  /\ Outside(p) /\ killed[p]
  /\ pc' = [pc EXCEPT ![p] = "user"]
  /\ killed' = [killed EXCEPT ![p] = FALSE] /\ late' = [late EXCEPT ![p] = FALSE]
  /\ UNCHANGED <<ticks, lk, n, ticks0, passed>>

Advance(p) == Start(p) \/ Test(p) \/ Sleep(p) \/ Woken(p)

Next == Clockintr \/ \E p \in Procs : Call(p) \/ Advance(p) \/ Kill(p) \/ Exit(p)

\* The timer ticks; a process that can run does; both get tickslock some time
\* when it is free again and again.
Fairness == SF_vars(Clockintr) /\ \A p \in Procs : SF_vars(Advance(p))

Spec == Init /\ [][Next]_vars /\ Fairness

-----------------------------------------------------------------------------
ReturnsRight ==
  \A p \in Procs : pc[p] = "test" =>
    /\ pc'[p] = "user" => passed[p] >= n[p]
    /\ pc'[p] = "failed" => killed[p] /\ passed[p] < n[p]

SleepsInTime == \A p \in Procs : pc[p] = "asleep" => passed[p] < n[p] /\ ~late[p]

\* sleep(n) returns 0 only when n ticks have passed, also when ticks has
\* wrapped, and -1 only to a killed process.  Nobody sleeps beyond the tick
\* it waits for, and a process killed anywhere in the call, also between
\* killed() and sleep(), where kill() finds nobody to wake, sleeps at most
\* until the next tick.
SleepsRight == [][ReturnsRight /\ SleepsInTime']_vars

\* Every call of sleep() returns.
SleepReturns == \A p \in Procs : ~Outside(p) ~> Outside(p)
=============================================================================
