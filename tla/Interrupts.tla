----------------------------- MODULE Interrupts -----------------------------
(***************************************************************************)
(* Spin locks and interrupts: kernel/spinlock.c, the timer interrupt in    *)
(* kernel mode (kerneltrap(), clockintr() of kernel/trap.c), and the way   *)
(* sched() and scheduler() of kernel/proc.c carry the interrupt state of a *)
(* kernel thread from one CPU to another.                                  *)
(*                                                                         *)
(* A context is a kernel thread or the scheduler of a CPU.  Threads take   *)
(* locks in order, nested or not, and sleep on the ticks as sys_sleep()    *)
(* does; a timer interrupt can come before every step of a CPU that has    *)
(* interrupts on.  With interrupts off a CPU can only be disturbed through *)
(* locked, so push_off() after intr_off(), and release() with pop_off(),   *)
(* are one step.                                                           *)
(***************************************************************************)
EXTENDS Integers, FiniteSets

CONSTANTS
  Cpus, Cpu0,   \* CPUs, and the one that counts ticks
  Threads,      \* kernel threads
  Tickslock,    \* the lock of the clock
  Inner,        \* another lock, taken after tickslock or alone
  None

\* p->lock of a thread is named by the thread.
Locks == Threads \cup {Tickslock, Inner}
Contexts == Threads \cup Cpus

\* Places in the code.
Labels == {"push", "off", "spin", "run", "crit", "inner", "sleep", "sched", "swtch", "resumed", "again",
           "forkret", "return", "user", "scan", "found", "back", "clock", "tick", "wake", "ticked",
           "yield", "sret"}

\* What a trap frame keeps of an interrupted context.
Frames == Labels \X (Locks \cup {None}) \X Labels \X BOOLEAN

ASSUME InterruptsAssumption ==
  /\ Cpu0 \in Cpus /\ IsFiniteSet(Threads)
  /\ {Tickslock, Inner, None} \cap (Cpus \cup Threads) = {} /\ Cpus \cap Threads = {}
  /\ Tickslock # Inner /\ None \notin {Tickslock, Inner} \cup Frames

VARIABLES
  locked,  \* for each lock, lk->cpu, or None
  intr,    \* for each CPU, whether interrupts are on
  noff, intena,
  cur,     \* the context each CPU runs
  state,   \* p->state
  pc,      \* where each context is
  want, ret, old,  \* acquire(): the lock, where to go then, push_off()'s old
  lk,      \* the lock a thread works with
  saved,   \* sched()'s intena
  frame,   \* where a context was interrupted, or None
  todo,    \* wakeup()'s loop: threads yet to look at
  panic

vars == <<locked, intr, noff, intena, cur, state, pc, want, ret, old, lk, saved, frame, todo, panic>>
cpuvars == <<locked, intr, noff, intena>>
calls == <<want, ret, old>>

Init ==
  /\ locked = [l \in Locks |-> None]
  /\ intr = [c \in Cpus |-> TRUE]
  /\ noff = [c \in Cpus |-> 0] /\ intena = [c \in Cpus |-> FALSE]
  /\ cur = [c \in Cpus |-> c]
  /\ state = [t \in Threads |-> "RUNNABLE"]
  /\ pc = [x \in Contexts |-> IF x \in Cpus THEN "scan" ELSE "forkret"]
  /\ want = [x \in Contexts |-> None] /\ ret = [x \in Contexts |-> "run"]
  /\ old = [x \in Contexts |-> FALSE]
  /\ lk = [x \in Contexts |-> None] /\ saved = [t \in Threads |-> FALSE]
  /\ frame = [x \in Contexts |-> None] /\ todo = [x \in Contexts |-> {}]
  /\ panic = FALSE

Go(x, l) == pc' = [pc EXCEPT ![x] = l]

\* holding() that does not look at the CPU.
HoldingAny(c, l) == locked[l] # None

\* holding().
Holding(c, l) == locked[l] = c

-----------------------------------------------------------------------------
(* acquire(), release() *)

\* A call of acquire(l) that continues at r.
Acquire(x, l, r) ==
  /\ want' = [want EXCEPT ![x] = l] /\ ret' = [ret EXCEPT ![x] = r]
  /\ Go(x, "push")

\* push_off(): old = intr_get().
PushOffGet(c, x) ==
  /\ pc[x] = "push"
  /\ old' = [old EXCEPT ![x] = intr[c]]
  /\ Go(x, "off")
  /\ UNCHANGED <<cpuvars, cur, state, want, ret, lk, saved, frame, todo, panic>>

\* push_off() saves the state at the outermost level.
Outer(c) == noff[c] = 0

\* The rest of push_off(), and the test of acquire().
PushOff(c, x) ==
  /\ pc[x] = "off"
  /\ intr' = [intr EXCEPT ![c] = FALSE]
  /\ intena' = IF Outer(c) THEN [intena EXCEPT ![c] = old[x]] ELSE intena
  /\ noff' = [noff EXCEPT ![c] = @ + 1]
  /\ panic' = (panic \/ Holding(c, want[x]))
  /\ Go(x, "spin")
  /\ UNCHANGED <<locked, cur, state, calls, lk, saved, frame, todo>>

\* The test and set that succeeds.
TestAndSet(c, x) ==
  /\ pc[x] = "spin" /\ locked[want[x]] = None
  /\ locked' = [locked EXCEPT ![want[x]] = c]
  /\ Go(x, ret[x])
  /\ want' = [want EXCEPT ![x] = None]
  /\ UNCHANGED <<intr, noff, intena, cur, state, ret, old, lk, saved, frame, todo, panic>>

\* pop_off() turns interrupts on whatever is still held.
PopOffOn(c) == intena[c]

\* pop_off() turns interrupts on when the last push_off() is undone.
PopOff(c) == intena[c] /\ noff[c] = 1

\* release() without pop_off().
NoffKept(c) == noff[c]

\* release() with a second pop_off().
NoffTwice(c) == noff[c] - 2

\* pop_off() counts down.
NoffDown(c) == noff[c] - 1

\* release(l) with pop_off(), and their panics.
Release(c, l) ==
  /\ locked' = [locked EXCEPT ![l] = None]
  /\ noff' = [noff EXCEPT ![c] = NoffDown(c)]
  /\ intr' = [intr EXCEPT ![c] = PopOff(c)]
  /\ panic' = (panic \/ ~Holding(c, l) \/ intr[c] \/ noff[c] < 1)
  /\ UNCHANGED intena

-----------------------------------------------------------------------------
(* Threads *)

\* A thread in the kernel takes a lock.
Enter(c, x) ==
  /\ x \in Threads /\ pc[x] = "run"
  /\ \E l \in {Tickslock, Inner} :
       Acquire(x, l, "crit") /\ lk' = [lk EXCEPT ![x] = l]
  /\ UNCHANGED <<cpuvars, cur, state, old, saved, frame, todo, panic>>

\* It takes the second lock while it holds the first.
EnterInner(c, x) ==
  /\ pc[x] = "crit" /\ lk[x] = Tickslock
  /\ Acquire(x, Inner, "inner")
  /\ UNCHANGED <<cpuvars, cur, state, old, lk, saved, frame, todo, panic>>

LeaveInner(c, x) ==
  /\ pc[x] = "inner" /\ Release(c, Inner) /\ Go(x, "crit")
  /\ UNCHANGED <<cur, state, calls, lk, saved, frame, todo>>

Leave(c, x) ==
  /\ pc[x] = "crit" /\ Release(c, lk[x]) /\ Go(x, "run")
  /\ lk' = [lk EXCEPT ![x] = None]
  /\ UNCHANGED <<cur, state, calls, saved, frame, todo>>

\* sleep(&ticks, &tickslock): acquire(&p->lock) ...
Sleep(c, x) ==
  /\ pc[x] = "crit" /\ lk[x] = Tickslock
  /\ Acquire(x, x, "sleep")
  /\ UNCHANGED <<cpuvars, cur, state, old, lk, saved, frame, todo, panic>>

\* ... and release(lk); p->state = SLEEPING; sched() follows.
SleepRelease(c, x) ==
  /\ pc[x] = "sleep" /\ Release(c, lk[x])
  /\ state' = [state EXCEPT ![x] = "SLEEPING"]
  /\ Go(x, "sched")
  /\ UNCHANGED <<cur, calls, lk, saved, frame, todo>>

\* sched(): its tests, and the switch to the scheduler of the CPU.
Sched(c, x) ==
  /\ pc[x] = "sched"
  /\ panic' = (panic \/ ~Holding(c, x) \/ noff[c] # 1 \/ state[x] = "RUNNING" \/ intr[c])
  /\ saved' = [saved EXCEPT ![x] = intena[c]]
  /\ cur' = [cur EXCEPT ![c] = c]
  /\ Go(x, "swtch")
  /\ UNCHANGED <<cpuvars, state, calls, lk, frame, todo>>

\* sched() that leaves intena as it finds it.
IntenaOfCpu(c, x) == intena[c]

\* mycpu()->intena = intena, on whatever CPU the thread is now.
IntenaOfThread(c, x) == saved[x]

SchedReturn(c, x) ==
  /\ pc[x] = "swtch"
  /\ intena' = [intena EXCEPT ![c] = IntenaOfThread(c, x)]
  /\ Go(x, "resumed")
  /\ UNCHANGED <<locked, intr, noff, cur, state, calls, lk, saved, frame, todo, panic>>

\* release(&p->lock) after sched(): yield() returns to kerneltrap(); sleep()
\* takes its lock again, which ResumeSleep does.
Resumed(c, x) ==
  /\ pc[x] = "resumed" /\ Release(c, x)
  /\ Go(x, IF frame[x] # None THEN "sret" ELSE "again")
  /\ UNCHANGED <<cur, state, calls, lk, saved, frame, todo>>

ResumeSleep(c, x) ==
  /\ pc[x] = "again"
  /\ Acquire(x, Tickslock, "crit")
  /\ UNCHANGED <<cpuvars, cur, state, old, lk, saved, frame, todo, panic>>

\* forkret(): the first time a thread runs.  Interrupts may be on or off then,
\* as the scheduler last had them.
Forkret(c, x) ==
  /\ pc[x] = "forkret" /\ Release(c, x) /\ Go(x, "return")
  /\ UNCHANGED <<cur, state, calls, lk, saved, frame, todo>>

\* usertrapret(), at the end of forkret() or of a system call: in user mode
\* interrupts are on.
Usertrapret(c, x) ==
  /\ pc[x] \in {"run", "return"}
  /\ intr' = [intr EXCEPT ![c] = TRUE]
  /\ Go(x, "user")
  /\ UNCHANGED <<locked, noff, intena, cur, state, calls, lk, saved, frame, todo, panic>>

\* usertrap(): a system call turns interrupts on again.
Usertrap(c, x) ==
  /\ pc[x] = "user"
  /\ intr' = [intr EXCEPT ![c] = TRUE]
  /\ Go(x, "run")
  /\ UNCHANGED <<locked, noff, intena, cur, state, calls, lk, saved, frame, todo, panic>>

-----------------------------------------------------------------------------
(* scheduler() of CPU c *)

\* acquire(&p->lock) of some process; intr_on() comes before the first of
\* them only.
Scan(c, x) ==
  /\ x = c /\ pc[c] = "scan"
  /\ \E first \in BOOLEAN : intr' = [intr EXCEPT ![c] = first \/ @]
  /\ \E t \in Threads : Acquire(c, t, "found") /\ lk' = [lk EXCEPT ![c] = t]
  /\ UNCHANGED <<locked, noff, intena, cur, state, old, saved, frame, todo, panic>>

\* A RUNNABLE process is switched to; another one is passed by.
Found(c, x) ==
  /\ x = c /\ pc[c] = "found"
  /\ IF state[lk[c]] = "RUNNABLE"
     THEN /\ state' = [state EXCEPT ![lk[c]] = "RUNNING"]
          /\ cur' = [cur EXCEPT ![c] = lk[c]]
          /\ Go(c, "back")
          /\ UNCHANGED <<cpuvars, lk, panic>>
     ELSE /\ Release(c, lk[c]) /\ Go(c, "scan")
          /\ lk' = [lk EXCEPT ![c] = None]
          /\ UNCHANGED <<cur, state>>
  /\ UNCHANGED <<calls, saved, frame, todo>>

\* The process has switched back: release(&p->lock).
Back(c, x) ==
  /\ x = c /\ pc[c] = "back"
  /\ Release(c, lk[c]) /\ Go(c, "scan")
  /\ lk' = [lk EXCEPT ![c] = None]
  /\ UNCHANGED <<cur, state, calls, saved, frame, todo>>

-----------------------------------------------------------------------------
(* The timer interrupt *)

\* The interrupt goes to kerneltrap(), or from user mode to usertrap(), which
\* does the same; interrupts are off from here on.
Timer(c, x) ==
  /\ intr[c]
  /\ intr' = [intr EXCEPT ![c] = FALSE]
  /\ frame' = [frame EXCEPT ![x] = <<pc[x], want[x], ret[x], old[x]>>]
  /\ Go(x, IF c = Cpu0 THEN "clock" ELSE "ticked")
  /\ UNCHANGED <<locked, noff, intena, cur, state, calls, lk, saved, todo, panic>>

\* clockintr() on CPU 0: acquire(&tickslock).
Clock(c, x) ==
  /\ pc[x] = "clock"
  /\ Acquire(x, Tickslock, "tick")
  /\ todo' = [todo EXCEPT ![x] = Threads \ {x}]
  /\ UNCHANGED <<cpuvars, cur, state, old, lk, saved, frame, panic>>

\* wakeup(&ticks): acquire(&p->lock) of the next process, or, after the last
\* one, release(&tickslock).
Wakeup(c, x) ==
  /\ pc[x] = "tick"
  /\ IF todo[x] = {}
     THEN Release(c, Tickslock) /\ Go(x, "ticked") /\ UNCHANGED <<want, ret>>
     ELSE /\ Acquire(x, CHOOSE t \in todo[x] : TRUE, "wake")
          /\ UNCHANGED <<cpuvars, panic>>
  /\ UNCHANGED <<cur, state, old, lk, saved, frame, todo>>

WakeupOne(c, x) ==
  LET t == CHOOSE t \in todo[x] : TRUE IN
  /\ pc[x] = "wake" /\ Release(c, t)
  /\ state' = IF state[t] = "SLEEPING" THEN [state EXCEPT ![t] = "RUNNABLE"] ELSE state
  /\ todo' = [todo EXCEPT ![x] = @ \ {t}]
  /\ Go(x, "tick")
  /\ UNCHANGED <<cur, calls, lk, saved, frame>>

\* kerneltrap(): yield() if there is a process, else back to the scheduler.
Yield(c, x) ==
  /\ pc[x] = "ticked"
  /\ IF x \in Threads THEN Acquire(x, x, "yield") ELSE Go(x, "sret") /\ UNCHANGED <<want, ret>>
  /\ UNCHANGED <<cpuvars, cur, state, old, lk, saved, frame, todo, panic>>

YieldState(c, x) ==
  /\ pc[x] = "yield"
  /\ state' = [state EXCEPT ![x] = "RUNNABLE"]
  /\ Go(x, "sched")
  /\ UNCHANGED <<cpuvars, cur, calls, lk, saved, frame, todo, panic>>

\* sret, with the saved sstatus: back to where the context was, perhaps on
\* another CPU, with interrupts on.
Sret(c, x) ==
  /\ pc[x] = "sret"
  /\ intr' = [intr EXCEPT ![c] = TRUE]
  /\ pc' = [pc EXCEPT ![x] = frame[x][1]]
  /\ want' = [want EXCEPT ![x] = frame[x][2]] /\ ret' = [ret EXCEPT ![x] = frame[x][3]]
  /\ old' = [old EXCEPT ![x] = frame[x][4]]
  /\ frame' = [frame EXCEPT ![x] = None]
  /\ UNCHANGED <<locked, noff, intena, cur, state, lk, saved, todo, panic>>

-----------------------------------------------------------------------------
Run(c, x) ==
  \/ PushOffGet(c, x) \/ PushOff(c, x) \/ TestAndSet(c, x)
  \/ Enter(c, x) \/ EnterInner(c, x) \/ LeaveInner(c, x) \/ Leave(c, x)
  \/ Sleep(c, x) \/ SleepRelease(c, x) \/ Sched(c, x) \/ SchedReturn(c, x)
  \/ Resumed(c, x) \/ ResumeSleep(c, x) \/ Forkret(c, x)
  \/ Usertrapret(c, x) \/ Usertrap(c, x)
  \/ Scan(c, x) \/ Found(c, x) \/ Back(c, x)
  \/ Clock(c, x) \/ Wakeup(c, x) \/ WakeupOne(c, x)
  \/ Yield(c, x) \/ YieldState(c, x) \/ Sret(c, x)

Next == ~panic /\ \E c \in Cpus : Run(c, cur[c]) \/ Timer(c, cur[c])

Spec == Init /\ [][Next]_vars

-----------------------------------------------------------------------------
(* Properties *)

TypeOK ==
  /\ locked \in [Locks -> Cpus \cup {None}]
  /\ intr \in [Cpus -> BOOLEAN] /\ intena \in [Cpus -> BOOLEAN]
  /\ noff \in [Cpus -> 0..Cardinality(Locks)]
  /\ cur \in [Cpus -> Contexts]
  /\ state \in [Threads -> {"RUNNABLE", "RUNNING", "SLEEPING"}]

Held(c) == {l \in Locks : locked[l] = c}

\* A CPU that holds a spin lock, or waits for one, has interrupts off: its
\* own timer interrupt can never wait for a lock the CPU holds.
OffWhileHolding ==
  \A c \in Cpus : Held(c) # {} \/ pc[cur[c]] = "spin" => ~intr[c]

\* noff counts the locks of the CPU, and the one it waits for.  The count
\* stays right when a thread takes a lock on one CPU that the scheduler
\* releases, and when the scheduler takes one that the thread releases.
NoffCounts ==
  \A c \in Cpus : noff[c] = Cardinality(Held(c)) + (IF pc[cur[c]] = "spin" THEN 1 ELSE 0)

\* acquire() and release() keep interrupts off for as long as the CPU has a
\* lock, and know how many it has.
OffAndCounted == TypeOK /\ OffWhileHolding /\ NoffCounts

\* None of "acquire", "release", "pop_off", "sched locks", "sched
\* interruptible" and the like happens.
NoPanic == ~panic

\* After a thread has released its last lock, interrupts are as they were
\* before it took the first: on in ordinary kernel code, off inside the
\* interrupt handler, although it may have slept or yielded in between and
\* come back on another CPU with another history.
InterruptsRestored ==
  \A c \in Cpus :
    /\ pc[cur[c]] \in {"user", "run", "again"} => intr[c]
    /\ frame[cur[c]] # None => ~intr[c]
=============================================================================
