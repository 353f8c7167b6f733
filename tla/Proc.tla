-------------------------------- MODULE Proc --------------------------------
(***************************************************************************)
(* Processes (kernel/proc.c, and the killed() tests of usertrap() in       *)
(* kernel/trap.c): fork, exit, wait, kill, sleep, wakeup, yield and the    *)
(* per-CPU scheduler, for several CPUs.                                    *)
(*                                                                         *)
(* A spin lock is held by a CPU, not by a process: p->lock is taken by one *)
(* side of swtch() and released by the other.  A section under one p->lock *)
(* in which no other lock is waited for is one step; a section that waits  *)
(* for a second lock is as many steps as it takes locks.                   *)
(*                                                                         *)
(* A pid is unique among the processes in use and 0 in a free slot, so     *)
(* kill(pid) is modelled on the slot the pid belongs to.  Closing files    *)
(* and copying memory are left to the components that do it.               *)
(***************************************************************************)
EXTENDS Integers, FiniteSets

CONSTANTS
  NPROC,    \* slots of the process table
  CPUs,     \* processors
  Free      \* the holder of a lock nobody holds

ProcAssumption ==
  /\ NPROC \in Nat /\ NPROC >= 2
  /\ Free \notin CPUs

VARIABLES
  state,    \* p->state
  chan,     \* p->chan: 0, or the channel p sleeps on
  killed,   \* p->killed
  parent,   \* p->parent, 0 for none
  pc,       \* where the process is in the kernel, "user" outside it
  ctx,      \* p->context: "run" while on a CPU, otherwise the function that
            \* called sched(), or "forkret" for a process that never ran
  child,    \* np, the local of fork()
  lk,       \* p->lock: the CPU that holds it, or Free
  wlock,    \* wait_lock
  scan,     \* pp, the loop index of the process that holds wait_lock
  wk,       \* the loop index of its call of wakeup()
  cpu,      \* c->proc, 0 for none
  sch,      \* the scheduler of a CPU: "scan", "run" (switched to c->proc) or
            \* "back" (c->proc has called swtch() to return)
  at        \* p, the loop index of scheduler()

vars == <<state, chan, killed, parent, pc, ctx, child, lk, wlock, scan, wk,
          cpu, sch, at>>

Procs == 1 .. NPROC
initproc == 1

States == {"UNUSED", "USED", "SLEEPING", "RUNNABLE", "RUNNING", "ZOMBIE"}

\* Points of the kernel where wait_lock is held.
WaitLockPcs ==
  {"reparent", "wake_init", "wake_parent", "zombie", "wait_scan", "wait_sleep"}

\* Points where no lock is held and a timer interrupt may preempt.
OpenPcs == {"fork_alloc", "fork_link", "fork_ready", "exit_lock", "wait_lock",
            "kill", "ret", "yield"}

Pcs == WaitLockPcs \cup OpenPcs \cup {"user", "none"}

-----------------------------------------------------------------------------
\* procinit() and userinit(): one process, RUNNABLE, to start at forkret.
Init ==
  /\ state = [p \in Procs |-> IF p = initproc THEN "RUNNABLE" ELSE "UNUSED"]
  /\ chan = [p \in Procs |-> 0]
  /\ killed = [p \in Procs |-> FALSE]
  /\ parent = [p \in Procs |-> 0]
  /\ pc = [p \in Procs |-> IF p = initproc THEN "user" ELSE "none"]
  /\ ctx = [p \in Procs |-> IF p = initproc THEN "forkret" ELSE "none"]
  /\ child = [p \in Procs |-> 0]
  /\ lk = [p \in Procs |-> Free]
  /\ wlock = Free
  /\ scan = 1
  /\ wk = 1
  /\ cpu = [c \in CPUs |-> 0]
  /\ sch = [c \in CPUs |-> "scan"]
  /\ at = [c \in CPUs |-> 1]

\* The process c->proc executes on c and has reached point l.
At(c, l) == sch[c] = "run" /\ ctx[cpu[c]] = "run" /\ pc[cpu[c]] = l

Goto(p, l) == pc' = [pc EXCEPT ![p] = l]

\* A scan that runs past the end of the table.
AfterPastEnd(p) == IF p > NPROC THEN 1 ELSE p + 1

\* The next slot of the process table; every scan starts over after the last.
After(p) == IF p = NPROC THEN 1 ELSE p + 1

-----------------------------------------------------------------------------
(* scheduler() *)

\* acquire(&p->lock); a RUNNABLE process is switched to with its lock held,
\* any other is left alone.
Dispatch(c) ==
  LET p == at[c] IN
  /\ sch[c] = "scan"
  /\ lk[p] = Free
  /\ IF state[p] = "RUNNABLE"
     THEN /\ state' = [state EXCEPT ![p] = "RUNNING"]
          /\ lk' = [lk EXCEPT ![p] = c]
          /\ cpu' = [cpu EXCEPT ![c] = p]
          /\ sch' = [sch EXCEPT ![c] = "run"]
          /\ UNCHANGED at
     ELSE /\ at' = [at EXCEPT ![c] = After(p)]
          /\ UNCHANGED <<state, lk, cpu, sch>>
  /\ UNCHANGED <<chan, killed, parent, pc, ctx, child, wlock, scan, wk>>

\* The scan starts over after every process that ran.
SwitchBackToFirst(c) ==
  LET p == cpu[c] IN
  /\ sch[c] = "back"
  /\ cpu' = [cpu EXCEPT ![c] = 0]
  /\ lk' = [lk EXCEPT ![p] = Free]
  /\ sch' = [sch EXCEPT ![c] = "scan"]
  /\ at' = [at EXCEPT ![c] = 1]
  /\ UNCHANGED <<state, chan, killed, parent, pc, ctx, child, wlock, scan, wk>>

\* Back from swtch(): c->proc = 0; release(&p->lock).
SwitchBack(c) ==
  LET p == cpu[c] IN
  /\ sch[c] = "back"
  /\ cpu' = [cpu EXCEPT ![c] = 0]
  /\ lk' = [lk EXCEPT ![p] = Free]
  /\ sch' = [sch EXCEPT ![c] = "scan"]
  /\ at' = [at EXCEPT ![c] = After(p)]
  /\ UNCHANGED <<state, chan, killed, parent, pc, ctx, child, wlock, scan, wk>>

\* sched() without p->lock held.
SchedUnlocked(c, p, s, f) ==
  /\ lk[p] = Free
  /\ state' = [state EXCEPT ![p] = s]
  /\ ctx' = [ctx EXCEPT ![p] = f]
  /\ sch' = [sch EXCEPT ![c] = "back"]
  /\ lk' = lk

\* acquire(&p->lock); p->state = s; sched(), called from f.
Sched(c, p, s, f) ==
  /\ lk[p] = Free
  /\ lk' = [lk EXCEPT ![p] = c]
  /\ state' = [state EXCEPT ![p] = s]
  /\ ctx' = [ctx EXCEPT ![p] = f]
  /\ sch' = [sch EXCEPT ![c] = "back"]

\* The process side of swtch(): forkret(), the end of yield() or of sleep(),
\* releases the lock the scheduler took.
Resume(c) ==
  LET p == cpu[c] IN
  /\ sch[c] = "run"
  /\ ctx[p] # "run"
  /\ lk' = [lk EXCEPT ![p] = Free]
  /\ chan' = [chan EXCEPT ![p] = IF ctx[p] = "sleep" THEN 0 ELSE @]
  /\ ctx' = [ctx EXCEPT ![p] = "run"]
  /\ UNCHANGED <<state, killed, parent, pc, child, wlock, scan, wk, cpu, sch, at>>

\* yield() from usertrap() or, at any point without a lock, from kerneltrap().
Yield(c) ==
  LET p == cpu[c] IN
  /\ \E l \in OpenPcs : At(c, l)
  /\ Sched(c, p, "RUNNABLE", "yield")
  /\ Goto(p, IF pc[p] = "yield" THEN "user" ELSE pc[p])
  /\ UNCHANGED <<chan, killed, parent, child, wlock, scan, wk, cpu, at>>

-----------------------------------------------------------------------------
(* usertrap() *)

\* The system calls a process may make, and the timer interrupt.  initproc
\* runs user/init.c, which forks and waits for ever.
Traps(p) == IF p = initproc THEN {"fork_alloc", "wait_lock", "yield"}
            ELSE {"fork_alloc", "wait_lock", "yield", "kill", "exit_lock"}

\* Entry from user space: a killed process exits instead.
UserTrap(c) ==
  LET p == cpu[c] IN
  /\ At(c, "user")
  /\ lk[p] = Free
  /\ IF killed[p] THEN Goto(p, "exit_lock")
                  ELSE \E l \in Traps(p) : Goto(p, l)
  /\ UNCHANGED <<state, chan, killed, parent, ctx, child, lk, wlock, scan, wk,
                 cpu, sch, at>>

\* After a system call: if(killed(p)) exit(-1), otherwise usertrapret().
UserRet(c) ==
  LET p == cpu[c] IN
  /\ At(c, "ret")
  /\ lk[p] = Free
  /\ Goto(p, IF killed[p] THEN "exit_lock" ELSE "user")
  /\ UNCHANGED <<state, chan, killed, parent, ctx, child, lk, wlock, scan, wk,
                 cpu, sch, at>>

-----------------------------------------------------------------------------
(* fork() *)

\* allocproc() and the copying, under np->lock: it ends with a USED slot or
\* fails for want of a slot or of memory, which frees the slot again.
ForkAlloc(c) ==
  LET p == cpu[c] IN
  /\ At(c, "fork_alloc")
  /\ \/ \E np \in Procs :
          /\ state[np] = "UNUSED"
          /\ lk[np] = Free
          /\ state' = [state EXCEPT ![np] = "USED"]
          /\ ctx' = [ctx EXCEPT ![np] = "forkret"]
          /\ pc' = [pc EXCEPT ![p] = "fork_link", ![np] = "user"]
          /\ child' = [child EXCEPT ![p] = np]
     \/ /\ Goto(p, "ret")
        /\ UNCHANGED <<state, ctx, child>>
  /\ UNCHANGED <<chan, killed, parent, lk, wlock, scan, wk, cpu, sch, at>>

\* acquire(&wait_lock); np->parent = p; release(&wait_lock).
ForkLink(c) ==
  LET p == cpu[c] IN
  /\ At(c, "fork_link")
  /\ wlock = Free
  /\ parent' = [parent EXCEPT ![child[p]] = p]
  /\ Goto(p, "fork_ready")
  /\ UNCHANGED <<state, chan, killed, ctx, child, lk, wlock, scan, wk, cpu,
                 sch, at>>

\* acquire(&np->lock); np->state = RUNNABLE; release(&np->lock).
ForkReady(c) ==
  LET p == cpu[c] IN
  /\ At(c, "fork_ready")
  /\ lk[child[p]] = Free
  /\ state' = [state EXCEPT ![child[p]] = "RUNNABLE"]
  /\ child' = [child EXCEPT ![p] = 0]
  /\ Goto(p, "ret")
  /\ UNCHANGED <<chan, killed, parent, ctx, lk, wlock, scan, wk, cpu, sch, at>>

-----------------------------------------------------------------------------
(* kill() *)

\* p->killed = 1, and a sleeping victim becomes RUNNABLE.
MarkKilled(q) ==
  /\ killed' = [killed EXCEPT ![q] = TRUE]
  /\ state' = [state EXCEPT ![q] = IF @ = "SLEEPING" THEN "RUNNABLE" ELSE @]

\* A pid is that of a process, or 0, which the scan finds in the first free
\* slot, or nobody's.  initproc is not killed: it would exit and panic.
Kill(c) ==
  LET p == cpu[c] IN
  /\ At(c, "kill")
  /\ \/ \E q \in Procs \ {initproc} :
          /\ lk[q] = Free
          /\ state[q] = "UNUSED" => \A r \in 1 .. q - 1 : state[r] # "UNUSED"
          /\ MarkKilled(q)
     \/ UNCHANGED <<killed, state>>
  /\ Goto(p, "ret")
  /\ UNCHANGED <<chan, parent, ctx, child, lk, wlock, scan, wk, cpu, sch, at>>

-----------------------------------------------------------------------------
(* exit() *)

\* The children of p that a scan under wait_lock has still to visit.
ChildrenFrom(p, i) == {q \in i .. NPROC : parent[q] = p}

First(S) == CHOOSE q \in S : \A r \in S : q <= r

\* exit() that forgets reparent().
ExitAlone(c) ==
  LET p == cpu[c] IN
  /\ At(c, "exit_lock")
  /\ wlock = Free
  /\ wlock' = c
  /\ Goto(p, "wake_parent")
  /\ UNCHANGED <<state, chan, killed, parent, ctx, child, lk, scan, wk, cpu, sch, at>>

\* The files are closed; acquire(&wait_lock).
ExitLock(c) ==
  LET p == cpu[c] IN
  /\ At(c, "exit_lock")
  /\ wlock = Free
  /\ wlock' = c
  /\ Goto(p, "reparent")
  /\ UNCHANGED <<state, chan, killed, parent, ctx, child, lk, scan, wk, cpu, sch, at>>

\* reparent() without its wakeup(initproc).
ReparentQuietly(c) ==
  LET p == cpu[c] IN
  /\ At(c, "reparent")
  /\ parent' = [q \in Procs |-> IF parent[q] = p THEN initproc ELSE parent[q]]
  /\ Goto(p, "wake_parent")
  /\ scan' = 1
  /\ UNCHANGED <<state, chan, killed, ctx, child, lk, wlock, wk, cpu, sch, at>>

\* exit() that wakes nobody after reparent().
ReparentThenDie(c) ==
  LET p == cpu[c] IN
  /\ At(c, "reparent")
  /\ parent' = [q \in Procs |-> IF parent[q] = p THEN initproc ELSE parent[q]]
  /\ Goto(p, "zombie")
  /\ UNCHANGED <<state, chan, killed, ctx, child, lk, wlock, scan, wk, cpu, sch, at>>

\* One round of the loop of reparent(): the next child goes to initproc,
\* which is then woken; after the last one, wakeup(p->parent).
Reparent(c) ==
  LET p == cpu[c]
      todo == ChildrenFrom(p, scan) IN
  /\ At(c, "reparent")
  /\ IF todo = {}
     THEN /\ Goto(p, "wake_parent")
          /\ scan' = 1
          /\ UNCHANGED parent
     ELSE /\ parent' = [parent EXCEPT ![First(todo)] = initproc]
          /\ scan' = First(todo) + 1
          /\ Goto(p, "wake_init")
  /\ UNCHANGED <<state, chan, killed, ctx, child, lk, wlock, wk, cpu, sch, at>>

\* One round of the loop of wakeup(chan) for initproc or for p->parent.
Wakeup(c) ==
  LET p == cpu[c]
      channel == IF pc[p] = "wake_init" THEN initproc ELSE parent[p] IN
  /\ At(c, "wake_init") \/ At(c, "wake_parent")
  /\ IF wk = p THEN UNCHANGED state
     ELSE /\ lk[wk] = Free
          /\ state' = [state EXCEPT ![wk] =
               IF @ = "SLEEPING" /\ chan[wk] = channel THEN "RUNNABLE" ELSE @]
  /\ wk' = After(wk)
  /\ Goto(p, IF wk < NPROC THEN pc[p]
             ELSE IF pc[p] = "wake_init" THEN "reparent" ELSE "zombie")
  /\ UNCHANGED <<chan, killed, parent, ctx, child, lk, wlock, scan, cpu, sch, at>>

\* sched() with wait_lock still held.
ZombieKeepsLock(c) ==
  LET p == cpu[c] IN
  /\ At(c, "zombie")
  /\ Sched(c, p, "ZOMBIE", "exit")
  /\ UNCHANGED <<chan, killed, parent, pc, child, wlock, scan, wk, cpu, at>>

\* acquire(&p->lock); p->state = ZOMBIE; release(&wait_lock); sched().
Zombie(c) ==
  LET p == cpu[c] IN
  /\ At(c, "zombie")
  /\ Sched(c, p, "ZOMBIE", "exit")
  /\ wlock' = Free
  /\ Goto(p, "none")
  /\ UNCHANGED <<chan, killed, parent, child, scan, wk, cpu, at>>

-----------------------------------------------------------------------------
(* wait() *)

\* acquire(&wait_lock), at the start or at the end of sleep().
WaitLock(c) ==
  LET p == cpu[c] IN
  /\ At(c, "wait_lock")
  /\ wlock = Free
  /\ wlock' = c
  /\ Goto(p, "wait_scan")
  /\ UNCHANGED <<state, chan, killed, parent, ctx, child, lk, scan, wk, cpu, sch, at>>

\* freeproc(q).
FreeProc(q) ==
  /\ state' = [state EXCEPT ![q] = "UNUSED"]
  /\ chan' = [chan EXCEPT ![q] = 0]
  /\ killed' = [killed EXCEPT ![q] = FALSE]
  /\ parent' = [parent EXCEPT ![q] = 0]
  /\ ctx' = [ctx EXCEPT ![q] = "none"]

\* wait() that does not wait for the lock of a dying child.
WaitVisitUnlocked(c) ==
  LET p == cpu[c]
      q == First(ChildrenFrom(p, scan)) IN
  /\ At(c, "wait_scan")
  /\ ChildrenFrom(p, scan) # {}
  /\ IF state[q] = "ZOMBIE"
     THEN FreeProc(q) /\ wlock' = Free /\ scan' = 1 /\ Goto(p, "ret")
     ELSE /\ scan' = q + 1
          /\ UNCHANGED <<state, chan, killed, parent, pc, ctx, wlock>>
  /\ UNCHANGED <<child, lk, wk, cpu, sch, at>>

\* The next child: a zombie ends the call, after its slot is freed or, when
\* copyout() fails, without that (initproc passes no address to copy to).
WaitVisit(c) ==
  LET p == cpu[c]
      q == First(ChildrenFrom(p, scan)) IN
  /\ At(c, "wait_scan")
  /\ ChildrenFrom(p, scan) # {}
  /\ lk[q] = Free
  /\ IF state[q] = "ZOMBIE"
     THEN /\ \/ FreeProc(q)
             \/ /\ p # initproc
                /\ UNCHANGED <<state, chan, killed, parent, ctx>>
          /\ wlock' = Free
          /\ scan' = 1
          /\ Goto(p, "ret")
     ELSE /\ scan' = q + 1
          /\ UNCHANGED <<state, chan, killed, parent, pc, ctx, wlock>>
  /\ UNCHANGED <<child, lk, wk, cpu, sch, at>>

\* No zombie: -1 without children or when killed, otherwise go to sleep.
WaitDecide(c) ==
  LET p == cpu[c] IN
  /\ At(c, "wait_scan")
  /\ ChildrenFrom(p, scan) = {}
  /\ lk[p] = Free
  /\ scan' = 1
  /\ IF ChildrenFrom(p, 1) = {} \/ killed[p]
     THEN wlock' = Free /\ Goto(p, "ret")
     ELSE UNCHANGED wlock /\ Goto(p, "wait_sleep")
  /\ UNCHANGED <<state, chan, killed, parent, ctx, child, lk, wk, cpu, sch, at>>

\* sleep(p, &wait_lock) up to sched().
Sleep(c) ==
  LET p == cpu[c] IN
  /\ At(c, "wait_sleep")
  /\ Sched(c, p, "SLEEPING", "sleep")
  /\ wlock' = Free
  /\ chan' = [chan EXCEPT ![p] = p]
  /\ Goto(p, "wait_lock")
  /\ UNCHANGED <<killed, parent, child, scan, wk, cpu, at>>

-----------------------------------------------------------------------------
Step(c) ==
  \/ Dispatch(c) \/ SwitchBack(c) \/ Resume(c) \/ Yield(c)
  \/ UserTrap(c) \/ UserRet(c)
  \/ ForkAlloc(c) \/ ForkLink(c) \/ ForkReady(c) \/ Kill(c)
  \/ ExitLock(c) \/ Reparent(c) \/ Wakeup(c) \/ Zombie(c)
  \/ WaitLock(c) \/ WaitVisit(c) \/ WaitDecide(c) \/ Sleep(c)

Next == \E c \in CPUs : Step(c)

Spec == Init /\ [][Next]_vars

\* A step of process p itself, other than giving up its CPU.
Advance(p) ==
  \E c \in CPUs : cpu[c] = p /\ (UserTrap(c) \/ UserRet(c) \/ ForkAlloc(c)
    \/ ForkLink(c) \/ ForkReady(c) \/ Kill(c) \/ ExitLock(c) \/ Reparent(c)
    \/ Wakeup(c) \/ Zombie(c) \/ WaitLock(c) \/ WaitVisit(c) \/ WaitDecide(c)
    \/ Sleep(c))

\* initproc, in user space, calls wait().
InitWaits == \E c \in CPUs : UserTrap(c) /\ cpu[c] = initproc
                                      /\ pc'[initproc] = "wait_lock"

\* CPUs keep executing.  A thread runs for a whole timer interval, many steps
\* long, when it has a CPU, and gets a lock that is free again and again; the
\* timer interrupts every process again and again; user/init.c calls wait()
\* again and again.  Nothing is assumed of the other processes.
Fairness ==
  /\ \A c \in CPUs : /\ SF_vars(Dispatch(c))
                     /\ WF_vars(SwitchBack(c))
                     /\ WF_vars(Resume(c))
                     /\ SF_vars(Yield(c))
  /\ \A p \in Procs : SF_vars(Advance(p))
  /\ SF_vars(InitWaits)

FairSpec == Spec /\ Fairness

-----------------------------------------------------------------------------
(* Properties *)

\* Every variable of proc.c keeps its type; the loop indices stay in the
\* process table.
TypeOK ==
  /\ state \in [Procs -> States]
  /\ chan \in [Procs -> 0 .. NPROC]
  /\ killed \in [Procs -> BOOLEAN]
  /\ parent \in [Procs -> 0 .. NPROC]
  /\ pc \in [Procs -> Pcs]
  /\ ctx \in [Procs -> {"none", "forkret", "run", "yield", "sleep", "exit"}]
  /\ child \in [Procs -> 0 .. NPROC]
  /\ lk \in [Procs -> CPUs \cup {Free}]
  /\ wlock \in CPUs \cup {Free}
  /\ scan \in 1 .. NPROC + 1
  /\ wk \in Procs
  /\ cpu \in [CPUs -> 0 .. NPROC]
  /\ sch \in [CPUs -> {"scan", "run", "back"}]
  /\ at \in [CPUs -> Procs]

\* No process runs on two CPUs, and outside a section under p->lock the
\* state is RUNNING exactly while a CPU executes the process: scheduler()
\* never switches to a stack that is still in use.
OneCpu ==
  /\ \A c, d \in CPUs : c # d /\ cpu[c] = cpu[d] => cpu[c] = 0
  /\ \A p \in Procs : lk[p] = Free =>
       (state[p] = "RUNNING" <=> \E c \in CPUs : cpu[c] = p)

\* The tests of sched(): the CPU that switches holds p->lock and no other
\* lock, and p has left RUNNING.
SchedTests ==
  \A c \in CPUs : sch[c] = "back" =>
    /\ lk[cpu[c]] = c
    /\ \A q \in Procs : lk[q] = c => q = cpu[c]
    /\ wlock # c
    /\ state[cpu[c]] # "RUNNING"

\* sleep() and wakeup() lose no exit: with wait_lock free, a process asleep
\* in wait() has no zombie child, own or inherited through reparent().
NoLostExit ==
  wlock = Free =>
    \A p, q \in Procs :
      state[p] = "SLEEPING" /\ chan[p] = p /\ parent[q] = p => state[q] # "ZOMBIE"

\* With wait_lock free every child has a parent that can still wait for it.
ParentsLive ==
  wlock = Free =>
    \A q \in Procs : parent[q] # 0 =>
      state[q] # "UNUSED" /\ state[parent[q]] \notin {"UNUSED", "USED", "ZOMBIE"}

\* A zombie's stack is never used again: the slot is freed only after the
\* last CPU has switched away from it, as wait() takes p->lock for.
FreedIsOff ==
  \A p \in Procs : state[p] = "UNUSED" =>
    lk[p] = Free /\ \A c \in CPUs : cpu[c] # p

Orphan(q) == state[q] = "ZOMBIE" /\ parent[q] = initproc

\* The zombie q is gone, or one that wait() comes to before it is there.
ReapedBefore(q) == state[q] = "UNUSED" \/ \E r \in 1 .. q - 1 : Orphan(r)

\* An orphan that exits is reaped: reparent() hands it to initproc, which is
\* woken for it wherever it is in its own call of wait().  wait() scans from
\* the first slot each time, so only zombies in lower slots can come before.
OrphansReaped == \A q \in Procs : Orphan(q) ~> ReapedBefore(q)

\* scheduler() passes over no RUNNABLE process for ever.
RunnableRuns ==
  \A p \in Procs : state[p] = "RUNNABLE" ~> state[p] = "RUNNING"
=============================================================================
