-------------------------- MODULE InterruptsSteps ---------------------------
(***************************************************************************)
(* The inductive invariant of Interrupts, for any number of CPUs and       *)
(* kernel threads: the locks of a CPU, its noff and its interrupts are     *)
(* those that the code the CPU runs asks for, across every interrupt,      *)
(* sleep and context switch.  And the steps that keep it: those inside a   *)
(* critical section, a sleep, a trap or a return.  InterruptsProofs has    *)
(* the other ones (acquire(), the context switches, the timer interrupt)   *)
(* and the theorems.                                                       *)
(***************************************************************************)
EXTENDS Interrupts, TLAPS

-----------------------------------------------------------------------------
(* The inductive invariant *)

Types ==
  /\ locked \in [Locks -> Cpus \cup {None}]
  /\ intr \in [Cpus -> BOOLEAN] /\ intena \in [Cpus -> BOOLEAN]
  /\ noff \in [Cpus -> Nat]
  /\ cur \in [Cpus -> Contexts]
  /\ state \in [Threads -> {"RUNNABLE", "RUNNING", "SLEEPING"}]
  /\ pc \in [Contexts -> Labels] /\ ret \in [Contexts -> Labels]
  /\ want \in [Contexts -> Locks \cup {None}] /\ lk \in [Contexts -> Locks \cup {None}]
  /\ old \in [Contexts -> BOOLEAN] /\ saved \in [Threads -> BOOLEAN]
  /\ frame \in [Contexts -> Frames \cup {None}]
  /\ todo \in [Contexts -> SUBSET Threads]
  /\ panic \in BOOLEAN

Acquiring(x) == pc[x] \in {"push", "off", "spin"}

NextTodo(x) == CHOOSE t \in todo[x] : TRUE

\* The locks that the code a context runs holds at this point, and how many.
Needs(x) ==
  CASE Acquiring(x) /\ ret[x] \in {"inner", "sleep", "wake"} -> {Tickslock}
    [] pc[x] \in {"crit", "found", "back"} -> {lk[x]}
    [] pc[x] = "inner" -> {Tickslock, Inner}
    [] pc[x] = "sleep" -> {Tickslock, x}
    [] pc[x] \in {"yield", "sched", "swtch", "resumed", "forkret"} -> {x}
    [] pc[x] = "tick" -> {Tickslock}
    [] pc[x] = "wake" -> {Tickslock, NextTodo(x)}
    [] OTHER -> {}

Depth(x) ==
  CASE Acquiring(x) -> (IF ret[x] \in {"inner", "sleep", "wake"} THEN 1 ELSE 0)
                       + (IF pc[x] = "spin" THEN 1 ELSE 0)
    [] pc[x] \in {"inner", "sleep", "wake"} -> 2
    [] pc[x] \in {"crit", "found", "back", "yield", "sched", "swtch", "resumed", "forkret", "tick"} -> 1
    [] OTHER -> 0

\* The code of a thread, of a scheduler, and of the interrupt handler that can
\* stand on top of either: where it can be, and what it calls acquire() for.
Places(x) ==
  IF frame[x] # None
  THEN {"clock", "tick", "wake", "ticked", "sret"}
       \cup (IF x \in Threads THEN {"yield", "sched", "swtch", "resumed"} ELSE {})
  ELSE IF x \in Threads
  THEN {"forkret", "return", "user", "run", "crit", "inner", "sleep", "sched", "swtch", "resumed", "again"}
  ELSE {"scan", "found", "back"}

Calls(x) ==
  IF frame[x] # None THEN {"tick", "wake"} \cup (IF x \in Threads THEN {"yield"} ELSE {})
  ELSE IF x \in Threads THEN {"crit", "inner", "sleep"} ELSE {"found"}

\* The lock a call of acquire() is for.
Goal(x) ==
  CASE ret[x] \in {"crit", "found"} -> lk[x]
    [] ret[x] = "inner" -> Inner
    [] ret[x] \in {"sleep", "yield"} -> x
    [] ret[x] = "tick" -> Tickslock
    [] ret[x] = "wake" -> NextTodo(x)

\* Where the context is, or is going once it has the lock.
Place(x) == IF Acquiring(x) THEN ret[x] ELSE pc[x]

\* A context that was interrupted had interrupts on, so it held no lock: it
\* goes on outside every critical section, perhaps inside push_off().
FrameOK(x) ==
  frame[x] # None =>
    /\ \/ x \in Threads /\ frame[x][1] \in {"run", "return", "user"}
       \/ x \in Threads /\ frame[x][1] = "again" /\ lk[x] = Tickslock
       \/ x \in Cpus /\ frame[x][1] = "scan"
       \/ /\ frame[x][1] \in {"push", "off"} /\ frame[x][2] = lk[x]
          /\ \/ x \in Threads /\ frame[x][3] = "crit" /\ lk[x] \in {Tickslock, Inner}
             \/ x \in Cpus /\ frame[x][3] = "found" /\ lk[x] \in Threads
    /\ x \in Threads /\ frame[x][1] = "off" => frame[x][4]

ContextOK(x) ==
  /\ IF Acquiring(x) THEN ret[x] \in Calls(x) /\ want[x] = Goal(x) ELSE pc[x] \in Places(x)
  /\ Place(x) = "crit" => lk[x] \in {Tickslock, Inner}
  /\ Place(x) \in {"inner", "sleep"} => lk[x] = Tickslock
  /\ Place(x) \in {"found", "back"} => lk[x] \in Threads
  /\ Place(x) = "wake" => todo[x] # {}
  /\ frame[x] = None /\ pc[x] \in {"sched", "swtch", "resumed", "again"} => lk[x] = Tickslock
  /\ pc[x] = "swtch" => (saved[x] <=> frame[x] = None)
  /\ FrameOK(x)

\* The CPU has the locks that the code it runs asks for, with interrupts off
\* while it has any.  intena is on for a thread, off for the interrupt
\* handler: it is what intr was before the first of these locks.
CpuOK(c) ==
  LET x == cur[c] IN
  /\ x \in Threads => pc[c] = "back" /\ lk[c] = x /\ frame[c] = None
  /\ x \in Cpus => x = c
  /\ \A l \in Locks : locked[l] = c <=> l \in Needs(x)
  /\ noff[c] = Depth(x)
  /\ noff[c] > 0 => ~intr[c]
  /\ frame[x] # None =>
       /\ ~intr[c]
       /\ pc[x] = "off" => ~old[x]
       /\ noff[c] > 0 /\ pc[x] # "swtch" => ~intena[c]
  /\ x \in Threads /\ frame[x] = None /\ pc[x] \notin {"forkret", "return"} =>
       /\ noff[c] = 0 => intr[c] /\ (pc[x] = "off" => old[x])
       /\ noff[c] > 0 /\ pc[x] # "swtch" => intena[c]

\* A thread runs on one CPU, and its state is RUNNING from the switch to it
\* until it has its own lock and is about to switch away.
ThreadOK(t) ==
  IF \E c \in Cpus : cur[c] = t
  THEN IF pc[t] = "sched" THEN state[t] # "RUNNING" ELSE state[t] = "RUNNING"
  ELSE state[t] # "RUNNING" /\ pc[t] \in {"forkret", "swtch"}

OneCpuEach == \A c, d \in Cpus : cur[c] = cur[d] => c = d

Inv ==
  /\ Types /\ OneCpuEach /\ ~panic
  /\ \A x \in Contexts : ContextOK(x)
  /\ \A c \in Cpus : CpuOK(c)
  /\ \A t \in Threads : ThreadOK(t)

-----------------------------------------------------------------------------
(* A step of one CPU *)

\* A step of CPU c in context x changes nothing of the other CPUs, of the other
\* contexts, and of the locks of other CPUs.
Local(c, x) ==
  /\ \A y \in Contexts \ {x} :
       /\ pc'[y] = pc[y] /\ want'[y] = want[y] /\ ret'[y] = ret[y] /\ old'[y] = old[y]
       /\ lk'[y] = lk[y] /\ frame'[y] = frame[y] /\ todo'[y] = todo[y]
       /\ y \in Threads => saved'[y] = saved[y]
  /\ \A d \in Cpus \ {c} :
       cur'[d] = cur[d] /\ intr'[d] = intr[d] /\ noff'[d] = noff[d] /\ intena'[d] = intena[d]
  /\ \A l \in Locks : locked'[l] # locked[l] => {locked[l], locked'[l]} \subseteq {c, None}

LEMMA Distinct ==
  /\ Cpu0 \in Cpus /\ Tickslock # Inner /\ Tickslock # None /\ Inner # None
  /\ \A t \in Threads : t # Tickslock /\ t # Inner /\ t # None /\ t \notin Cpus
  /\ \A c \in Cpus : c # Tickslock /\ c # Inner /\ c # None /\ c \notin Threads
BY InterruptsAssumption

LEMMA OtherContexts ==
  ASSUME NEW c, NEW x, Local(c, x), NEW y \in Contexts \ {x}, ContextOK(y)
  PROVE  ContextOK(y)'
<1>1. /\ pc'[y] = pc[y] /\ want'[y] = want[y] /\ ret'[y] = ret[y] /\ old'[y] = old[y]
      /\ lk'[y] = lk[y] /\ frame'[y] = frame[y] /\ todo'[y] = todo[y]
  BY DEF Local
<1>2. pc[y] = "swtch" => (saved'[y] <=> frame'[y] = None)
  <2>1. CASE y \in Threads
    BY <1>1, <2>1 DEF Local, ContextOK
  <2>2. CASE y \notin Threads
    BY <2>2 DEF ContextOK, Places, Acquiring
  <2>. QED
    BY <2>1, <2>2
<1>3. FrameOK(y)'
  BY <1>1, Zenon DEF ContextOK, FrameOK
<1>4. /\ Acquiring(y)' = Acquiring(y) /\ Place(y)' = Place(y) /\ Places(y)' = Places(y)
      /\ Calls(y)' = Calls(y) /\ Goal(y)' = Goal(y)
  BY <1>1, Zenon DEF Acquiring, Place, Places, Calls, Goal, NextTodo
<1>. QED
  BY <1>1, <1>2, <1>3, <1>4, Zenon DEF ContextOK

LEMMA OtherCpus ==
  ASSUME Inv, NEW c \in Cpus, Local(c, cur[c]), NEW d \in Cpus \ {c}
  PROVE  CpuOK(d)'
<1>. DEFINE y == cur[d]
<1>1. y \in Contexts \ {cur[c]} /\ d \in Contexts \ {cur[c]}
  BY Distinct DEF Inv, Types, OneCpuEach, CpuOK, Contexts
<1>2. /\ pc'[y] = pc[y] /\ ret'[y] = ret[y] /\ old'[y] = old[y] /\ lk'[y] = lk[y]
      /\ frame'[y] = frame[y] /\ todo'[y] = todo[y]
      /\ pc'[d] = pc[d] /\ lk'[d] = lk[d] /\ frame'[d] = frame[d]
      /\ cur'[d] = cur[d] /\ intr'[d] = intr[d] /\ noff'[d] = noff[d] /\ intena'[d] = intena[d]
  BY <1>1 DEF Local
<1>3. \A l \in Locks : locked'[l] = d <=> locked[l] = d
  BY Distinct DEF Local
<1>4. Needs(y)' = Needs(y) /\ Depth(y)' = Depth(y)
  BY <1>2, Zenon DEF Needs, Depth, Acquiring, NextTodo
<1>5. CpuOK(d)
  BY DEF Inv
<1>. QED
  BY <1>2, <1>3, <1>4, <1>5, Zenon DEF CpuOK

\* What is left to show of a step that does not switch contexts.
LEMMA StepKeeps ==
  ASSUME Inv, NEW c \in Cpus, NEW x, x = cur[c], Types', Local(c, x), cur' = cur, ~panic',
         ContextOK(x)', CpuOK(c)',
         \A t \in Threads \ {x} :
           state'[t] = state[t] \/ "RUNNING" \notin {state[t], state'[t]},
         x \in Threads => (state'[x] # "RUNNING" <=> pc'[x] = "sched")
  PROVE  Inv'
<1>1. \A y \in Contexts : ContextOK(y)'
  BY OtherContexts DEF Inv
<1>2. \A d \in Cpus : CpuOK(d)'
  BY OtherCpus
<1>3. ASSUME NEW t \in Threads PROVE ThreadOK(t)'
  <2>1. CASE t = x
    BY <2>1 DEF ThreadOK
  <2>2. CASE t # x
    <3>1. pc'[t] = pc[t]
      BY <2>2 DEF Local, Contexts
    <3>2. ThreadOK(t)
      BY DEF Inv
    <3>. QED
      BY <2>2, <3>1, <3>2 DEF ThreadOK
  <2>. QED
    BY <2>1, <2>2
<1>. QED
  BY <1>1, <1>2, <1>3 DEF Inv, OneCpuEach

\* What release(l) does on a CPU that has l.
ReleaseDone(c, l) ==
  /\ ~panic' /\ panic' \in BOOLEAN /\ intena' = intena
  /\ locked' \in [Locks -> Cpus \cup {None}] /\ intr' \in [Cpus -> BOOLEAN] /\ noff' \in [Cpus -> Nat]
  /\ noff'[c] = noff[c] - 1
  /\ intr'[c] <=> (intena[c] /\ noff[c] = 1)
  /\ \A d \in Cpus \ {c} : intr'[d] = intr[d] /\ noff'[d] = noff[d]
  /\ \A m \in Locks : locked'[m] = IF m = l THEN None ELSE locked[m]

LEMMA Released ==
  ASSUME Types, ~panic, NEW c \in Cpus, NEW l \in Locks, Release(c, l),
         locked[l] = c, noff[c] > 0, ~intr[c]
  PROVE  ReleaseDone(c, l)
<1>1. noff[c] \in Nat /\ ~(noff[c] < 1)
  BY DEF Types
<1>2. ~panic' /\ panic' \in BOOLEAN
  BY <1>1, Zenon DEF Release, Holding
<1>3. intr' \in [Cpus -> BOOLEAN] /\ (intr'[c] <=> (intena[c] /\ noff[c] = 1))
  BY Zenon DEF Release, PopOff, Types
<1>4. \A d \in Cpus \ {c} : intr'[d] = intr[d]
  BY Zenon DEF Release, Types
<1>5. noff' = [noff EXCEPT ![c] = noff[c] - 1] /\ locked' = [locked EXCEPT ![l] = None] /\ intena' = intena
  BY Zenon DEF Release, NoffDown
<1>. QED
  BY <1>1, <1>2, <1>3, <1>4, <1>5 DEF Types, ReleaseDone

\* A step that touches neither the locks nor the interrupts of the CPU.
LEMMA CpuKept ==
  ASSUME NEW c \in Cpus, CpuOK(c), NEW x, x = cur[c], Local(c, x), x \in Contexts, c \in Contexts,
         UNCHANGED <<cur, locked, intr, noff, intena>>, frame'[x] = frame[x],
         x = c => x \notin Threads,
         Needs(x)' = Needs(x), Depth(x)' = Depth(x),
         pc'[x] # "off", pc[x] \notin {"swtch", "forkret", "return"}
  PROVE  CpuOK(c)'
<1>1. c # x => pc'[c] = pc[c] /\ lk'[c] = lk[c] /\ frame'[c] = frame[c]
  BY DEF Local
<1>. QED
  BY <1>1 DEF CpuOK

\* A step that releases a lock, the first one or another one.
LEMMA CpuReleased ==
  ASSUME NEW c \in Cpus, CpuOK(c), NEW x, x = cur[c], Local(c, x), x \in Contexts, c \in Contexts,
         NEW l, ReleaseDone(c, l), cur' = cur, frame'[x] = frame[x],
         x = c => x \notin Threads, noff[c] \in Nat, None # c,
         Needs(x)' = Needs(x) \ {l}, Depth(x)' = Depth(x) - 1,
         pc[x] \notin {"swtch", "return"}, pc[x] = "forkret" => pc'[x] = "return" /\ frame[x] = None,
         pc'[x] # "off"
  PROVE  CpuOK(c)'
<1>1. c # x => pc'[c] = pc[c] /\ lk'[c] = lk[c] /\ frame'[c] = frame[c]
  BY DEF Local
<1>2. /\ x \in Threads => pc'[c] = "back" /\ lk'[c] = x /\ frame'[c] = None
      /\ x \in Cpus => x = c
  BY <1>1 DEF CpuOK
<1>3. \A m \in Locks : locked'[m] = c <=> m \in Needs(x)'
  BY DEF CpuOK, ReleaseDone
<1>4. noff'[c] = Depth(x)' /\ noff[c] = noff'[c] + 1 /\ noff'[c] \in Nat
  <2>1. noff[c] = Depth(x)
    BY DEF CpuOK
  <2>2. noff'[c] = noff[c] - 1 /\ noff'[c] \in Nat
    BY DEF ReleaseDone
  <2>. QED
    BY <2>1, <2>2
<1>5. /\ intena' = intena
      /\ noff'[c] > 0 => ~intr'[c]
      /\ noff'[c] = 0 => (intr'[c] <=> intena[c])
  BY <1>4 DEF ReleaseDone
<1>6. /\ frame[x] # None => ~intena[c]
      /\ x \in Threads /\ frame[x] = None /\ pc[x] # "forkret" => intena[c]
  BY <1>4 DEF CpuOK
<1>7. CASE frame[x] # None
  BY <1>2, <1>3, <1>4, <1>5, <1>6, <1>7 DEF CpuOK
<1>8. CASE frame[x] = None
  BY <1>2, <1>3, <1>4, <1>5, <1>6, <1>8 DEF CpuOK
<1>. QED
  BY <1>7, <1>8

LEMMA EnterStep ==
  ASSUME Inv, NEW c \in Cpus, NEW x, x = cur[c], Enter(c, x)
  PROVE  Inv'
<1>0. /\ Types /\ ~panic /\ x \in Contexts /\ c \in Contexts /\ ContextOK(x) /\ CpuOK(c)
      /\ x \in Threads => ThreadOK(x)
      /\ x = c => x \notin Threads
  BY Distinct DEF Inv, Types, Contexts
<1>1. PICK l \in {Tickslock, Inner} :
      /\ pc[x] = "run" /\ pc' = [pc EXCEPT ![x] = "push"] /\ want' = [want EXCEPT ![x] = l]
      /\ ret' = [ret EXCEPT ![x] = "crit"] /\ lk' = [lk EXCEPT ![x] = l]
      /\ UNCHANGED <<cur, state, old, saved, frame, todo, panic, locked, intr, noff, intena>>
  BY DEF Enter, Acquire, Go, cpuvars
<1>2. x \in Threads /\ frame[x] = None
  BY <1>0, <1>1 DEF ContextOK, Acquiring, Place, Places
<1>5. Types'
  BY <1>0, <1>1, <1>2, Distinct DEF Types, Labels, Locks
<1>6. Local(c, x)
  BY <1>0, <1>1, Distinct DEF Local, Types, Contexts
<1>7. pc'[x] = "push" /\ want'[x] = l /\ ret'[x] = "crit" /\ lk'[x] = l
  BY <1>0, <1>1, <1>2 DEF Types
<1>8. ContextOK(x)'
  BY <1>0, <1>1, <1>2, <1>7, Distinct DEF ContextOK, Acquiring, Place, Places, Calls, Goal, FrameOK
<1>9. CpuOK(c)'
  <2>1. Needs(x)' = Needs(x) /\ Depth(x)' = Depth(x)
    BY <1>1, <1>2, <1>7 DEF Needs, Depth, Acquiring
  <2>. QED
    BY <1>0, <1>1, <1>2, <1>6, <1>7, <2>1, CpuKept
<1>. QED
  BY <1>0, <1>1, <1>2, <1>5, <1>6, <1>7, <1>8, <1>9, StepKeeps DEF ThreadOK, Types

LEMMA EnterInnerStep ==
  ASSUME Inv, NEW c \in Cpus, NEW x, x = cur[c], EnterInner(c, x)
  PROVE  Inv'
<1>0. /\ Types /\ ~panic /\ x \in Contexts /\ c \in Contexts /\ ContextOK(x) /\ CpuOK(c)
      /\ x \in Threads => ThreadOK(x)
      /\ x = c => x \notin Threads
  BY Distinct DEF Inv, Types, Contexts
<1>1. /\ pc[x] = "crit" /\ lk[x] = Tickslock /\ pc' = [pc EXCEPT ![x] = "push"]
      /\ want' = [want EXCEPT ![x] = Inner] /\ ret' = [ret EXCEPT ![x] = "inner"]
      /\ UNCHANGED <<cur, state, old, lk, saved, frame, todo, panic, locked, intr, noff, intena>>
  BY DEF EnterInner, Acquire, Go, cpuvars
<1>2. x \in Threads /\ frame[x] = None
  BY <1>0, <1>1 DEF ContextOK, Acquiring, Place, Places
<1>5. Types'
  BY <1>0, <1>1, <1>2, Distinct DEF Types, Labels, Locks
<1>6. Local(c, x)
  BY <1>0, <1>1, Distinct DEF Local, Types, Contexts
<1>7. pc'[x] = "push" /\ want'[x] = Inner /\ ret'[x] = "inner"
  BY <1>0, <1>1, <1>2 DEF Types
<1>8. ContextOK(x)'
  BY <1>0, <1>1, <1>2, <1>7, Distinct DEF ContextOK, Acquiring, Place, Places, Calls, Goal, FrameOK
<1>9. CpuOK(c)'
  <2>1. Needs(x)' = Needs(x) /\ Depth(x)' = Depth(x)
    BY <1>1, <1>2, <1>7 DEF Needs, Depth, Acquiring
  <2>. QED
    BY <1>0, <1>1, <1>2, <1>6, <1>7, <2>1, CpuKept
<1>. QED
  BY <1>0, <1>1, <1>2, <1>5, <1>6, <1>7, <1>8, <1>9, StepKeeps DEF ThreadOK, Types

LEMMA SleepStep ==
  ASSUME Inv, NEW c \in Cpus, NEW x, x = cur[c], Sleep(c, x)
  PROVE  Inv'
<1>0. /\ Types /\ ~panic /\ x \in Contexts /\ c \in Contexts /\ ContextOK(x) /\ CpuOK(c)
      /\ x \in Threads => ThreadOK(x)
      /\ x = c => x \notin Threads
  BY Distinct DEF Inv, Types, Contexts
<1>1. /\ pc[x] = "crit" /\ lk[x] = Tickslock /\ pc' = [pc EXCEPT ![x] = "push"]
      /\ want' = [want EXCEPT ![x] = x] /\ ret' = [ret EXCEPT ![x] = "sleep"]
      /\ UNCHANGED <<cur, state, old, lk, saved, frame, todo, panic, locked, intr, noff, intena>>
  BY DEF Sleep, Acquire, Go, cpuvars
<1>2. x \in Threads /\ frame[x] = None
  BY <1>0, <1>1 DEF ContextOK, Acquiring, Place, Places
<1>5. Types'
  BY <1>0, <1>1, <1>2, Distinct DEF Types, Labels, Locks
<1>6. Local(c, x)
  BY <1>0, <1>1, Distinct DEF Local, Types, Contexts
<1>7. pc'[x] = "push" /\ want'[x] = x /\ ret'[x] = "sleep"
  BY <1>0, <1>1, <1>2 DEF Types
<1>8. ContextOK(x)'
  BY <1>0, <1>1, <1>2, <1>7, Distinct DEF ContextOK, Acquiring, Place, Places, Calls, Goal, FrameOK
<1>9. CpuOK(c)'
  <2>1. Needs(x)' = Needs(x) /\ Depth(x)' = Depth(x)
    BY <1>1, <1>2, <1>7 DEF Needs, Depth, Acquiring
  <2>. QED
    BY <1>0, <1>1, <1>2, <1>6, <1>7, <2>1, CpuKept
<1>. QED
  BY <1>0, <1>1, <1>2, <1>5, <1>6, <1>7, <1>8, <1>9, StepKeeps DEF ThreadOK, Types

LEMMA ResumeSleepStep ==
  ASSUME Inv, NEW c \in Cpus, NEW x, x = cur[c], ResumeSleep(c, x)
  PROVE  Inv'
<1>0. /\ Types /\ ~panic /\ x \in Contexts /\ c \in Contexts /\ ContextOK(x) /\ CpuOK(c)
      /\ x \in Threads => ThreadOK(x)
      /\ x = c => x \notin Threads
  BY Distinct DEF Inv, Types, Contexts
<1>1. /\ pc[x] = "again" /\ pc' = [pc EXCEPT ![x] = "push"] /\ want' = [want EXCEPT ![x] = Tickslock]
      /\ ret' = [ret EXCEPT ![x] = "crit"]
      /\ UNCHANGED <<cur, state, old, lk, saved, frame, todo, panic, locked, intr, noff, intena>>
  BY DEF ResumeSleep, Acquire, Go, cpuvars
<1>2. x \in Threads /\ frame[x] = None /\ lk[x] = Tickslock
  BY <1>0, <1>1 DEF ContextOK, Acquiring, Place, Places
<1>5. Types'
  BY <1>0, <1>1, <1>2, Distinct DEF Types, Labels, Locks
<1>6. Local(c, x)
  BY <1>0, <1>1, Distinct DEF Local, Types, Contexts
<1>7. pc'[x] = "push" /\ want'[x] = Tickslock /\ ret'[x] = "crit"
  BY <1>0, <1>1, <1>2 DEF Types
<1>8. ContextOK(x)'
  BY <1>0, <1>1, <1>2, <1>7, Distinct DEF ContextOK, Acquiring, Place, Places, Calls, Goal, FrameOK
<1>9. CpuOK(c)'
  <2>1. Needs(x)' = Needs(x) /\ Depth(x)' = Depth(x)
    BY <1>1, <1>2, <1>7 DEF Needs, Depth, Acquiring
  <2>. QED
    BY <1>0, <1>1, <1>2, <1>6, <1>7, <2>1, CpuKept
<1>. QED
  BY <1>0, <1>1, <1>2, <1>5, <1>6, <1>7, <1>8, <1>9, StepKeeps DEF ThreadOK, Types

LEMMA ClockStep ==
  ASSUME Inv, NEW c \in Cpus, NEW x, x = cur[c], Clock(c, x)
  PROVE  Inv'
<1>0. /\ Types /\ ~panic /\ x \in Contexts /\ c \in Contexts /\ ContextOK(x) /\ CpuOK(c)
      /\ x \in Threads => ThreadOK(x)
      /\ x = c => x \notin Threads
  BY Distinct DEF Inv, Types, Contexts
<1>1. /\ pc[x] = "clock" /\ pc' = [pc EXCEPT ![x] = "push"] /\ want' = [want EXCEPT ![x] = Tickslock]
      /\ ret' = [ret EXCEPT ![x] = "tick"] /\ todo' = [todo EXCEPT ![x] = Threads \ {x}]
      /\ UNCHANGED <<cur, state, old, lk, saved, frame, panic, locked, intr, noff, intena>>
  BY DEF Clock, Acquire, Go, cpuvars
<1>2. frame[x] # None
  BY <1>0, <1>1 DEF ContextOK, Acquiring, Place, Places
<1>5. Types'
  BY <1>0, <1>1, <1>2, Distinct DEF Types, Labels, Locks
<1>6. Local(c, x)
  BY <1>0, <1>1, Distinct DEF Local, Types, Contexts
<1>7. pc'[x] = "push" /\ want'[x] = Tickslock /\ ret'[x] = "tick" /\ todo'[x] = Threads \ {x}
  BY <1>0, <1>1, <1>2 DEF Types
<1>8. ContextOK(x)'
  BY <1>0, <1>1, <1>2, <1>7, Distinct DEF ContextOK, Acquiring, Place, Places, Calls, Goal, FrameOK
<1>9. CpuOK(c)'
  <2>1. Needs(x)' = Needs(x) /\ Depth(x)' = Depth(x)
    BY <1>1, <1>2, <1>7 DEF Needs, Depth, Acquiring
  <2>. QED
    BY <1>0, <1>1, <1>2, <1>6, <1>7, <2>1, CpuKept
<1>. QED
  BY <1>0, <1>1, <1>2, <1>5, <1>6, <1>7, <1>8, <1>9, StepKeeps DEF ThreadOK, Types

LEMMA YieldStateStep ==
  ASSUME Inv, NEW c \in Cpus, NEW x, x = cur[c], YieldState(c, x)
  PROVE  Inv'
<1>0. /\ Types /\ ~panic /\ x \in Contexts /\ c \in Contexts /\ ContextOK(x) /\ CpuOK(c)
      /\ x \in Threads => ThreadOK(x)
      /\ x = c => x \notin Threads
  BY Distinct DEF Inv, Types, Contexts
<1>1. /\ pc[x] = "yield" /\ pc' = [pc EXCEPT ![x] = "sched"]
      /\ state' = [state EXCEPT ![x] = "RUNNABLE"]
      /\ UNCHANGED <<cur, want, ret, old, lk, saved, frame, todo, panic, locked, intr, noff, intena>>
  BY DEF YieldState, Go, cpuvars, calls
<1>2. x \in Threads /\ frame[x] # None
  BY <1>0, <1>1 DEF ContextOK, Acquiring, Place, Places
<1>5. Types'
  BY <1>0, <1>1, <1>2, Distinct DEF Types, Labels, Locks
<1>6. Local(c, x)
  BY <1>0, <1>1, Distinct DEF Local, Types, Contexts
<1>7. pc'[x] = "sched" /\ state'[x] = "RUNNABLE"
  BY <1>0, <1>1, <1>2 DEF Types
<1>8. ContextOK(x)'
  BY <1>0, <1>1, <1>2, <1>7, Distinct DEF ContextOK, Acquiring, Place, Places, Calls, Goal, FrameOK
<1>9. CpuOK(c)'
  <2>1. Needs(x)' = Needs(x) /\ Depth(x)' = Depth(x)
    BY <1>1, <1>2, <1>7 DEF Needs, Depth, Acquiring
  <2>. QED
    BY <1>0, <1>1, <1>2, <1>6, <1>7, <2>1, CpuKept
<1>. QED
  BY <1>0, <1>1, <1>2, <1>5, <1>6, <1>7, <1>8, <1>9, StepKeeps DEF ThreadOK, Types

LEMMA LeaveInnerStep ==
  ASSUME Inv, NEW c \in Cpus, NEW x, x = cur[c], LeaveInner(c, x)
  PROVE  Inv'
<1>0. /\ Types /\ ~panic /\ x \in Contexts /\ c \in Contexts /\ ContextOK(x) /\ CpuOK(c)
      /\ x \in Threads => ThreadOK(x)
      /\ x = c => x \notin Threads
  BY Distinct DEF Inv, Types, Contexts
<1>1. /\ pc[x] = "inner" /\ pc' = [pc EXCEPT ![x] = "crit"] /\ Release(c, Inner)
      /\ UNCHANGED <<cur, state, want, ret, old, lk, saved, frame, todo>>
  BY DEF LeaveInner, Go, calls
<1>2. x \in Threads /\ frame[x] = None /\ lk[x] = Tickslock
  BY <1>0, <1>1 DEF ContextOK, Acquiring, Place, Places
<1>3. Inner \in Locks /\ locked[Inner] = c /\ noff[c] \in Nat /\ noff[c] > 0 /\ ~intr[c] /\ c # None
  <2>1. Inner \in Needs(x) /\ Inner \in Locks /\ Depth(x) > 0
    BY <1>1, <1>2 DEF Needs, Depth, Acquiring, Locks
  <2>. QED
    BY <1>0, <2>1, Distinct DEF CpuOK, Types
<1>4. ReleaseDone(c, Inner)
  BY <1>0, <1>1, <1>3, Released
<1>5. Types'
  BY <1>0, <1>1, <1>2, <1>4, Distinct DEF ReleaseDone, Types, Labels, Locks
<1>6. Local(c, x)
  BY <1>0, <1>1, <1>3, <1>4, Distinct DEF ReleaseDone, Local, Types, Contexts
<1>7. pc'[x] = "crit"
  BY <1>0, <1>1, <1>2 DEF Types
<1>8. ContextOK(x)'
  BY <1>0, <1>1, <1>2, <1>7, Distinct DEF ContextOK, Acquiring, Place, Places, Calls, Goal, FrameOK
<1>9. CpuOK(c)'
  <2>1. Needs(x)' = Needs(x) \ {Inner} /\ Depth(x)' = Depth(x) - 1
    BY <1>1, <1>2, <1>7, Distinct DEF Needs, Depth, Acquiring
  <2>. QED
    BY <1>0, <1>1, <1>2, <1>3, <1>4, <1>6, <1>7, <2>1, CpuReleased
<1>. QED
  BY <1>0, <1>1, <1>2, <1>4, <1>5, <1>6, <1>7, <1>8, <1>9, StepKeeps DEF ReleaseDone, ThreadOK, Types

LEMMA LeaveStep ==
  ASSUME Inv, NEW c \in Cpus, NEW x, x = cur[c], Leave(c, x)
  PROVE  Inv'
<1>0. /\ Types /\ ~panic /\ x \in Contexts /\ c \in Contexts /\ ContextOK(x) /\ CpuOK(c)
      /\ x \in Threads => ThreadOK(x)
      /\ x = c => x \notin Threads
  BY Distinct DEF Inv, Types, Contexts
<1>1. /\ pc[x] = "crit" /\ pc' = [pc EXCEPT ![x] = "run"] /\ lk' = [lk EXCEPT ![x] = None]
      /\ Release(c, lk[x])
      /\ UNCHANGED <<cur, state, want, ret, old, saved, frame, todo>>
  BY DEF Leave, Go, calls
<1>2. x \in Threads /\ frame[x] = None /\ lk[x] \in {Tickslock, Inner}
  BY <1>0, <1>1 DEF ContextOK, Acquiring, Place, Places
<1>3. lk[x] \in Locks /\ locked[lk[x]] = c /\ noff[c] \in Nat /\ noff[c] > 0 /\ ~intr[c] /\ c # None
  <2>1. lk[x] \in Needs(x) /\ lk[x] \in Locks /\ Depth(x) > 0
    BY <1>1, <1>2 DEF Needs, Depth, Acquiring, Locks
  <2>. QED
    BY <1>0, <2>1, Distinct DEF CpuOK, Types
<1>4. ReleaseDone(c, lk[x])
  BY <1>0, <1>1, <1>3, Released
<1>5. Types'
  BY <1>0, <1>1, <1>2, <1>4, Distinct DEF ReleaseDone, Types, Labels, Locks
<1>6. Local(c, x)
  BY <1>0, <1>1, <1>3, <1>4, Distinct DEF ReleaseDone, Local, Types, Contexts
<1>7. pc'[x] = "run" /\ lk'[x] = None
  BY <1>0, <1>1, <1>2 DEF Types
<1>8. ContextOK(x)'
  BY <1>0, <1>1, <1>2, <1>7, Distinct DEF ContextOK, Acquiring, Place, Places, Calls, Goal, FrameOK
<1>9. CpuOK(c)'
  <2>1. Needs(x)' = Needs(x) \ {lk[x]} /\ Depth(x)' = Depth(x) - 1
    BY <1>1, <1>2, <1>7, Distinct DEF Needs, Depth, Acquiring
  <2>. QED
    BY <1>0, <1>1, <1>2, <1>3, <1>4, <1>6, <1>7, <2>1, CpuReleased
<1>. QED
  BY <1>0, <1>1, <1>2, <1>4, <1>5, <1>6, <1>7, <1>8, <1>9, StepKeeps DEF ReleaseDone, ThreadOK, Types

LEMMA SleepReleaseStep ==
  ASSUME Inv, NEW c \in Cpus, NEW x, x = cur[c], SleepRelease(c, x)
  PROVE  Inv'
<1>0. /\ Types /\ ~panic /\ x \in Contexts /\ c \in Contexts /\ ContextOK(x) /\ CpuOK(c)
      /\ x \in Threads => ThreadOK(x)
      /\ x = c => x \notin Threads
  BY Distinct DEF Inv, Types, Contexts
<1>1. /\ pc[x] = "sleep" /\ pc' = [pc EXCEPT ![x] = "sched"]
      /\ state' = [state EXCEPT ![x] = "SLEEPING"] /\ Release(c, lk[x])
      /\ UNCHANGED <<cur, want, ret, old, lk, saved, frame, todo>>
  BY DEF SleepRelease, Go, calls
<1>2. x \in Threads /\ frame[x] = None /\ lk[x] = Tickslock
  BY <1>0, <1>1 DEF ContextOK, Acquiring, Place, Places
<1>3. lk[x] \in Locks /\ locked[lk[x]] = c /\ noff[c] \in Nat /\ noff[c] > 0 /\ ~intr[c] /\ c # None
  <2>1. lk[x] \in Needs(x) /\ lk[x] \in Locks /\ Depth(x) > 0
    BY <1>1, <1>2 DEF Needs, Depth, Acquiring, Locks
  <2>. QED
    BY <1>0, <2>1, Distinct DEF CpuOK, Types
<1>4. ReleaseDone(c, lk[x])
  BY <1>0, <1>1, <1>3, Released
<1>5. Types'
  BY <1>0, <1>1, <1>2, <1>4, Distinct DEF ReleaseDone, Types, Labels, Locks
<1>6. Local(c, x)
  BY <1>0, <1>1, <1>3, <1>4, Distinct DEF ReleaseDone, Local, Types, Contexts
<1>7. pc'[x] = "sched" /\ state'[x] = "SLEEPING"
  BY <1>0, <1>1, <1>2 DEF Types
<1>8. ContextOK(x)'
  BY <1>0, <1>1, <1>2, <1>7, Distinct DEF ContextOK, Acquiring, Place, Places, Calls, Goal, FrameOK
<1>9. CpuOK(c)'
  <2>1. Needs(x)' = Needs(x) \ {lk[x]} /\ Depth(x)' = Depth(x) - 1
    BY <1>1, <1>2, <1>7, Distinct DEF Needs, Depth, Acquiring
  <2>. QED
    BY <1>0, <1>1, <1>2, <1>3, <1>4, <1>6, <1>7, <2>1, CpuReleased
<1>. QED
  BY <1>0, <1>1, <1>2, <1>4, <1>5, <1>6, <1>7, <1>8, <1>9, StepKeeps DEF ReleaseDone, ThreadOK, Types

LEMMA ForkretStep ==
  ASSUME Inv, NEW c \in Cpus, NEW x, x = cur[c], Forkret(c, x)
  PROVE  Inv'
<1>0. /\ Types /\ ~panic /\ x \in Contexts /\ c \in Contexts /\ ContextOK(x) /\ CpuOK(c)
      /\ x \in Threads => ThreadOK(x)
      /\ x = c => x \notin Threads
  BY Distinct DEF Inv, Types, Contexts
<1>1. /\ pc[x] = "forkret" /\ pc' = [pc EXCEPT ![x] = "return"] /\ Release(c, x)
      /\ UNCHANGED <<cur, state, want, ret, old, lk, saved, frame, todo>>
  BY DEF Forkret, Go, calls
<1>2. x \in Threads /\ frame[x] = None
  BY <1>0, <1>1 DEF ContextOK, Acquiring, Place, Places
<1>3. x \in Locks /\ locked[x] = c /\ noff[c] \in Nat /\ noff[c] > 0 /\ ~intr[c] /\ c # None
  <2>1. x \in Needs(x) /\ x \in Locks /\ Depth(x) > 0
    BY <1>1, <1>2 DEF Needs, Depth, Acquiring, Locks
  <2>. QED
    BY <1>0, <2>1, Distinct DEF CpuOK, Types
<1>4. ReleaseDone(c, x)
  BY <1>0, <1>1, <1>3, Released
<1>5. Types'
  BY <1>0, <1>1, <1>2, <1>4, Distinct DEF ReleaseDone, Types, Labels, Locks
<1>6. Local(c, x)
  BY <1>0, <1>1, <1>3, <1>4, Distinct DEF ReleaseDone, Local, Types, Contexts
<1>7. pc'[x] = "return"
  BY <1>0, <1>1, <1>2 DEF Types
<1>8. ContextOK(x)'
  BY <1>0, <1>1, <1>2, <1>7, Distinct DEF ContextOK, Acquiring, Place, Places, Calls, Goal, FrameOK
<1>9. CpuOK(c)'
  <2>1. Needs(x)' = Needs(x) \ {x} /\ Depth(x)' = Depth(x) - 1
    BY <1>1, <1>2, <1>7, Distinct DEF Needs, Depth, Acquiring
  <2>. QED
    BY <1>0, <1>1, <1>2, <1>3, <1>4, <1>6, <1>7, <2>1, CpuReleased
<1>. QED
  BY <1>0, <1>1, <1>2, <1>4, <1>5, <1>6, <1>7, <1>8, <1>9, StepKeeps DEF ReleaseDone, ThreadOK, Types

LEMMA BackStep ==
  ASSUME Inv, NEW c \in Cpus, NEW x, x = cur[c], Back(c, x)
  PROVE  Inv'
<1>0. /\ Types /\ ~panic /\ x \in Contexts /\ c \in Contexts /\ ContextOK(x) /\ CpuOK(c)
      /\ x \in Threads => ThreadOK(x)
      /\ x = c => x \notin Threads
  BY Distinct DEF Inv, Types, Contexts
<1>1. /\ pc[x] = "back" /\ pc' = [pc EXCEPT ![x] = "scan"] /\ lk' = [lk EXCEPT ![x] = None]
      /\ Release(c, lk[x])
      /\ UNCHANGED <<cur, state, want, ret, old, saved, frame, todo>>
  BY DEF Back, Go, calls
<1>2. x \notin Threads /\ frame[x] = None /\ lk[x] \in Threads
  BY <1>0, <1>1 DEF ContextOK, Acquiring, Place, Places
<1>3. lk[x] \in Locks /\ locked[lk[x]] = c /\ noff[c] \in Nat /\ noff[c] > 0 /\ ~intr[c] /\ c # None
  <2>1. lk[x] \in Needs(x) /\ lk[x] \in Locks /\ Depth(x) > 0
    BY <1>1, <1>2 DEF Needs, Depth, Acquiring, Locks
  <2>. QED
    BY <1>0, <2>1, Distinct DEF CpuOK, Types
<1>4. ReleaseDone(c, lk[x])
  BY <1>0, <1>1, <1>3, Released
<1>5. Types'
  BY <1>0, <1>1, <1>2, <1>4, Distinct DEF ReleaseDone, Types, Labels, Locks
<1>6. Local(c, x)
  BY <1>0, <1>1, <1>3, <1>4, Distinct DEF ReleaseDone, Local, Types, Contexts
<1>7. pc'[x] = "scan" /\ lk'[x] = None
  BY <1>0, <1>1, <1>2 DEF Types
<1>8. ContextOK(x)'
  BY <1>0, <1>1, <1>2, <1>7, Distinct DEF ContextOK, Acquiring, Place, Places, Calls, Goal, FrameOK
<1>9. CpuOK(c)'
  <2>1. Needs(x)' = Needs(x) \ {lk[x]} /\ Depth(x)' = Depth(x) - 1
    BY <1>1, <1>2, <1>7, Distinct DEF Needs, Depth, Acquiring
  <2>. QED
    BY <1>0, <1>1, <1>2, <1>3, <1>4, <1>6, <1>7, <2>1, CpuReleased
<1>. QED
  BY <1>0, <1>1, <1>2, <1>4, <1>5, <1>6, <1>7, <1>8, <1>9, StepKeeps DEF ReleaseDone, ThreadOK, Types

LEMMA PushOffGetStep ==
  ASSUME Inv, NEW c \in Cpus, NEW x, x = cur[c], PushOffGet(c, x)
  PROVE  Inv'
<1>0. /\ Types /\ ~panic /\ x \in Contexts /\ c \in Contexts /\ ContextOK(x) /\ CpuOK(c)
      /\ x \in Threads => ThreadOK(x)
      /\ x = c => x \notin Threads
  BY Distinct DEF Inv, Types, Contexts
<1>1. /\ pc[x] = "push" /\ pc' = [pc EXCEPT ![x] = "off"] /\ old' = [old EXCEPT ![x] = intr[c]]
      /\ UNCHANGED <<cur, state, want, ret, lk, saved, frame, todo, panic, locked, intr, noff, intena>>
  BY DEF PushOffGet, Go, cpuvars
<1>2. ret[x] \in Calls(x)
  BY <1>0, <1>1 DEF ContextOK, Acquiring, Place, Places
<1>5. Types'
  BY <1>0, <1>1, <1>2, Distinct DEF Types, Labels, Locks
<1>6. Local(c, x)
  BY <1>0, <1>1, Distinct DEF Local, Types, Contexts
<1>7. pc'[x] = "off" /\ old'[x] = intr[c]
  BY <1>0, <1>1, <1>2 DEF Types
<1>8. ContextOK(x)'
  BY <1>0, <1>1, <1>2, <1>7, Distinct DEF ContextOK, Acquiring, Place, Places, Calls, Goal, FrameOK, NextTodo
<1>9. CpuOK(c)'
  <2>1. Needs(x)' = Needs(x) /\ Depth(x)' = Depth(x)
    BY <1>1, <1>7 DEF Needs, Depth, Acquiring
  <2>2. c # x => pc'[c] = pc[c]
    BY <1>0, <1>1 DEF Types
  <2>. QED
    BY <1>0, <1>1, <1>7, <2>1, <2>2 DEF CpuOK
<1>. QED
  BY <1>0, <1>1, <1>2, <1>5, <1>6, <1>7, <1>8, <1>9, StepKeeps DEF ThreadOK, Types

LEMMA SchedReturnStep ==
  ASSUME Inv, NEW c \in Cpus, NEW x, x = cur[c], SchedReturn(c, x)
  PROVE  Inv'
<1>0. /\ Types /\ ~panic /\ x \in Contexts /\ c \in Contexts /\ ContextOK(x) /\ CpuOK(c)
      /\ x \in Threads => ThreadOK(x)
      /\ x = c => x \notin Threads
  BY Distinct DEF Inv, Types, Contexts
<1>1. /\ pc[x] = "swtch" /\ pc' = [pc EXCEPT ![x] = "resumed"]
      /\ intena' = [intena EXCEPT ![c] = saved[x]]
      /\ UNCHANGED <<cur, state, want, ret, old, lk, saved, frame, todo, panic, locked, intr, noff>>
  BY DEF SchedReturn, IntenaOfThread, Go, calls
<1>2. x \in Threads /\ (saved[x] <=> frame[x] = None)
  BY <1>0, <1>1 DEF ContextOK, Acquiring, Place, Places
<1>5. Types'
  BY <1>0, <1>1, <1>2, Distinct DEF Types, Labels, Locks
<1>6. Local(c, x)
  BY <1>0, <1>1, Distinct DEF Local, Types, Contexts
<1>7. pc'[x] = "resumed" /\ intena'[c] = saved[x]
  BY <1>0, <1>1, <1>2 DEF Types
<1>8. ContextOK(x)'
  BY <1>0, <1>1, <1>2, <1>7, Distinct DEF ContextOK, Acquiring, Place, Places, Calls, Goal, FrameOK
<1>9. CpuOK(c)'
  <2>1. Needs(x)' = Needs(x) /\ Depth(x)' = Depth(x) /\ Depth(x) = 1
    BY <1>1, <1>7 DEF Needs, Depth, Acquiring
  <2>2. c # x => pc'[c] = pc[c]
    BY <1>0, <1>1 DEF Types
  <2>. QED
    BY <1>0, <1>1, <1>2, <1>7, <2>1, <2>2 DEF CpuOK
<1>. QED
  BY <1>0, <1>1, <1>2, <1>5, <1>6, <1>7, <1>8, <1>9, StepKeeps DEF ThreadOK, Types

LEMMA UsertrapretStep ==
  ASSUME Inv, NEW c \in Cpus, NEW x, x = cur[c], Usertrapret(c, x)
  PROVE  Inv'
<1>0. /\ Types /\ ~panic /\ x \in Contexts /\ c \in Contexts /\ ContextOK(x) /\ CpuOK(c)
      /\ x \in Threads => ThreadOK(x)
      /\ x = c => x \notin Threads
  BY Distinct DEF Inv, Types, Contexts
<1>1. /\ pc[x] \in {"run", "return"} /\ pc' = [pc EXCEPT ![x] = "user"]
      /\ intr' = [intr EXCEPT ![c] = TRUE]
      /\ UNCHANGED <<cur, state, want, ret, old, lk, saved, frame, todo, panic, locked, noff, intena>>
  BY DEF Usertrapret, Go, calls
<1>2. x \in Threads /\ frame[x] = None
  BY <1>0, <1>1 DEF ContextOK, Acquiring, Place, Places
<1>5. Types'
  BY <1>0, <1>1, <1>2, Distinct DEF Types, Labels, Locks
<1>6. Local(c, x)
  BY <1>0, <1>1, Distinct DEF Local, Types, Contexts
<1>7. pc'[x] = "user" /\ intr'[c] = TRUE
  BY <1>0, <1>1, <1>2 DEF Types
<1>8. ContextOK(x)'
  BY <1>0, <1>1, <1>2, <1>7, Distinct DEF ContextOK, Acquiring, Place, Places, Calls, Goal, FrameOK
<1>9. CpuOK(c)'
  <2>1. Needs(x)' = Needs(x) /\ Depth(x)' = Depth(x) /\ Depth(x) = 0
    BY <1>1, <1>7 DEF Needs, Depth, Acquiring
  <2>2. x # c /\ pc'[c] = pc[c]
    BY <1>0, <1>1, <1>2 DEF Types
  <2>3. /\ noff[c] = 0 /\ pc[c] = "back" /\ lk[c] = x /\ frame[c] = None
        /\ \A l \in Locks : locked[l] = c <=> l \in Needs(x)
    BY <1>0, <1>2, <2>1 DEF CpuOK
  <2>4. /\ noff'[c] = 0 /\ ~(noff'[c] > 0) /\ intr'[c] /\ pc'[x] # "off" /\ frame'[x] = None
        /\ x = cur'[c] /\ x \notin Cpus /\ pc'[c] = "back" /\ lk'[c] = x /\ frame'[c] = None
        /\ \A l \in Locks : locked'[l] = c <=> l \in Needs(x)'
    BY <1>1, <1>2, <1>7, <2>1, <2>2, <2>3, Distinct, SMTT(15)
  <2>. QED
    BY <1>2, <2>1, <2>4, Zenon DEF CpuOK
<1>. QED
  BY <1>0, <1>1, <1>2, <1>5, <1>6, <1>7, <1>8, <1>9, StepKeeps DEF ThreadOK, Types

LEMMA UsertrapStep ==
  ASSUME Inv, NEW c \in Cpus, NEW x, x = cur[c], Usertrap(c, x)
  PROVE  Inv'
<1>0. /\ Types /\ ~panic /\ x \in Contexts /\ c \in Contexts /\ ContextOK(x) /\ CpuOK(c)
      /\ x \in Threads => ThreadOK(x)
      /\ x = c => x \notin Threads
  BY Distinct DEF Inv, Types, Contexts
<1>1. /\ pc[x] = "user" /\ pc' = [pc EXCEPT ![x] = "run"] /\ intr' = [intr EXCEPT ![c] = TRUE]
      /\ UNCHANGED <<cur, state, want, ret, old, lk, saved, frame, todo, panic, locked, noff, intena>>
  BY DEF Usertrap, Go, calls
<1>2. x \in Threads /\ frame[x] = None
  BY <1>0, <1>1 DEF ContextOK, Acquiring, Place, Places
<1>5. Types'
  BY <1>0, <1>1, <1>2, Distinct DEF Types, Labels, Locks
<1>6. Local(c, x)
  BY <1>0, <1>1, Distinct DEF Local, Types, Contexts
<1>7. pc'[x] = "run" /\ intr'[c] = TRUE
  BY <1>0, <1>1, <1>2 DEF Types
<1>8. ContextOK(x)'
  BY <1>0, <1>1, <1>2, <1>7, Distinct DEF ContextOK, Acquiring, Place, Places, Calls, Goal, FrameOK
<1>9. CpuOK(c)'
  <2>1. Needs(x)' = Needs(x) /\ Depth(x)' = Depth(x) /\ Depth(x) = 0
    BY <1>1, <1>7 DEF Needs, Depth, Acquiring
  <2>2. x # c /\ pc'[c] = pc[c]
    BY <1>0, <1>1, <1>2 DEF Types
  <2>3. /\ noff[c] = 0 /\ pc[c] = "back" /\ lk[c] = x /\ frame[c] = None
        /\ \A l \in Locks : locked[l] = c <=> l \in Needs(x)
    BY <1>0, <1>2, <2>1 DEF CpuOK
  <2>4. /\ noff'[c] = 0 /\ ~(noff'[c] > 0) /\ intr'[c] /\ pc'[x] # "off" /\ frame'[x] = None
        /\ x = cur'[c] /\ x \notin Cpus /\ pc'[c] = "back" /\ lk'[c] = x /\ frame'[c] = None
        /\ \A l \in Locks : locked'[l] = c <=> l \in Needs(x)'
    BY <1>1, <1>2, <1>7, <2>1, <2>2, <2>3, Distinct, SMTT(15)
  <2>. QED
    BY <1>2, <2>1, <2>4, Zenon DEF CpuOK
<1>. QED
  BY <1>0, <1>1, <1>2, <1>5, <1>6, <1>7, <1>8, <1>9, StepKeeps DEF ThreadOK, Types

\* yield() returns to the interrupt handler, sleep() to its caller.
LEMMA ResumedStep ==
  ASSUME Inv, NEW c \in Cpus, NEW x, x = cur[c], Resumed(c, x)
  PROVE  Inv'
<1>0. /\ Types /\ ~panic /\ x \in Contexts /\ c \in Contexts /\ ContextOK(x) /\ CpuOK(c)
      /\ x \in Threads => ThreadOK(x)
      /\ x = c => x \notin Threads
  BY Distinct DEF Inv, Types, Contexts
<1>1. /\ pc[x] = "resumed" /\ pc' = [pc EXCEPT ![x] = IF frame[x] # None THEN "sret" ELSE "again"]
      /\ Release(c, x) /\ UNCHANGED <<cur, state, want, ret, old, lk, saved, frame, todo>>
  BY DEF Resumed, Go, calls
<1>2. x \in Threads /\ (frame[x] = None => lk[x] = Tickslock)
  BY <1>0, <1>1 DEF ContextOK, Acquiring, Places
<1>3. x \in Locks /\ locked[x] = c /\ noff[c] \in Nat /\ noff[c] > 0 /\ ~intr[c] /\ c # None
  <2>1. x \in Needs(x) /\ x \in Locks /\ Depth(x) > 0
    BY <1>1, <1>2 DEF Needs, Depth, Acquiring, Locks
  <2>. QED
    BY <1>0, <2>1, Distinct DEF CpuOK, Types
<1>4. ReleaseDone(c, x)
  BY <1>0, <1>1, <1>3, Released
<1>5. Types'
  BY <1>0, <1>1, <1>4 DEF ReleaseDone, Types, Labels
<1>6. Local(c, x)
  BY <1>0, <1>1, <1>3, <1>4 DEF ReleaseDone, Local, Types
<1>7. pc'[x] = (IF frame[x] # None THEN "sret" ELSE "again")
  BY <1>0, <1>1 DEF Types
<1>8. ContextOK(x)'
  <2>1. CASE frame[x] = None
    BY <1>1, <1>2, <1>7, <2>1, SMTT(15) DEF ContextOK, Acquiring, Place, Places, FrameOK
  <2>2. CASE frame[x] # None
    <3>1. FrameOK(x)'
      BY <1>0, <1>1, Zenon DEF ContextOK, FrameOK
    <3>2. pc'[x] = "sret" /\ frame'[x] # None /\ ~Acquiring(x)'
      BY <1>1, <1>7, <2>2, SMTT(15) DEF Acquiring
    <3>3. pc'[x] \in Places(x)' /\ Place(x)' = "sret"
      BY <3>2 DEF Place, Places
    <3>. QED
      BY <3>1, <3>2, <3>3 DEF ContextOK
  <2>. QED
    BY <2>1, <2>2
<1>9. CpuOK(c)'
  <2>1. Needs(x)' = Needs(x) \ {x} /\ Depth(x)' = Depth(x) - 1
    BY <1>1, <1>2, <1>7 DEF Needs, Depth, Acquiring
  <2>2. frame'[x] = frame[x] /\ pc'[x] \in {"sret", "again"}
    BY <1>1, <1>7
  <2>. QED
    BY <1>0, <1>1, <1>3, <1>4, <1>6, <2>1, <2>2, CpuReleased
<1>10. state[x] = "RUNNING"
  BY <1>0, <1>1, <1>2 DEF ThreadOK
<1>11. ~panic' /\ state' = state /\ state'[x] = "RUNNING" /\ pc'[x] # "sched"
  BY <1>1, <1>4, <1>7, <1>10 DEF ReleaseDone
<1>. QED
  BY <1>1, <1>5, <1>6, <1>8, <1>9, <1>11, StepKeeps

LEMMA WakeupOneStep ==
  ASSUME Inv, NEW c \in Cpus, NEW x, x = cur[c], WakeupOne(c, x)
  PROVE  Inv'
<1>0. /\ Types /\ ~panic /\ x \in Contexts /\ c \in Contexts /\ ContextOK(x) /\ CpuOK(c)
      /\ x \in Threads => ThreadOK(x)
      /\ x = c => x \notin Threads
  BY Distinct DEF Inv, Types, Contexts
<1>1. PICK t :
              /\ t = NextTodo(x) /\ pc[x] = "wake" /\ pc' = [pc EXCEPT ![x] = "tick"] /\ Release(c, t)
              /\ state' = IF state[t] = "SLEEPING" THEN [state EXCEPT ![t] = "RUNNABLE"] ELSE state
              /\ todo' = [todo EXCEPT ![x] = todo[x] \ {t}]
              /\ UNCHANGED <<cur, want, ret, old, lk, saved, frame>>
  BY Zenon DEF WakeupOne, Go, calls, NextTodo
<1>2. t \in Threads /\ frame[x] # None
  <2>1. todo[x] # {} /\ todo[x] \subseteq Threads /\ frame[x] # None
    BY <1>0, <1>1 DEF ContextOK, Place, Places, Acquiring, Types
  <2>2. NextTodo(x) \in todo[x]
    BY <2>1, Zenon DEF NextTodo
  <2>. QED
    BY <1>1, <2>1, <2>2
<1>3. t \in Locks /\ locked[t] = c /\ noff[c] \in Nat /\ noff[c] > 0 /\ ~intr[c] /\ c # None
  <2>1. t \in Needs(x) /\ t \in Locks /\ Depth(x) > 0
    BY <1>1, <1>2 DEF Needs, Depth, Acquiring, Locks
  <2>. QED
    BY <1>0, <2>1, Distinct DEF CpuOK, Types
<1>4. ReleaseDone(c, t)
  BY <1>0, <1>1, <1>3, Released
<1>5. Types'
  BY <1>0, <1>1, <1>2, <1>4 DEF ReleaseDone, Types, Labels
<1>6. Local(c, x)
  BY <1>0, <1>1, <1>3, <1>4 DEF ReleaseDone, Local, Types
<1>7. pc'[x] = "tick"
  BY <1>0, <1>1 DEF Types
<1>8. ContextOK(x)'
  <2>1. FrameOK(x)'
    BY <1>0, <1>1, Zenon DEF ContextOK, FrameOK
  <2>2. frame'[x] # None /\ ~Acquiring(x)'
    BY <1>1, <1>2, <1>7 DEF Acquiring
  <2>3. pc'[x] \in Places(x)' /\ Place(x)' = "tick"
    BY <1>7, <2>2 DEF Place, Places
  <2>. QED
    BY <1>7, <2>1, <2>2, <2>3 DEF ContextOK
<1>9. CpuOK(c)'
  <2>1. Needs(x)' = Needs(x) \ {t} /\ Depth(x)' = Depth(x) - 1
    BY <1>1, <1>2, <1>7, Distinct DEF Needs, Depth, Acquiring
  <2>. QED
    BY <1>0, <1>1, <1>3, <1>4, <1>6, <1>7, <2>1, CpuReleased
<1>10. /\ \A u \in Threads : state'[u] = state[u] \/ "RUNNING" \notin {state[u], state'[u]}
       /\ x \in Threads => state'[x] = "RUNNING"
  <2>1. x \in Threads => state[x] = "RUNNING"
    BY <1>0, <1>1 DEF ThreadOK
  <2>. QED
    BY <1>0, <1>1, <1>2, <2>1 DEF Types
<1>. QED
  BY <1>0, <1>1, <1>4, <1>5, <1>6, <1>7, <1>8, <1>9, <1>10, StepKeeps DEF ReleaseDone

LEMMA YieldStep ==
  ASSUME Inv, NEW c \in Cpus, NEW x, x = cur[c], Yield(c, x)
  PROVE  Inv'
<1>0. /\ Types /\ ~panic /\ x \in Contexts /\ c \in Contexts /\ ContextOK(x) /\ CpuOK(c)
      /\ x \in Threads => ThreadOK(x)
      /\ x = c => x \notin Threads
  BY Distinct DEF Inv, Types, Contexts
<1>1. /\ pc[x] = "ticked"
      /\ IF x \in Threads THEN /\ want' = [want EXCEPT ![x] = x] /\ ret' = [ret EXCEPT ![x] = "yield"]
                              /\ pc' = [pc EXCEPT ![x] = "push"]
                         ELSE pc' = [pc EXCEPT ![x] = "sret"] /\ UNCHANGED <<want, ret>>
      /\ UNCHANGED <<locked, intr, noff, intena, cur, state, old, lk, saved, frame, todo, panic>>
  BY DEF Yield, Acquire, Go, cpuvars
<1>2. frame[x] # None
  BY <1>0, <1>1 DEF ContextOK, Acquiring, Places
<1>5. Types'
  <2>1. CASE x \in Threads
    BY <1>0, <1>1, <2>1 DEF Types, Labels, Locks
  <2>2. CASE x \notin Threads
    BY <1>0, <1>1, <2>2 DEF Types, Labels
  <2>. QED
    BY <2>1, <2>2
<1>6. Local(c, x)
  BY <1>0, <1>1 DEF Local, Types
<1>7. IF x \in Threads THEN pc'[x] = "push" /\ ret'[x] = "yield" /\ want'[x] = x ELSE pc'[x] = "sret"
  BY <1>0, <1>1 DEF Types
<1>8. ContextOK(x)'
  BY <1>0, <1>1, <1>2, <1>7 DEF ContextOK, Acquiring, Place, Places, Calls, Goal, FrameOK
<1>9. CpuOK(c)'
  <2>1. Needs(x)' = Needs(x) /\ Depth(x)' = Depth(x)
    BY <1>1, <1>7 DEF Needs, Depth, Acquiring
  <2>. QED
    BY <1>0, <1>1, <1>6, <1>7, <2>1, CpuKept
<1>. QED
  BY <1>0, <1>1, <1>5, <1>6, <1>7, <1>8, <1>9, StepKeeps DEF ThreadOK

=============================================================================
