----------------------------- MODULE ProcProofs -----------------------------
(***************************************************************************)
(* Proofs about processes, for any number of slots and CPUs: a process     *)
(* runs on one CPU at a time, sched() passes its tests, no slot is freed   *)
(* whose stack is in use, every child has a parent that can wait for it,   *)
(* and wait() sleeps through no exit.                                      *)
(***************************************************************************)
EXTENDS Proc, WellFoundedInduction, TLAPS

\* The CPU c holds p->lock, taken on one side of swtch() and to be released on
\* the other.
Switching(c, p) ==
  cpu[c] = p /\ (sch[c] = "back" \/ (sch[c] = "run" /\ ctx[p] # "run"))

\* c->proc, p->lock, p->state and p->context agree.
CpuInv ==
  /\ \A c \in CPUs : cpu[c] = 0 <=> sch[c] = "scan"
  /\ \A c, d \in CPUs : cpu[c] = cpu[d] /\ cpu[c] # 0 => c = d
  /\ \A p \in Procs, c \in CPUs : lk[p] = c <=> Switching(c, p)
  /\ \A c \in CPUs : sch[c] = "run" => state[cpu[c]] = "RUNNING"
  /\ \A c \in CPUs : sch[c] = "back" =>
       state[cpu[c]] \in {"RUNNABLE", "SLEEPING", "ZOMBIE"} /\ ctx[cpu[c]] # "run"
  /\ \A p \in Procs : state[p] = "RUNNING" \/ ctx[p] = "run" =>
       \E c \in CPUs : cpu[c] = p /\ sch[c] = "run"

\* wait_lock is held by the CPU that runs a process where the code has it.
WaitInv ==
  /\ \A c \in CPUs : wlock = c <=> sch[c] = "run" /\ pc[cpu[c]] \in WaitLockPcs
  /\ \A p \in Procs : pc[p] \in WaitLockPcs => ctx[p] = "run"

ForkPcs == {"fork_link", "fork_ready"}

\* The child in the making belongs to one fork(), and a slot without a process
\* is nowhere in the kernel.
ForkInv ==
  /\ \A p \in Procs : child[p] # 0 <=> pc[p] \in ForkPcs
  /\ \A p \in Procs : child[p] # 0 => state[child[p]] = "USED"
  /\ \A p, q \in Procs : child[p] = child[q] /\ child[p] # 0 => p = q
  /\ \A p \in Procs : pc[p] = "none" <=> state[p] \in {"UNUSED", "ZOMBIE"}

ExitPcs == {"exit_lock", "reparent", "wake_init", "wake_parent", "zombie"}

\* initproc never exits.
InitprocInv ==
  ~killed[initproc] /\ pc[initproc] \notin ExitPcs \cup {"none"} /\ state[initproc] # "USED"

\* The loop indices start at the first slot.
ScanInv ==
  /\ wlock = Free => scan = 1
  /\ \A p \in Procs : pc[p] \in {"wake_parent", "zombie", "wait_sleep"} => scan = 1
  /\ (\A p \in Procs : pc[p] \notin {"wake_init", "wake_parent"}) => wk = 1

\* Parents are alive, and have no children left when they are about to become
\* zombies.
FamilyInv ==
  /\ \A q \in Procs : parent[q] # 0 =>
       /\ state[q] # "UNUSED"
       /\ state[parent[q]] \notin {"UNUSED", "USED", "ZOMBIE"}
       /\ pc[parent[q]] \in {"reparent", "wake_init"} => q >= scan
       /\ pc[parent[q]] \notin {"wake_parent", "zombie"}

\* A process sleeps beside a dead child only until the exiting process that
\* handed the child to initproc has woken initproc, and not when it is about
\* to sleep itself or its child is about to die.
SleepInv ==
  /\ \A p \in Procs : state[p] = "SLEEPING" => chan[p] = p
  /\ \A q \in Procs : parent[q] # 0 =>
       /\ pc[q] = "zombie" => state[parent[q]] # "SLEEPING"
       /\ pc[q] = "wake_parent" /\ parent[q] < wk => state[parent[q]] # "SLEEPING"
       /\ pc[parent[q]] = "wait_sleep" => state[q] # "ZOMBIE"
       /\ pc[parent[q]] = "wait_scan" /\ q < scan => state[q] # "ZOMBIE"
       /\ state[parent[q]] = "SLEEPING" /\ state[q] = "ZOMBIE" =>
            /\ parent[q] = initproc
            /\ wk = initproc
            /\ \E r \in Procs : pc[r] = "wake_init"

Inv ==
  TypeOK /\ CpuInv /\ WaitInv /\ ForkInv /\ InitprocInv /\ ScanInv /\ FamilyInv /\ SleepInv

-----------------------------------------------------------------------------
(* What the invariant says of a process *)

\* A process on its way through the kernel.
LEMMA RunFacts ==
  ASSUME ProcAssumption, Inv, NEW c \in CPUs, NEW l, At(c, l), NEW p, p = cpu[c]
  PROVE  /\ p \in Procs /\ p # 0 /\ sch[c] = "run" /\ lk[p] = Free
         /\ state[p] = "RUNNING" /\ pc[p] = l /\ ctx[p] = "run"
         /\ \A d \in CPUs : cpu[d] = p => d = c
         /\ wlock = c <=> l \in WaitLockPcs
<1>1. sch[c] = "run" /\ ctx[p] = "run" /\ pc[p] = l
  BY DEF At
<1>2. p # 0 /\ p \in Procs
  BY <1>1 DEF Inv, TypeOK, CpuInv, Procs, ProcAssumption
<1>3. \A d \in CPUs : cpu[d] = p => d = c
  BY <1>2 DEF Inv, CpuInv
<1>4. lk[p] = Free
  <2>1. \A d \in CPUs : ~Switching(d, p)
    BY <1>1, <1>3 DEF Switching
  <2>. QED
    BY <1>2, <2>1 DEF Inv, TypeOK, CpuInv
<1>5. state[p] = "RUNNING"
  BY <1>1 DEF Inv, CpuInv
<1>6. wlock = c <=> l \in WaitLockPcs
  BY <1>1 DEF Inv, WaitInv
<1>. QED
  BY <1>1, <1>2, <1>3, <1>4, <1>5, <1>6

\* A process whose lock is free and that is not RUNNING is on no CPU.
LEMMA OffCpu ==
  ASSUME ProcAssumption, Inv, NEW q \in Procs, lk[q] = Free, state[q] # "RUNNING"
  PROVE  (\A d \in CPUs : cpu[d] # q) /\ ctx[q] # "run" /\ pc[q] \notin WaitLockPcs
<1>1. q # 0
  BY DEF Procs, ProcAssumption
<1>2. \A d \in CPUs : cpu[d] # q
  <2>. SUFFICES ASSUME NEW d \in CPUs, cpu[d] = q PROVE FALSE
    OBVIOUS
  <2>1. sch[d] # "run"
    BY DEF Inv, CpuInv
  <2>2. sch[d] = "back"
    BY <1>1, <2>1 DEF Inv, TypeOK, CpuInv
  <2>3. lk[q] = d
    BY <2>2 DEF Inv, CpuInv, Switching
  <2>. QED
    BY <2>3 DEF ProcAssumption
<1>3. ctx[q] # "run"
  BY <1>2 DEF Inv, CpuInv
<1>4. pc[q] \notin WaitLockPcs
  BY <1>3 DEF Inv, WaitInv
<1>. QED
  BY <1>2, <1>3, <1>4

\* One process holds wait_lock, and none when it is free.
LEMMA OneWaiter ==
  ASSUME ProcAssumption, Inv, NEW p \in Procs, pc[p] \in WaitLockPcs
  PROVE  /\ wlock # Free
         /\ \A q \in Procs : pc[q] \in WaitLockPcs => q = p
<1>1. ASSUME NEW q \in Procs, pc[q] \in WaitLockPcs
      PROVE  wlock \in CPUs /\ cpu[wlock] = q
  <2>1. PICK c \in CPUs : cpu[c] = q /\ sch[c] = "run"
    BY <1>1 DEF Inv, WaitInv, CpuInv
  <2>2. wlock = c
    BY <1>1, <2>1 DEF Inv, WaitInv
  <2>. QED
    BY <2>1, <2>2
<1>. QED
  BY <1>1 DEF ProcAssumption

\* The sets of the pcs, as far as they matter.
LEMMA PcFacts ==
  /\ \A l \in OpenPcs \cup {"user", "none"} : l \notin WaitLockPcs
  /\ ForkPcs \subseteq OpenPcs
  /\ \A l \in WaitLockPcs : l \notin ForkPcs \cup {"none", "user"}
BY DEF OpenPcs, WaitLockPcs, ForkPcs

LEMMA AfterType == ASSUME ProcAssumption, NEW p \in Procs PROVE After(p) \in Procs
BY DEF ProcAssumption, Procs, After

LEMMA InitprocIs == ASSUME ProcAssumption PROVE initproc \in Procs /\ initproc = 1 /\ 0 \notin Procs
BY DEF ProcAssumption, Procs, initproc

\* Slots and the pointers to them, 0 for a null pointer.
LEMMA Pointers ==
  ASSUME ProcAssumption
  PROVE  /\ 0 \in 0 .. NPROC /\ 0 \notin Procs /\ 1 \in 1 .. NPROC + 1
         /\ \A x \in Procs : x \in 0 .. NPROC
         /\ \A x \in 0 .. NPROC : x # 0 => x \in Procs
BY DEF ProcAssumption, Procs

\* A CPU outside its scan has a process.
LEMMA CpuRange ==
  ASSUME ProcAssumption, Inv
  PROVE  \A c \in CPUs : sch[c] # "scan" => cpu[c] \in Procs
BY Pointers DEF Inv, TypeOK, CpuInv

\* First() is the least element.
LEMMA FirstFacts ==
  ASSUME NEW S, S \subseteq Nat, S # {}
  PROVE  First(S) \in S /\ \A r \in S : First(S) <= r
<1>. DEFINE R == OpToRel(<, Nat)
<1>1. IsWellFoundedOn(R, Nat)
  BY NatLessThanWellFounded
<1>2. \A x, y \in Nat : x < y => <<x, y>> \in R
  BY DEF OpToRel
<1>. HIDE DEF R
<1>3. PICK x \in S : \A y \in S : ~(<<y, x>> \in R)
  BY <1>1, WFMin
<1>4. ASSUME NEW y \in S PROVE x <= y
  <2>1. x \in Nat /\ y \in Nat /\ ~(y < x)
    BY <1>2, <1>3
  <2>. QED
    BY <2>1
<1>5. \E q \in S : \A r \in S : q <= r
  BY <1>4
<1>. QED
  BY <1>5 DEF First

-----------------------------------------------------------------------------
(* What the steps share *)

\* A step that neither takes nor gives a CPU or a lock, and moves only
\* processes that are on no CPU to other states.
LEMMA CpuKept ==
  ASSUME ProcAssumption, Inv, UNCHANGED <<cpu, sch, lk>>,
         \A q \in Procs : \/ state'[q] = state[q] /\ ctx'[q] = ctx[q]
                          \/ /\ \A d \in CPUs : cpu[d] # q
                             /\ state'[q] # "RUNNING" /\ ctx'[q] # "run"
  PROVE  CpuInv'
<1>0. \A c \in CPUs : cpu[c] # 0 => cpu[c] \in Procs
  BY DEF Inv, TypeOK, Procs, ProcAssumption
<1>1. \A c \in CPUs : cpu[c] = 0 <=> sch[c] = "scan"
  BY DEF Inv, CpuInv
<1>2. \A c \in CPUs : cpu[c] # 0 => state'[cpu[c]] = state[cpu[c]] /\ ctx'[cpu[c]] = ctx[cpu[c]]
  BY <1>0
<1>3. \A p \in Procs, c \in CPUs : Switching(c, p)' <=> Switching(c, p)
  BY <1>2, InitprocIs DEF Switching
<1>4. \A p \in Procs, c \in CPUs : lk'[p] = c <=> Switching(c, p)'
  BY <1>3 DEF Inv, CpuInv
<1>5. \A c \in CPUs : sch'[c] = "run" => state'[cpu'[c]] = "RUNNING"
  BY <1>1, <1>2 DEF Inv, CpuInv
<1>6. \A c \in CPUs : sch'[c] = "back" =>
        state'[cpu'[c]] \in {"RUNNABLE", "SLEEPING", "ZOMBIE"} /\ ctx'[cpu'[c]] # "run"
  BY <1>1, <1>2 DEF Inv, CpuInv
<1>7. \A p \in Procs : state'[p] = "RUNNING" \/ ctx'[p] = "run" =>
        \E c \in CPUs : cpu'[c] = p /\ sch'[c] = "run"
  BY DEF Inv, CpuInv
<1>. QED
  BY <1>1, <1>4, <1>5, <1>6, <1>7 DEF Inv, CpuInv

\* wait_lock stays where it is.
LEMMA WaitKept ==
  ASSUME ProcAssumption, Inv, UNCHANGED <<cpu, sch, wlock>>,
         \A q \in Procs : pc'[q] \in WaitLockPcs <=> pc[q] \in WaitLockPcs,
         \A q \in Procs : pc[q] \in WaitLockPcs => ctx'[q] = ctx[q]
  PROVE  WaitInv'
<1>1. \A c \in CPUs : sch[c] = "run" => cpu[c] \in Procs
  BY DEF Inv, TypeOK, CpuInv, Procs, ProcAssumption
<1>. QED
  BY <1>1 DEF Inv, WaitInv

\* No fork() begins or ends, and no process comes or goes.
LEMMA ForkKept ==
  ASSUME ProcAssumption, Inv, UNCHANGED child,
         \A q \in Procs : /\ pc'[q] \in ForkPcs <=> pc[q] \in ForkPcs
                          /\ pc'[q] = "none" <=> pc[q] = "none"
                          /\ state[q] = "USED" => state'[q] = "USED"
                          /\ state'[q] \in {"UNUSED", "ZOMBIE"} <=> state[q] \in {"UNUSED", "ZOMBIE"}
  PROVE  ForkInv'
<1>1. \A p \in Procs : child[p] # 0 => child[p] \in Procs
  BY DEF Inv, TypeOK, Procs, ProcAssumption
<1>. QED
  BY <1>1 DEF Inv, ForkInv

\* A step outside exit() and wait() leaves families and sleepers alone.
LEMMA FamilyKept ==
  ASSUME ProcAssumption, Inv, UNCHANGED <<parent, scan, wk, wlock>>,
         \A q \in Procs :
           /\ pc[q] \in WaitLockPcs \/ pc'[q] \in WaitLockPcs => pc'[q] = pc[q]
           /\ state'[q] = "UNUSED" => state[q] = "UNUSED"
           /\ state'[q] = "USED" => state[q] \in {"UNUSED", "USED"}
           /\ state'[q] = "ZOMBIE" => state[q] = "ZOMBIE"
           /\ state'[q] = "SLEEPING" => state[q] = "SLEEPING" /\ chan'[q] = chan[q]
  PROVE  ScanInv' /\ FamilyInv' /\ SleepInv'
<1>1. \A q \in Procs : parent[q] # 0 => parent[q] \in Procs
  BY DEF Inv, TypeOK, Procs, ProcAssumption
<1>2. \A q \in Procs, l \in WaitLockPcs : pc'[q] = l <=> pc[q] = l
  OBVIOUS
<1>3. ScanInv'
  <2>1. \A q \in Procs : pc'[q] \in {"wake_parent", "zombie", "wait_sleep"} =>
                         pc[q] \in {"wake_parent", "zombie", "wait_sleep"}
    BY <1>2 DEF WaitLockPcs
  <2>2. \A q \in Procs : pc[q] \in {"wake_init", "wake_parent"} =>
                         pc'[q] \in {"wake_init", "wake_parent"}
    BY <1>2 DEF WaitLockPcs
  <2>. QED
    BY <2>1, <2>2 DEF Inv, ScanInv
<1>4. FamilyInv'
  BY <1>1, <1>2 DEF Inv, FamilyInv, WaitLockPcs
<1>5. SleepInv'
  BY <1>1, <1>2 DEF Inv, SleepInv, FamilyInv, WaitLockPcs
<1>. QED
  BY <1>3, <1>4, <1>5

-----------------------------------------------------------------------------
(* scheduler() *)

LEMMA DispatchInv ==
  ASSUME ProcAssumption, Inv, NEW c \in CPUs, Dispatch(c)
  PROVE  Inv'
<1>p. PICK p : p = at[c]
  OBVIOUS
<1>0. /\ sch[c] = "scan" /\ lk[p] = Free /\ p \in Procs
      /\ UNCHANGED <<chan, killed, parent, pc, ctx, child, wlock, scan, wk>>
  BY <1>p DEF Dispatch, Inv, TypeOK
<1>a. CASE state[p] = "RUNNABLE"
  <2>1. /\ state' = [state EXCEPT ![p] = "RUNNING"]
        /\ lk' = [lk EXCEPT ![p] = c]
        /\ cpu' = [cpu EXCEPT ![c] = p]
        /\ sch' = [sch EXCEPT ![c] = "run"]
        /\ UNCHANGED at
    BY <1>a, <1>p DEF Dispatch
  <2>2. (\A d \in CPUs : cpu[d] # p) /\ ctx[p] # "run" /\ pc[p] \notin WaitLockPcs
    BY <1>0, <1>a, OffCpu
  <2>3. TypeOK'
    BY <1>0, <2>1, Pointers DEF Inv, TypeOK, States
  <2>4. /\ \A d \in CPUs : cpu'[d] = IF d = c THEN p ELSE cpu[d]
        /\ \A d \in CPUs : sch'[d] = IF d = c THEN "run" ELSE sch[d]
        /\ \A q \in Procs : lk'[q] = IF q = p THEN c ELSE lk[q]
        /\ \A q \in Procs : state'[q] = IF q = p THEN "RUNNING" ELSE state[q]
    BY <2>1 DEF Inv, TypeOK
  <2>5. p # 0 /\ \A d \in CPUs : sch[d] # "scan" => cpu[d] \in Procs \ {p}
    BY <1>0, <2>2, CpuRange, Pointers
  <2>6. CpuInv'
    <3>1. \A d \in CPUs : cpu'[d] = 0 <=> sch'[d] = "scan"
      BY <2>4, <2>5 DEF Inv, CpuInv
    <3>2. \A d, e \in CPUs : cpu'[d] = cpu'[e] /\ cpu'[d] # 0 => d = e
      BY <2>2, <2>4 DEF Inv, CpuInv
    <3>3. \A q \in Procs, d \in CPUs : lk'[q] = d <=> Switching(d, q)'
      BY <1>0, <2>2, <2>4, <2>5 DEF Inv, CpuInv, Switching, ProcAssumption
    <3>4. \A d \in CPUs : sch'[d] = "run" => state'[cpu'[d]] = "RUNNING"
      BY <1>0, <2>4, <2>5 DEF Inv, CpuInv
    <3>5. \A d \in CPUs : sch'[d] = "back" =>
            state'[cpu'[d]] \in {"RUNNABLE", "SLEEPING", "ZOMBIE"} /\ ctx'[cpu'[d]] # "run"
      BY <1>0, <2>4, <2>5 DEF Inv, CpuInv
    <3>6. \A q \in Procs : state'[q] = "RUNNING" \/ ctx'[q] = "run" =>
            \E d \in CPUs : cpu'[d] = q /\ sch'[d] = "run"
      BY <1>0, <2>4, <2>5 DEF Inv, CpuInv
    <3>. QED
      BY <3>1, <3>2, <3>3, <3>4, <3>5, <3>6 DEF CpuInv
  <2>7. WaitInv'
    BY <1>0, <2>2, <2>4 DEF Inv, WaitInv
  <2>8. ForkInv'
    BY <1>0, <1>a, <2>4, ForkKept
  <2>9. InitprocInv'
    BY <1>0, <2>4, InitprocIs DEF Inv, InitprocInv
  <2>10. ScanInv' /\ FamilyInv' /\ SleepInv'
    BY <1>0, <2>4, FamilyKept
  <2>. QED
    BY <2>3, <2>6, <2>7, <2>8, <2>9, <2>10 DEF Inv
<1>b. CASE state[p] # "RUNNABLE"
  <2>1. at' = [at EXCEPT ![c] = After(p)] /\ UNCHANGED <<state, lk, cpu, sch>>
    BY <1>b, <1>p DEF Dispatch
  <2>2. TypeOK'
    BY <1>0, <2>1, AfterType DEF Inv, TypeOK
  <2>3. CpuInv' /\ WaitInv' /\ ForkInv' /\ InitprocInv'
    BY <1>0, <2>1 DEF Inv, CpuInv, Switching, WaitInv, ForkInv, InitprocInv
  <2>4. ScanInv' /\ FamilyInv' /\ SleepInv'
    BY <1>0, <2>1 DEF Inv, ScanInv, FamilyInv, SleepInv
  <2>. QED
    BY <2>2, <2>3, <2>4 DEF Inv
<1>. QED
  BY <1>a, <1>b

LEMMA SwitchBackInv ==
  ASSUME ProcAssumption, Inv, NEW c \in CPUs, SwitchBack(c)
  PROVE  Inv'
<1>p. PICK p : p = cpu[c]
  OBVIOUS
<1>0. /\ sch[c] = "back"
      /\ cpu' = [cpu EXCEPT ![c] = 0]
      /\ lk' = [lk EXCEPT ![p] = Free]
      /\ sch' = [sch EXCEPT ![c] = "scan"]
      /\ at' = [at EXCEPT ![c] = After(p)]
      /\ UNCHANGED <<state, chan, killed, parent, pc, ctx, child, wlock, scan, wk>>
  BY <1>p DEF SwitchBack
<1>1. p \in Procs /\ \A d \in CPUs : cpu[d] = p => d = c
  BY <1>0, <1>p DEF Inv, TypeOK, CpuInv, Procs, ProcAssumption
<1>2. /\ \A d \in CPUs : cpu'[d] = IF d = c THEN 0 ELSE cpu[d]
      /\ \A d \in CPUs : sch'[d] = IF d = c THEN "scan" ELSE sch[d]
      /\ \A q \in Procs : lk'[q] = IF q = p THEN Free ELSE lk[q]
  BY <1>0 DEF Inv, TypeOK
<1>3. TypeOK'
  <2>1. After(p) \in Procs
    BY <1>1, AfterType
  <2>. QED
    BY <1>0, <1>1, <2>1, Pointers DEF Inv, TypeOK
<1>4. CpuInv'
  <2>1. \A d \in CPUs : cpu'[d] = 0 <=> sch'[d] = "scan"
    BY <1>2 DEF Inv, CpuInv
  <2>2. \A d, e \in CPUs : cpu'[d] = cpu'[e] /\ cpu'[d] # 0 => d = e
    BY <1>2 DEF Inv, CpuInv
  <2>3. \A q \in Procs, d \in CPUs : lk'[q] = d <=> Switching(d, q)'
    BY <1>0, <1>1, <1>2, <1>p, InitprocIs DEF Inv, CpuInv, Switching, ProcAssumption
  <2>4. \A d \in CPUs : sch'[d] = "run" => state'[cpu'[d]] = "RUNNING"
    BY <1>0, <1>2 DEF Inv, CpuInv
  <2>5. \A d \in CPUs : sch'[d] = "back" =>
          state'[cpu'[d]] \in {"RUNNABLE", "SLEEPING", "ZOMBIE"} /\ ctx'[cpu'[d]] # "run"
    BY <1>0, <1>2 DEF Inv, CpuInv
  <2>6. \A q \in Procs : state'[q] = "RUNNING" \/ ctx'[q] = "run" =>
          \E d \in CPUs : cpu'[d] = q /\ sch'[d] = "run"
    BY <1>0, <1>2 DEF Inv, CpuInv
  <2>. QED
    BY <2>1, <2>2, <2>3, <2>4, <2>5, <2>6 DEF CpuInv
<1>5. WaitInv'
  BY <1>0, <1>2 DEF Inv, WaitInv
<1>6. ForkInv' /\ InitprocInv' /\ ScanInv' /\ FamilyInv' /\ SleepInv'
  BY <1>0 DEF Inv, ForkInv, InitprocInv, ScanInv, FamilyInv, SleepInv
<1>. QED
  BY <1>3, <1>4, <1>5, <1>6 DEF Inv

LEMMA ResumeInv ==
  ASSUME ProcAssumption, Inv, NEW c \in CPUs, Resume(c)
  PROVE  Inv'
<1>p. PICK p : p = cpu[c]
  OBVIOUS
<1>0. /\ sch[c] = "run" /\ ctx[p] # "run"
      /\ lk' = [lk EXCEPT ![p] = Free]
      /\ chan' = [chan EXCEPT ![p] = IF ctx[p] = "sleep" THEN 0 ELSE @]
      /\ ctx' = [ctx EXCEPT ![p] = "run"]
      /\ UNCHANGED <<state, killed, parent, pc, child, wlock, scan, wk, cpu, sch, at>>
  BY <1>p DEF Resume
<1>1. p \in Procs /\ state[p] = "RUNNING" /\ \A d \in CPUs : cpu[d] = p => d = c
  BY <1>0, <1>p DEF Inv, TypeOK, CpuInv, Procs, ProcAssumption
<1>2. /\ \A q \in Procs : lk'[q] = IF q = p THEN Free ELSE lk[q]
      /\ \A q \in Procs : ctx'[q] = IF q = p THEN "run" ELSE ctx[q]
      /\ \A q \in Procs \ {p} : chan'[q] = chan[q]
  BY <1>0, <1>1 DEF Inv, TypeOK
<1>3. TypeOK'
  BY <1>0, <1>1 DEF Inv, TypeOK, ProcAssumption
<1>4. CpuInv'
  <2>1. \A q \in Procs, d \in CPUs : lk'[q] = d <=> Switching(d, q)'
    <3>1. \A q \in Procs, d \in CPUs : lk[q] = d <=> Switching(d, q)
      BY DEF Inv, CpuInv
    <3>2. cpu' = cpu /\ sch' = sch /\ sch[c] = "run" /\ cpu[c] = p /\ Free \notin CPUs
      BY <1>0, <1>p DEF ProcAssumption
    <3>. QED
      BY <1>1, <1>2, <3>1, <3>2 DEF Switching
  <2>2. \A d \in CPUs : sch'[d] = "back" => cpu[d] \in Procs \ {p}
    BY <1>0, <1>1, <1>p, CpuRange
  <2>3. \A d \in CPUs : sch'[d] = "back" =>
          state'[cpu'[d]] \in {"RUNNABLE", "SLEEPING", "ZOMBIE"} /\ ctx'[cpu'[d]] # "run"
    BY <1>0, <1>2, <2>2 DEF Inv, CpuInv
  <2>4. \A q \in Procs : state'[q] = "RUNNING" \/ ctx'[q] = "run" =>
          \E d \in CPUs : cpu'[d] = q /\ sch'[d] = "run"
    BY <1>0, <1>1, <1>2 DEF Inv, CpuInv
  <2>5. /\ \A d \in CPUs : cpu'[d] = 0 <=> sch'[d] = "scan"
        /\ \A d, e \in CPUs : cpu'[d] = cpu'[e] /\ cpu'[d] # 0 => d = e
        /\ \A d \in CPUs : sch'[d] = "run" => state'[cpu'[d]] = "RUNNING"
    BY <1>0 DEF Inv, CpuInv
  <2>. QED
    BY <2>1, <2>3, <2>4, <2>5 DEF CpuInv
<1>5. WaitInv'
  BY <1>0, <1>2 DEF Inv, WaitInv
<1>6. ForkInv' /\ InitprocInv'
  BY <1>0 DEF Inv, ForkInv, InitprocInv
<1>7. ScanInv' /\ FamilyInv' /\ SleepInv'
  BY <1>0, <1>1, <1>2, FamilyKept
<1>. QED
  BY <1>3, <1>4, <1>5, <1>6, <1>7 DEF Inv

-----------------------------------------------------------------------------
(* sched() and usertrap() *)

\* What a process that calls sched() has done: the types, and which of its CPU's
\* and its own fields differ.
SwitchedAway(c, p, s) ==
  /\ CpuInv'
  /\ state' \in [Procs -> States]
  /\ ctx' \in [Procs -> {"none", "forkret", "run", "yield", "sleep", "exit"}]
  /\ lk' \in [Procs -> CPUs \cup {Free}]
  /\ sch' \in [CPUs -> {"scan", "run", "back"}]
  /\ \A d \in CPUs : sch'[d] = IF d = c THEN "back" ELSE sch[d]
  /\ \A q \in Procs : state'[q] = IF q = p THEN s ELSE state[q]
  /\ ctx'[p] # "run" /\ \A q \in Procs \ {p} : ctx'[q] = ctx[q]

\* The process side of a switch away from p.
LEMMA SchedCpu ==
  ASSUME ProcAssumption, Inv, NEW c \in CPUs, NEW p \in Procs, p = cpu[c], sch[c] = "run",
         NEW s \in {"RUNNABLE", "SLEEPING", "ZOMBIE"}, NEW f \in {"yield", "sleep", "exit"},
         Sched(c, p, s, f), UNCHANGED cpu
  PROVE  SwitchedAway(c, p, s)
<1>0. /\ lk[p] = Free
      /\ lk' = [lk EXCEPT ![p] = c] /\ state' = [state EXCEPT ![p] = s]
      /\ ctx' = [ctx EXCEPT ![p] = f] /\ sch' = [sch EXCEPT ![c] = "back"]
  BY DEF Sched
<1>1. /\ state' \in [Procs -> States]
      /\ ctx' \in [Procs -> {"none", "forkret", "run", "yield", "sleep", "exit"}]
      /\ lk' \in [Procs -> CPUs \cup {Free}]
      /\ sch' \in [CPUs -> {"scan", "run", "back"}]
  BY <1>0 DEF Inv, TypeOK, States
<1>2. /\ \A d \in CPUs : sch'[d] = IF d = c THEN "back" ELSE sch[d]
      /\ \A q \in Procs : lk'[q] = IF q = p THEN c ELSE lk[q]
      /\ \A q \in Procs : state'[q] = IF q = p THEN s ELSE state[q]
      /\ \A q \in Procs : ctx'[q] = IF q = p THEN f ELSE ctx[q]
  BY <1>0 DEF Inv, TypeOK
<1>3. p # 0 /\ \A d \in CPUs : cpu[d] = p => d = c
  BY Pointers DEF Inv, CpuInv
<1>4. \A d \in CPUs \ {c} : sch[d] # "scan" => cpu[d] \in Procs \ {p}
  BY <1>3, CpuRange
<1>5. CpuInv'
  <2>1. \A d \in CPUs : cpu'[d] = 0 <=> sch'[d] = "scan"
    BY <1>2, <1>3 DEF Inv, CpuInv
  <2>2. \A d, e \in CPUs : cpu'[d] = cpu'[e] /\ cpu'[d] # 0 => d = e
    BY DEF Inv, CpuInv
  <2>3. \A q \in Procs, d \in CPUs : lk'[q] = d <=> Switching(d, q)'
    BY <1>0, <1>2, <1>3 DEF Inv, CpuInv, Switching, ProcAssumption
  <2>4. \A d \in CPUs : sch'[d] = "run" => state'[cpu'[d]] = "RUNNING"
    <3>1. \A d \in CPUs : sch[d] = "run" => state[cpu[d]] = "RUNNING"
      BY DEF Inv, CpuInv
    <3>. QED
      BY <1>2, <1>4, <3>1
  <2>5. \A d \in CPUs : sch'[d] = "back" =>
          state'[cpu'[d]] \in {"RUNNABLE", "SLEEPING", "ZOMBIE"} /\ ctx'[cpu'[d]] # "run"
    BY <1>2, <1>4 DEF Inv, CpuInv
  <2>6. \A q \in Procs : state'[q] = "RUNNING" \/ ctx'[q] = "run" =>
          \E d \in CPUs : cpu'[d] = q /\ sch'[d] = "run"
    BY <1>2 DEF Inv, CpuInv
  <2>. QED
    BY <2>1, <2>2, <2>3, <2>4, <2>5, <2>6 DEF CpuInv
<1>. QED
  BY <1>1, <1>2, <1>5 DEF SwitchedAway

LEMMA YieldInv ==
  ASSUME ProcAssumption, Inv, NEW c \in CPUs, Yield(c)
  PROVE  Inv'
<1>p. PICK p : p = cpu[c]
  OBVIOUS
<1>l. PICK l \in OpenPcs : At(c, l)
  BY DEF Yield
<1>0. /\ Sched(c, p, "RUNNABLE", "yield")
      /\ pc' = [pc EXCEPT ![p] = IF pc[p] = "yield" THEN "user" ELSE pc[p]]
      /\ UNCHANGED <<chan, killed, parent, child, wlock, scan, wk, cpu, at>>
  BY <1>p DEF Yield, Goto
<1>1. /\ p \in Procs /\ sch[c] = "run" /\ state[p] = "RUNNING" /\ pc[p] \in OpenPcs
      /\ \A d \in CPUs : cpu[d] = p => d = c
      /\ pc[p] \notin WaitLockPcs /\ wlock # c
  BY <1>p, <1>l, RunFacts, PcFacts
<1>2. /\ CpuInv'
      /\ state' \in [Procs -> States]
      /\ ctx' \in [Procs -> {"none", "forkret", "run", "yield", "sleep", "exit"}]
      /\ lk' \in [Procs -> CPUs \cup {Free}]
      /\ sch' \in [CPUs -> {"scan", "run", "back"}]
      /\ \A d \in CPUs : sch'[d] = IF d = c THEN "back" ELSE sch[d]
      /\ \A q \in Procs : state'[q] = IF q = p THEN "RUNNABLE" ELSE state[q]
      /\ ctx'[p] # "run" /\ \A q \in Procs \ {p} : ctx'[q] = ctx[q]
  <2>1. Sched(c, p, "RUNNABLE", "yield") /\ UNCHANGED cpu
    BY <1>0
  <2>2. SwitchedAway(c, p, "RUNNABLE")
    BY <1>1, <1>p, <2>1, SchedCpu
  <2>. QED
    BY <2>2 DEF SwitchedAway
<1>3. /\ pc' \in [Procs -> Pcs]
      /\ \A q \in Procs \ {p} : pc'[q] = pc[q]
      /\ pc'[p] = IF pc[p] = "yield" THEN "user" ELSE pc[p]
  BY <1>0, <1>1 DEF Inv, TypeOK, Pcs
<1>4. pc'[p] \in OpenPcs \cup {"user"} /\ pc'[p] \notin WaitLockPcs /\ pc'[p] # "none"
      /\ (pc'[p] \in ForkPcs <=> pc[p] \in ForkPcs)
  BY <1>1, <1>3 DEF OpenPcs, WaitLockPcs, ForkPcs
<1>5. TypeOK'
  BY <1>0, <1>2, <1>3 DEF Inv, TypeOK
<1>6. WaitInv'
  <2>1. \A d \in CPUs \ {c} : sch[d] = "run" => cpu[d] \in Procs \ {p}
    BY <1>1, CpuRange
  <2>. QED
    BY <1>0, <1>1, <1>2, <1>3, <1>4, <2>1, <1>p DEF Inv, WaitInv
<1>7. ForkInv'
  <2>1. pc[p] # "none"
    BY <1>1 DEF OpenPcs
  <2>. QED
    BY <1>0, <1>1, <1>2, <1>3, <1>4, <2>1, ForkKept
<1>8. InitprocInv'
  <2>1. pc'[p] \in ExitPcs => pc[p] \in ExitPcs
    BY <1>1, <1>3 DEF ExitPcs
  <2>. QED
    BY <1>0, <1>2, <1>3, <1>4, <2>1, InitprocIs DEF Inv, InitprocInv
<1>9. ScanInv' /\ FamilyInv' /\ SleepInv'
  BY <1>0, <1>1, <1>2, <1>3, <1>4, FamilyKept
<1>. QED
  BY <1>2, <1>5, <1>6, <1>7, <1>8, <1>9 DEF Inv

\* A process that goes from one point without wait_lock to another, outside
\* fork().
LEMMA GotoInv ==
  ASSUME ProcAssumption, Inv, NEW c \in CPUs, NEW p, p = cpu[c],
         NEW k \in {"user", "ret", "fork_alloc"}, At(c, k),
         NEW l \in {"user", "ret", "fork_alloc", "wait_lock", "yield", "kill", "exit_lock"},
         p = initproc => l # "exit_lock", Goto(p, l),
         UNCHANGED <<state, chan, killed, parent, ctx, child, lk, wlock, scan, wk, cpu, sch, at>>
  PROVE  Inv'
<1>1. p \in Procs /\ pc[p] = k
  BY RunFacts
<1>2. \A q \in Procs : pc'[q] = IF q = p THEN l ELSE pc[q]
  BY <1>1 DEF Goto, Inv, TypeOK
<1>3. /\ l \in Pcs /\ l \notin WaitLockPcs /\ l \notin ForkPcs /\ l # "none"
      /\ k \notin WaitLockPcs /\ k \notin ForkPcs /\ k # "none"
  BY DEF Pcs, OpenPcs, WaitLockPcs, ForkPcs
<1>4. TypeOK'
  BY <1>3 DEF Goto, Inv, TypeOK
<1>5. CpuInv'
  BY CpuKept
<1>6. WaitInv'
  BY <1>1, <1>2, <1>3, WaitKept
<1>7. ForkInv'
  BY <1>1, <1>2, <1>3, ForkKept
<1>8. InitprocInv'
  BY <1>2, <1>3, InitprocIs DEF Inv, InitprocInv, ExitPcs
<1>9. ScanInv' /\ FamilyInv' /\ SleepInv'
  BY <1>1, <1>2, <1>3, FamilyKept
<1>. QED
  BY <1>4, <1>5, <1>6, <1>7, <1>8, <1>9 DEF Inv

LEMMA UserTrapInv ==
  ASSUME ProcAssumption, Inv, NEW c \in CPUs, UserTrap(c)
  PROVE  Inv'
<1>p. PICK p : p = cpu[c]
  OBVIOUS
<1>0. /\ At(c, "user")
      /\ IF killed[p] THEN Goto(p, "exit_lock") ELSE \E l \in Traps(p) : Goto(p, l)
      /\ UNCHANGED <<state, chan, killed, parent, ctx, child, lk, wlock, scan, wk, cpu, sch, at>>
  BY <1>p DEF UserTrap
<1>1. PICK l \in {"fork_alloc", "wait_lock", "yield", "kill", "exit_lock"} :
        Goto(p, l) /\ (p = initproc => l # "exit_lock")
  <2>1. CASE killed[p]
    BY <1>0, <2>1 DEF Inv, InitprocInv
  <2>2. CASE ~killed[p]
    BY <1>0, <2>2 DEF Traps
  <2>. QED
    BY <2>1, <2>2
<1>. QED
  BY <1>0, <1>1, <1>p, GotoInv

LEMMA UserRetInv ==
  ASSUME ProcAssumption, Inv, NEW c \in CPUs, UserRet(c)
  PROVE  Inv'
<1>p. PICK p : p = cpu[c]
  OBVIOUS
<1>0. /\ At(c, "ret") /\ Goto(p, IF killed[p] THEN "exit_lock" ELSE "user")
      /\ UNCHANGED <<state, chan, killed, parent, ctx, child, lk, wlock, scan, wk, cpu, sch, at>>
  BY <1>p DEF UserRet
<1>1. PICK l \in {"user", "exit_lock"} : Goto(p, l) /\ (p = initproc => l # "exit_lock")
  BY <1>0 DEF Inv, InitprocInv
<1>. QED
  BY <1>0, <1>1, <1>p, GotoInv

-----------------------------------------------------------------------------
(* fork() and kill() *)

LEMMA ForkAllocInv ==
  ASSUME ProcAssumption, Inv, NEW c \in CPUs, ForkAlloc(c)
  PROVE  Inv'
<1>p. PICK p : p = cpu[c]
  OBVIOUS
<1>0. /\ At(c, "fork_alloc")
      /\ UNCHANGED <<chan, killed, parent, lk, wlock, scan, wk, cpu, sch, at>>
  BY DEF ForkAlloc
<1>1. p \in Procs /\ pc[p] = "fork_alloc" /\ state[p] = "RUNNING"
  BY <1>0, <1>p, RunFacts
<1>a. ASSUME NEW np \in Procs, state[np] = "UNUSED", lk[np] = Free,
             state' = [state EXCEPT ![np] = "USED"],
             ctx' = [ctx EXCEPT ![np] = "forkret"],
             pc' = [pc EXCEPT ![p] = "fork_link", ![np] = "user"],
             child' = [child EXCEPT ![p] = np]
      PROVE  Inv'
  <2>1. np # p /\ pc[np] = "none"
    BY <1>a, <1>1 DEF Inv, ForkInv
  <2>2. (\A d \in CPUs : cpu[d] # np) /\ ctx[np] # "run" /\ pc[np] \notin WaitLockPcs
    BY <1>a, OffCpu
  <2>3. /\ \A q \in Procs : state'[q] = IF q = np THEN "USED" ELSE state[q]
        /\ \A q \in Procs : ctx'[q] = IF q = np THEN "forkret" ELSE ctx[q]
        /\ \A q \in Procs : pc'[q] = IF q = p THEN "fork_link" ELSE IF q = np THEN "user" ELSE pc[q]
        /\ \A q \in Procs : child'[q] = IF q = p THEN np ELSE child[q]
    BY <1>a, <1>1, <2>1 DEF Inv, TypeOK
  <2>4. TypeOK'
    <3>1. "USED" \in States /\ "fork_link" \in Pcs /\ "user" \in Pcs /\ np \in 0 .. NPROC
      BY Pointers DEF States, Pcs, OpenPcs
    <3>. QED
      BY <1>0, <1>a, <3>1 DEF Inv, TypeOK
  <2>5. CpuInv'
    BY <1>0, <2>2, <2>3, CpuKept
  <2>6. WaitInv'
    <3>1. \A q \in Procs : pc'[q] \in WaitLockPcs <=> pc[q] \in WaitLockPcs
      BY <1>1, <2>2, <2>3 DEF WaitLockPcs
    <3>. QED
      BY <1>0, <2>2, <2>3, <3>1, WaitKept
  <2>7. ForkInv'
    <3>1. child[np] = 0 /\ child[p] = 0 /\ np # 0
      BY <1>1, <2>1, Pointers DEF Inv, ForkInv, ForkPcs
    <3>2. \A q \in Procs : child[q] # np
      BY <1>a, <3>1 DEF Inv, ForkInv
    <3>3. \A q \in Procs : child'[q] # 0 <=> pc'[q] \in ForkPcs
      BY <2>1, <2>3, <3>1 DEF Inv, ForkInv, ForkPcs
    <3>4. \A q \in Procs : child'[q] # 0 => state'[child'[q]] = "USED"
      <4>1. \A q \in Procs : child[q] # 0 => child[q] \in Procs
        BY Pointers DEF Inv, TypeOK
      <4>. QED
        BY <2>3, <4>1 DEF Inv, ForkInv
    <3>5. \A q, r \in Procs : child'[q] = child'[r] /\ child'[q] # 0 => q = r
      BY <2>3, <3>2 DEF Inv, ForkInv
    <3>6. \A q \in Procs : pc'[q] = "none" <=> state'[q] \in {"UNUSED", "ZOMBIE"}
      BY <1>1, <2>1, <2>3 DEF Inv, ForkInv
    <3>. QED
      BY <3>3, <3>4, <3>5, <3>6 DEF ForkInv
  <2>8. InitprocInv'
    <3>1. np # initproc
      BY <2>1 DEF Inv, InitprocInv
    <3>. QED
      BY <1>0, <2>3, <3>1, InitprocIs DEF Inv, InitprocInv, ExitPcs
  <2>9. ScanInv' /\ FamilyInv' /\ SleepInv'
    <3>1. \A q \in Procs : pc[q] \in WaitLockPcs \/ pc'[q] \in WaitLockPcs => pc'[q] = pc[q]
      BY <1>1, <2>2, <2>3 DEF WaitLockPcs
    <3>2. UNCHANGED <<parent, scan, wk, wlock>> /\ UNCHANGED chan
      BY <1>0
    <3>3. \A q \in Procs : state'[q] = state[q] \/ (state'[q] = "USED" /\ state[q] = "UNUSED")
      BY <1>a, <2>3
    <3>. QED
      BY <3>1, <3>2, <3>3, FamilyKept
  <2>. QED
    BY <2>4, <2>5, <2>6, <2>7, <2>8, <2>9 DEF Inv
<1>b. CASE Goto(p, "ret") /\ UNCHANGED <<state, ctx, child>>
  BY <1>0, <1>b, <1>p, GotoInv
<1>. QED
  BY <1>a, <1>b, <1>p DEF ForkAlloc

LEMMA ForkLinkInv ==
  ASSUME ProcAssumption, Inv, NEW c \in CPUs, ForkLink(c)
  PROVE  Inv'
<1>p. PICK p : p = cpu[c]
  OBVIOUS
<1>n. PICK np : np = child[p]
  OBVIOUS
<1>0. /\ At(c, "fork_link") /\ wlock = Free
      /\ parent' = [parent EXCEPT ![np] = p]
      /\ pc' = [pc EXCEPT ![p] = "fork_ready"]
      /\ UNCHANGED <<state, chan, killed, ctx, child, lk, wlock, scan, wk, cpu, sch, at>>
  BY <1>p, <1>n DEF ForkLink, Goto
<1>1. p \in Procs /\ pc[p] = "fork_link" /\ state[p] = "RUNNING"
  BY <1>0, <1>p, RunFacts
<1>2. np \in Procs /\ state[np] = "USED"
  BY <1>1, <1>n, Pointers DEF Inv, TypeOK, ForkInv, ForkPcs
<1>3. /\ \A q \in Procs : pc'[q] = IF q = p THEN "fork_ready" ELSE pc[q]
      /\ \A q \in Procs : parent'[q] = IF q = np THEN p ELSE parent[q]
  BY <1>0, <1>1, <1>2 DEF Inv, TypeOK
<1>4. \A q \in Procs : pc[q] \notin WaitLockPcs
  BY <1>0, OneWaiter
<1>5. \A q \in Procs : pc'[q] \notin WaitLockPcs
  BY <1>3, <1>4 DEF WaitLockPcs
<1>6. TypeOK'
  <2>1. "fork_ready" \in Pcs /\ p \in 0 .. NPROC
    BY <1>1, Pointers DEF Pcs, OpenPcs
  <2>. QED
    BY <1>0, <2>1 DEF Inv, TypeOK
<1>7. CpuInv'
  BY <1>0, CpuKept
<1>8. WaitInv'
  BY <1>0, <1>4, <1>5, WaitKept
<1>9. ForkInv'
  BY <1>0, <1>1, <1>3, ForkKept DEF ForkPcs
<1>10. InitprocInv'
  BY <1>0, <1>3, InitprocIs DEF Inv, InitprocInv, ExitPcs
<1>11. ScanInv'
  BY <1>0, <1>4, <1>5 DEF Inv, ScanInv, WaitLockPcs
<1>12. \A q \in Procs : parent'[q] # 0 => parent'[q] \in Procs
  BY <1>1, <1>3, Pointers DEF Inv, TypeOK
<1>13. FamilyInv'
  BY <1>0, <1>1, <1>2, <1>3, <1>5, <1>12 DEF Inv, FamilyInv, WaitLockPcs
<1>14. SleepInv'
  <2>1. \A q \in Procs : parent[q] # 0 => ~(state[parent[q]] = "SLEEPING" /\ state[q] = "ZOMBIE")
    BY <1>4 DEF Inv, SleepInv, WaitLockPcs
  <2>. QED
    BY <1>0, <1>1, <1>2, <1>3, <1>5, <1>12, <2>1 DEF Inv, SleepInv, WaitLockPcs
<1>. QED
  BY <1>6, <1>7, <1>8, <1>9, <1>10, <1>11, <1>13, <1>14 DEF Inv

LEMMA ForkReadyInv ==
  ASSUME ProcAssumption, Inv, NEW c \in CPUs, ForkReady(c)
  PROVE  Inv'
<1>p. PICK p : p = cpu[c]
  OBVIOUS
<1>n. PICK np : np = child[p]
  OBVIOUS
<1>0. /\ At(c, "fork_ready") /\ lk[np] = Free
      /\ state' = [state EXCEPT ![np] = "RUNNABLE"]
      /\ child' = [child EXCEPT ![p] = 0]
      /\ pc' = [pc EXCEPT ![p] = "ret"]
      /\ UNCHANGED <<chan, killed, parent, ctx, lk, wlock, scan, wk, cpu, sch, at>>
  BY <1>p, <1>n DEF ForkReady, Goto
<1>1. p \in Procs /\ pc[p] = "fork_ready" /\ state[p] = "RUNNING"
  <2>1. At(c, "fork_ready")
    BY <1>0
  <2>. QED
    BY <1>p, <2>1, RunFacts
<1>2. np \in Procs /\ state[np] = "USED"
  BY <1>1, <1>n, Pointers DEF Inv, TypeOK, ForkInv, ForkPcs
<1>3. /\ \A q \in Procs : pc'[q] = IF q = p THEN "ret" ELSE pc[q]
      /\ \A q \in Procs : state'[q] = IF q = np THEN "RUNNABLE" ELSE state[q]
      /\ \A q \in Procs : child'[q] = IF q = p THEN 0 ELSE child[q]
  BY <1>0, <1>1, <1>2 DEF Inv, TypeOK
<1>4. (\A d \in CPUs : cpu[d] # np) /\ ctx[np] # "run" /\ pc[np] \notin WaitLockPcs
  BY <1>0, <1>2, OffCpu
<1>5. \A q \in Procs : pc[q] \in WaitLockPcs \/ pc'[q] \in WaitLockPcs => pc'[q] = pc[q]
  BY <1>1, <1>3 DEF WaitLockPcs
<1>6. TypeOK'
  <2>1. "ret" \in Pcs /\ "RUNNABLE" \in States /\ 0 \in 0 .. NPROC
    BY Pointers DEF Pcs, OpenPcs, States
  <2>. QED
    BY <1>0, <2>1 DEF Inv, TypeOK
<1>7. CpuInv'
  BY <1>0, <1>3, <1>4, CpuKept
<1>8. WaitInv'
  BY <1>0, <1>5, WaitKept
<1>9. ForkInv'
  <2>1. \A q \in Procs : child'[q] # 0 <=> pc'[q] \in ForkPcs
    BY <1>3 DEF Inv, ForkInv, ForkPcs
  <2>2. \A q \in Procs : child'[q] # 0 => state'[child'[q]] = "USED"
    <3>1. \A q \in Procs : child[q] # 0 => child[q] \in Procs
      BY Pointers DEF Inv, TypeOK
    <3>2. \A q \in Procs \ {p} : child[q] # 0 => child[q] # np
      BY <1>1, <1>n DEF Inv, ForkInv
    <3>. QED
      BY <1>3, <3>1, <3>2 DEF Inv, ForkInv
  <2>3. \A q, r \in Procs : child'[q] = child'[r] /\ child'[q] # 0 => q = r
    BY <1>3 DEF Inv, ForkInv
  <2>4. \A q \in Procs : pc'[q] = "none" <=> state'[q] \in {"UNUSED", "ZOMBIE"}
    BY <1>1, <1>2, <1>3 DEF Inv, ForkInv
  <2>. QED
    BY <2>1, <2>2, <2>3, <2>4 DEF ForkInv
<1>10. InitprocInv'
  BY <1>0, <1>3, InitprocIs DEF Inv, InitprocInv, ExitPcs
<1>11. ScanInv' /\ FamilyInv' /\ SleepInv'
  BY <1>0, <1>3, <1>5, FamilyKept
<1>. QED
  BY <1>6, <1>7, <1>8, <1>9, <1>10, <1>11 DEF Inv

LEMMA KillInv ==
  ASSUME ProcAssumption, Inv, NEW c \in CPUs, Kill(c)
  PROVE  Inv'
<1>p. PICK p : p = cpu[c]
  OBVIOUS
<1>0. /\ At(c, "kill") /\ pc' = [pc EXCEPT ![p] = "ret"]
      /\ UNCHANGED <<chan, parent, ctx, child, lk, wlock, scan, wk, cpu, sch, at>>
  BY <1>p DEF Kill, Goto
<1>1. p \in Procs /\ pc[p] = "kill"
  BY <1>0, <1>p, RunFacts
<1>2. \A q \in Procs : pc'[q] = IF q = p THEN "ret" ELSE pc[q]
  BY <1>0, <1>1 DEF Inv, TypeOK
<1>3. /\ state' \in [Procs -> States] /\ killed' \in [Procs -> BOOLEAN]
      /\ killed'[initproc] = killed[initproc]
      /\ \A q \in Procs : \/ state'[q] = state[q]
                          \/ lk[q] = Free /\ state[q] = "SLEEPING" /\ state'[q] = "RUNNABLE"
  <2>1. ASSUME NEW q \in Procs \ {initproc}, lk[q] = Free, MarkKilled(q)
        PROVE  /\ state' \in [Procs -> States] /\ killed' \in [Procs -> BOOLEAN]
               /\ killed'[initproc] = killed[initproc]
               /\ \A r \in Procs : \/ state'[r] = state[r]
                                   \/ lk[r] = Free /\ state[r] = "SLEEPING" /\ state'[r] = "RUNNABLE"
    BY <2>1, InitprocIs DEF MarkKilled, Inv, TypeOK, States
  <2>2. CASE UNCHANGED <<killed, state>>
    BY <2>2 DEF Inv, TypeOK
  <2>. QED
    BY <2>1, <2>2 DEF Kill
<1>4. \A q \in Procs : \/ state'[q] = state[q]
                       \/ /\ \A d \in CPUs : cpu[d] # q
                          /\ ctx[q] # "run" /\ state[q] = "SLEEPING" /\ state'[q] = "RUNNABLE"
  BY <1>3, OffCpu
<1>5. \A q \in Procs : pc[q] \in WaitLockPcs \/ pc'[q] \in WaitLockPcs => pc'[q] = pc[q]
  BY <1>1, <1>2 DEF WaitLockPcs
<1>6. TypeOK'
  <2>1. "ret" \in Pcs
    BY DEF Pcs, OpenPcs
  <2>. QED
    BY <1>0, <1>3, <2>1 DEF Inv, TypeOK
<1>7. CpuInv'
  BY <1>0, <1>4, CpuKept
<1>8. WaitInv'
  BY <1>0, <1>5, WaitKept
<1>9. ForkInv'
  BY <1>0, <1>1, <1>2, <1>4, ForkKept DEF ForkPcs
<1>10. InitprocInv'
  BY <1>2, <1>3, InitprocIs DEF Inv, InitprocInv, ExitPcs
<1>11. ScanInv' /\ FamilyInv' /\ SleepInv'
  BY <1>0, <1>4, <1>5, FamilyKept
<1>. QED
  BY <1>6, <1>7, <1>8, <1>9, <1>10, <1>11 DEF Inv

-----------------------------------------------------------------------------
(* exit() and wait() *)

\* acquire(&wait_lock) by a process at k, which goes on at l.
LEMMA TakeWaitLock ==
  ASSUME ProcAssumption, Inv, NEW c \in CPUs, NEW p, p = cpu[c],
         NEW k \in {"exit_lock", "wait_lock"}, At(c, k),
         NEW l \in {"reparent", "wait_scan"}, k = "wait_lock" => l = "wait_scan",
         wlock = Free, wlock' = c, Goto(p, l),
         UNCHANGED <<state, chan, killed, parent, ctx, child, lk, scan, wk, cpu, sch, at>>
  PROVE  Inv'
<1>1. /\ p \in Procs /\ pc[p] = k /\ ctx[p] = "run" /\ sch[c] = "run" /\ p # 0
      /\ \A d \in CPUs : cpu[d] = p => d = c
  <2>1. sch[c] = "run" /\ ctx[p] = "run" /\ pc[p] = k
    BY DEF At
  <2>2. p \in Procs /\ p # 0
    BY <2>1, CpuRange, Pointers
  <2>3. \A d \in CPUs : cpu[d] = p => d = c
    BY <2>2 DEF Inv, CpuInv
  <2>. QED
    BY <2>1, <2>2, <2>3
<1>2. \A q \in Procs : pc'[q] = IF q = p THEN l ELSE pc[q]
  BY <1>1 DEF Goto, Inv, TypeOK
<1>3. \A q \in Procs : pc[q] \notin WaitLockPcs
  BY OneWaiter
<1>4. l \in WaitLockPcs /\ l \in Pcs /\ l \notin ForkPcs /\ l # "none" /\ k \notin ForkPcs /\ k # "none"
  BY DEF Pcs, WaitLockPcs, ForkPcs
<1>5. scan = 1 /\ wk = 1
  BY <1>3 DEF Inv, ScanInv, WaitLockPcs
<1>6. TypeOK'
  BY <1>4 DEF Goto, Inv, TypeOK
<1>7. CpuInv'
  BY CpuKept
<1>8. WaitInv'
  <2>1. \A d \in CPUs : sch[d] = "run" => cpu[d] \in Procs
    BY CpuRange
  <2>2. \A d \in CPUs : wlock' = d <=> sch'[d] = "run" /\ pc'[cpu'[d]] \in WaitLockPcs
    BY <1>1, <1>2, <1>3, <1>4, <2>1
  <2>3. \A q \in Procs : pc'[q] \in WaitLockPcs => ctx'[q] = "run"
    BY <1>1, <1>2, <1>3
  <2>. QED
    BY <2>2, <2>3 DEF WaitInv
<1>9. ForkInv'
  BY <1>1, <1>2, <1>4, ForkKept
<1>10. InitprocInv'
  <2>1. p = initproc => l = "wait_scan"
    BY <1>1 DEF Inv, InitprocInv, ExitPcs
  <2>. QED
    BY <1>2, <2>1, InitprocIs DEF Inv, InitprocInv, ExitPcs
<1>11. ScanInv'
  BY <1>5 DEF Inv, ScanInv
<1>12. \A q \in Procs : parent[q] # 0 => parent[q] \in Procs
  BY Pointers DEF Inv, TypeOK
<1>13. FamilyInv'
  <2>1. \A q \in Procs : q >= 1
    BY DEF Procs
  <2>. QED
    BY <1>2, <1>5, <1>12, <2>1 DEF Inv, FamilyInv
<1>14. SleepInv'
  <2>1. \A q \in Procs : ~(q < 1)
    BY DEF Procs
  <2>2. \A q \in Procs : parent[q] # 0 => ~(state[parent[q]] = "SLEEPING" /\ state[q] = "ZOMBIE")
    BY <1>3 DEF Inv, SleepInv, WaitLockPcs
  <2>3. \A q \in Procs : pc'[q] \in {"reparent", "wait_scan"} \/ pc'[q] \notin WaitLockPcs
    BY <1>2, <1>3
  <2>. QED
    BY <1>5, <1>12, <2>1, <2>2, <2>3 DEF Inv, SleepInv, WaitLockPcs
<1>. QED
  BY <1>6, <1>7, <1>8, <1>9, <1>10, <1>11, <1>13, <1>14 DEF Inv

LEMMA ExitLockInv ==
  ASSUME ProcAssumption, Inv, NEW c \in CPUs, ExitLock(c)
  PROVE  Inv'
BY TakeWaitLock DEF ExitLock

LEMMA WaitLockInv ==
  ASSUME ProcAssumption, Inv, NEW c \in CPUs, WaitLock(c)
  PROVE  Inv'
BY TakeWaitLock DEF WaitLock

\* release(&wait_lock) by the process that holds it.
LEMMA WaitReleased ==
  ASSUME ProcAssumption, Inv, NEW p \in Procs, pc[p] \in WaitLockPcs, wlock' = Free,
         UNCHANGED cpu, \A d \in CPUs : sch'[d] = "run" => sch[d] = "run",
         \A q \in Procs \ {p} : pc'[q] = pc[q], pc'[p] \notin WaitLockPcs
  PROVE  WaitInv' /\ \A q \in Procs : pc'[q] \notin WaitLockPcs
<1>1. \A q \in Procs : pc'[q] \notin WaitLockPcs
  BY OneWaiter
<1>2. \A d \in CPUs : sch'[d] = "run" => cpu'[d] \in Procs
  BY CpuRange
<1>. QED
  BY <1>1, <1>2 DEF WaitInv, ProcAssumption

\* What the holder of wait_lock knows of the others.
LEMMA HolderFacts ==
  ASSUME ProcAssumption, Inv, NEW p \in Procs, pc[p] \in WaitLockPcs
  PROVE  /\ wlock # Free
         /\ \A q \in Procs \ {p} : pc[q] \notin WaitLockPcs
         /\ pc[p] \notin {"wake_init", "wake_parent"} => wk = 1
         /\ pc[p] # "wake_init" =>
              \A q \in Procs : parent[q] # 0 => ~(state[parent[q]] = "SLEEPING" /\ state[q] = "ZOMBIE")
<1>1. wlock # Free /\ \A q \in Procs \ {p} : pc[q] \notin WaitLockPcs
  BY OneWaiter
<1>2. pc[p] \notin {"wake_init", "wake_parent"} => wk = 1
  BY <1>1 DEF Inv, ScanInv, WaitLockPcs
<1>3. pc[p] # "wake_init" => \A q \in Procs : pc[q] # "wake_init"
  BY <1>1 DEF WaitLockPcs
<1>. QED
  BY <1>1, <1>2, <1>3 DEF Inv, SleepInv

\* The children a scan has still to visit.
LEMMA ChildrenFacts ==
  ASSUME ProcAssumption, Inv, NEW p \in Procs
  PROVE  /\ \A q \in Procs : q \in ChildrenFrom(p, scan) <=> q >= scan /\ parent[q] = p
         /\ ChildrenFrom(p, scan) # {} =>
              /\ First(ChildrenFrom(p, scan)) \in Procs
              /\ First(ChildrenFrom(p, scan)) >= scan
              /\ First(ChildrenFrom(p, scan)) + 1 \in 1 .. NPROC + 1
              /\ parent[First(ChildrenFrom(p, scan))] = p
              /\ \A q \in Procs : q >= scan /\ parent[q] = p => q >= First(ChildrenFrom(p, scan))
<1>1. scan \in 1 .. NPROC + 1 /\ NPROC \in Nat
  BY DEF Inv, TypeOK, ProcAssumption
<1>2. \A q : q \in ChildrenFrom(p, scan) => q \in Procs /\ q \in Nat
  BY <1>1 DEF ChildrenFrom, Procs
<1>3. \A q \in Procs : q \in ChildrenFrom(p, scan) <=> q >= scan /\ parent[q] = p
  BY <1>1 DEF ChildrenFrom, Procs
<1>4. ASSUME ChildrenFrom(p, scan) # {}
      PROVE  /\ First(ChildrenFrom(p, scan)) \in ChildrenFrom(p, scan)
             /\ \A r \in ChildrenFrom(p, scan) : First(ChildrenFrom(p, scan)) <= r
  BY <1>2, <1>4, FirstFacts
<1>5. \A q \in Procs : q + 1 \in 1 .. NPROC + 1 /\ q \in Int
  BY <1>1 DEF Procs
<1>6. ASSUME ChildrenFrom(p, scan) # {}
      PROVE  /\ First(ChildrenFrom(p, scan)) \in Procs
             /\ First(ChildrenFrom(p, scan)) >= scan
             /\ parent[First(ChildrenFrom(p, scan))] = p
             /\ \A q \in Procs : q >= scan /\ parent[q] = p => q >= First(ChildrenFrom(p, scan))
  <2>1. PICK f : f = First(ChildrenFrom(p, scan))
    OBVIOUS
  <2>2. f \in ChildrenFrom(p, scan) /\ f \in Procs /\ \A r \in ChildrenFrom(p, scan) : f <= r
    BY <1>2, <1>4, <1>6, <2>1
  <2>3. \A q \in Procs : q >= scan /\ parent[q] = p => q >= f
    BY <1>3, <1>5, <2>2
  <2>. QED
    BY <1>3, <2>1, <2>2, <2>3
<1>. QED
  BY <1>3, <1>5, <1>6

LEMMA ReparentInv ==
  ASSUME ProcAssumption, Inv, NEW c \in CPUs, Reparent(c)
  PROVE  Inv'
<1>p. PICK p : p = cpu[c]
  OBVIOUS
<1>t. PICK todo : todo = ChildrenFrom(p, scan)
  OBVIOUS
<1>0. /\ At(c, "reparent")
      /\ UNCHANGED <<state, chan, killed, ctx, child, lk, wlock, wk, cpu, sch, at>>
  BY DEF Reparent
<1>1. p \in Procs /\ pc[p] = "reparent" /\ state[p] = "RUNNING"
  BY <1>0, <1>p, RunFacts
<1>2. pc[p] \in WaitLockPcs
  BY <1>1 DEF WaitLockPcs
<1>3. /\ wlock # Free /\ wk = 1
      /\ \A q \in Procs \ {p} : pc[q] \notin WaitLockPcs
      /\ \A q \in Procs : parent[q] # 0 => ~(state[parent[q]] = "SLEEPING" /\ state[q] = "ZOMBIE")
  BY <1>1, <1>2, HolderFacts
<1>4. p # initproc /\ initproc \in Procs /\ state[initproc] \notin {"UNUSED", "USED", "ZOMBIE"}
  BY <1>1, InitprocIs DEF Inv, InitprocInv, ExitPcs, ForkInv
<1>5. \A q \in Procs : parent[q] # 0 => parent[q] \in Procs
  BY Pointers DEF Inv, TypeOK
<1>6. PICK l \in {"wake_parent", "wake_init"} :
        pc' = [pc EXCEPT ![p] = l] /\ (l = "wake_parent" <=> todo = {})
  BY <1>p, <1>t DEF Reparent, Goto
<1>7. \A q \in Procs : pc'[q] = IF q = p THEN l ELSE pc[q]
  BY <1>1, <1>6 DEF Inv, TypeOK
<1>8. l \in Pcs /\ l \in WaitLockPcs /\ l \notin ForkPcs /\ l # "none" /\ pc[p] \notin ForkPcs
  BY <1>1 DEF Pcs, WaitLockPcs, ForkPcs
<1>9. pc' \in [Procs -> Pcs]
  BY <1>6, <1>8 DEF Inv, TypeOK
<1>10. CpuInv'
  BY <1>0, CpuKept
<1>11. WaitInv'
  BY <1>0, <1>2, <1>7, <1>8, WaitKept
<1>12. ForkInv'
  BY <1>0, <1>1, <1>7, <1>8, ForkKept
<1>13. InitprocInv'
  BY <1>0, <1>4, <1>7 DEF Inv, InitprocInv
<1>a. CASE todo = {}
  <2>1. scan' = 1 /\ UNCHANGED parent /\ l = "wake_parent"
    BY <1>a, <1>6, <1>p, <1>t DEF Reparent
  <2>2. TypeOK'
    BY <1>0, <1>9, <2>1 DEF Inv, TypeOK, ProcAssumption
  <2>3. \A q \in Procs : parent[q] # p
    BY <1>1, <1>a, <1>t, ChildrenFacts, Pointers DEF Inv, FamilyInv
  <2>4. ScanInv'
    BY <1>0, <1>1, <1>3, <1>7, <2>1 DEF ScanInv
  <2>5. FamilyInv'
    BY <1>0, <1>3, <1>5, <1>7, <2>1, <2>3 DEF Inv, FamilyInv, WaitLockPcs
  <2>6. SleepInv'
    <3>1. \A q \in Procs : parent[q] # 0 => ~(parent[q] < 1)
      BY <1>5 DEF Procs
    <3>. QED
      BY <1>0, <1>3, <1>5, <1>7, <2>1, <2>3, <3>1 DEF Inv, SleepInv, WaitLockPcs
  <2>. QED
    BY <1>10, <1>11, <1>12, <1>13, <2>2, <2>4, <2>5, <2>6 DEF Inv
<1>b. CASE todo # {}
  <2>f. PICK f : f = First(todo)
    OBVIOUS
  <2>1. parent' = [parent EXCEPT ![f] = initproc] /\ scan' = f + 1 /\ l = "wake_init"
    BY <1>b, <1>6, <1>p, <1>t, <2>f DEF Reparent
  <2>2. /\ f \in Procs /\ f >= scan /\ f + 1 \in 1 .. NPROC + 1 /\ parent[f] = p
        /\ \A q \in Procs : q >= scan /\ parent[q] = p => q >= f
    BY <1>1, <1>b, <1>t, <2>f, ChildrenFacts
  <2>3. \A q \in Procs : parent'[q] = IF q = f THEN initproc ELSE parent[q]
    BY <2>1, <2>2 DEF Inv, TypeOK
  <2>4. TypeOK'
    <3>1. initproc \in 0 .. NPROC
      BY <1>4, Pointers
    <3>. QED
      BY <1>0, <1>9, <2>1, <2>2, <3>1 DEF Inv, TypeOK
  <2>5. ScanInv'
    BY <1>0, <1>1, <1>3, <1>7, <2>1 DEF ScanInv, WaitLockPcs
  <2>6. \A q \in Procs \ {f} : parent[q] = p => q >= f + 1
    <3>1. \A q \in Procs \ {f} : parent[q] = p => q >= f
      BY <1>1, <2>2, Pointers DEF Inv, FamilyInv
    <3>. QED
      BY <2>2, <3>1 DEF Procs
  <2>7. FamilyInv'
    <3>1. state[f] # "UNUSED" /\ pc[initproc] \notin WaitLockPcs
      BY <1>1, <1>3, <1>4, <2>2, Pointers DEF Inv, FamilyInv
    <3>2. ASSUME NEW q \in Procs \ {f}, parent[q] # 0
          PROVE  /\ state'[q] # "UNUSED"
                 /\ state'[parent'[q]] \notin {"UNUSED", "USED", "ZOMBIE"}
                 /\ pc'[parent'[q]] \in {"reparent", "wake_init"} => q >= scan'
                 /\ pc'[parent'[q]] \notin {"wake_parent", "zombie"}
      BY <1>0, <1>3, <1>5, <1>7, <2>1, <2>3, <2>6, <3>2 DEF Inv, FamilyInv, WaitLockPcs
    <3>. QED
      BY <1>0, <1>4, <1>7, <2>1, <2>3, <3>1, <3>2 DEF FamilyInv, WaitLockPcs
  <2>8. SleepInv'
    <3>1. \A q \in Procs : pc'[q] \in WaitLockPcs => q = p /\ pc'[q] = "wake_init"
      BY <1>3, <1>7, <2>1
    <3>2. pc'[p] = "wake_init" /\ wk' = initproc
      BY <1>0, <1>1, <1>3, <1>7, <2>1, InitprocIs
    <3>3. \A q \in Procs : parent'[q] # 0 => parent'[q] \in Procs
      BY <1>4, <1>5, <2>3
    <3>. QED
      BY <1>0, <1>1, <1>3, <1>4, <2>3, <3>1, <3>2, <3>3 DEF Inv, SleepInv, WaitLockPcs
  <2>. QED
    BY <1>10, <1>11, <1>12, <1>13, <2>4, <2>5, <2>7, <2>8 DEF Inv
<1>. QED
  BY <1>a, <1>b

LEMMA WakeupInv ==
  ASSUME ProcAssumption, Inv, NEW c \in CPUs, Wakeup(c)
  PROVE  Inv'
<1>p. PICK p : p = cpu[c]
  OBVIOUS
<1>k. PICK k \in {"wake_init", "wake_parent"} : At(c, k)
  BY DEF Wakeup
<1>1. p \in Procs /\ pc[p] = k /\ state[p] = "RUNNING"
  BY <1>k, <1>p, RunFacts
<1>ch. PICK channel : channel = IF k = "wake_init" THEN initproc ELSE parent[p]
  OBVIOUS
<1>l. PICK l : l = IF wk < NPROC THEN k ELSE IF k = "wake_init" THEN "reparent" ELSE "zombie"
  OBVIOUS
<1>0. /\ UNCHANGED <<chan, killed, parent, ctx, child, lk, wlock, scan, cpu, sch, at>>
      /\ wk' = After(wk) /\ pc' = [pc EXCEPT ![p] = l]
      /\ IF wk = p THEN UNCHANGED state
         ELSE /\ lk[wk] = Free
              /\ state' = [state EXCEPT ![wk] =
                   IF @ = "SLEEPING" /\ chan[wk] = channel THEN "RUNNABLE" ELSE @]
  BY <1>1, <1>p, <1>ch, <1>l DEF Wakeup, Goto
<1>2. pc[p] \in WaitLockPcs /\ l \in WaitLockPcs /\ l \in Pcs
  BY <1>1, <1>l DEF WaitLockPcs, Pcs
<1>3. /\ wlock # Free
      /\ \A q \in Procs \ {p} : pc[q] \notin WaitLockPcs
      /\ k # "wake_init" =>
           \A q \in Procs : parent[q] # 0 => ~(state[parent[q]] = "SLEEPING" /\ state[q] = "ZOMBIE")
  BY <1>1, <1>2, HolderFacts
<1>4. p # initproc /\ initproc \in Procs /\ initproc = 1
  BY <1>1, InitprocIs DEF Inv, InitprocInv, ExitPcs
<1>5. \A q \in Procs : parent[q] # 0 => parent[q] \in Procs
  BY Pointers DEF Inv, TypeOK
<1>6. wk \in Procs /\ wk' \in Procs
  BY <1>0, AfterType DEF Inv, TypeOK
<1>7. \A q \in Procs : pc'[q] = IF q = p THEN l ELSE pc[q]
  BY <1>0, <1>1 DEF Inv, TypeOK
<1>8. \A q \in Procs : state'[q] = IF q = wk /\ state[q] = "SLEEPING" /\ chan[q] = channel
                                  THEN "RUNNABLE" ELSE state[q]
  <2>1. CASE wk = p
    BY <1>0, <1>1, <2>1
  <2>2. CASE wk # p
    BY <1>0, <1>6, <2>2 DEF Inv, TypeOK
  <2>. QED
    BY <2>1, <2>2
<1>9. \A q \in Procs : state'[q] # state[q] => lk[q] = Free /\ state[q] = "SLEEPING" /\ state'[q] = "RUNNABLE"
  BY <1>0, <1>1, <1>8
<1>10. TypeOK'
  <2>1. pc' \in [Procs -> Pcs]
    BY <1>0, <1>2 DEF Inv, TypeOK
  <2>2. state' \in [Procs -> States]
    BY <1>0, <1>6 DEF Inv, TypeOK, States
  <2>. QED
    BY <1>0, <1>6, <2>1, <2>2 DEF Inv, TypeOK
<1>11. CpuInv'
  <2>1. \A q \in Procs : state'[q] # state[q] =>
          (\A d \in CPUs : cpu[d] # q) /\ ctx[q] # "run" /\ state'[q] # "RUNNING"
    BY <1>9, OffCpu
  <2>. QED
    BY <1>0, <2>1, CpuKept
<1>12. WaitInv'
  BY <1>0, <1>2, <1>7, WaitKept
<1>13. ForkInv'
  <2>1. l \notin ForkPcs /\ l # "none" /\ pc[p] \notin ForkPcs /\ pc[p] # "none"
    BY <1>2, PcFacts
  <2>. QED
    BY <1>0, <1>7, <1>9, <2>1, ForkKept
<1>14. InitprocInv'
  BY <1>0, <1>4, <1>7, <1>9 DEF Inv, InitprocInv
<1>15. ScanInv'
  <2>1. l \notin {"wake_init", "wake_parent"} => wk' = 1
    BY <1>0, <1>6, <1>l DEF After, Procs, ProcAssumption
  <2>2. l \in {"wake_parent", "zombie", "wait_sleep"} => scan = 1
    BY <1>1, <1>l DEF Inv, ScanInv
  <2>. QED
    BY <1>0, <1>1, <1>3, <1>7, <2>1, <2>2 DEF ScanInv, WaitLockPcs
<1>16. FamilyInv'
  <2>1. l \in {"reparent", "wake_init"} <=> k = "wake_init"
    BY <1>l
  <2>2. l \in {"wake_parent", "zombie"} <=> k = "wake_parent"
    BY <1>l
  <2>. QED
    BY <1>0, <1>1, <1>5, <1>7, <1>9, <2>1, <2>2 DEF Inv, FamilyInv
<1>17. SleepInv'
  <2>1. \A q \in Procs : pc'[q] \in WaitLockPcs => q = p /\ pc'[q] = l
    BY <1>3, <1>7
  <2>2. \A q \in Procs : state'[q] = "SLEEPING" => state[q] = "SLEEPING" /\ chan[q] = q
    BY <1>9 DEF Inv, SleepInv
  <2>3. \A q \in Procs : state'[q] = "ZOMBIE" <=> state[q] = "ZOMBIE"
    BY <1>9
  <2>4. ASSUME k = "wake_parent", parent[p] # 0,
               parent[p] < wk \/ parent[p] = wk
        PROVE  state'[parent[p]] # "SLEEPING"
    <3>1. CASE parent[p] < wk
      BY <1>1, <1>5, <1>9, <2>4, <3>1 DEF Inv, SleepInv
    <3>2. CASE parent[p] = wk
      BY <1>1, <1>5, <1>8, <1>ch, <2>2, <2>4, <3>2
    <3>. QED
      BY <2>4, <3>1, <3>2
  <2>5. ASSUME parent[p] # 0, l = "zombie" \/ (l = "wake_parent" /\ parent[p] < wk')
        PROVE  state'[parent[p]] # "SLEEPING"
    <3>1. parent[p] \in Procs
      BY <1>1, <1>5, <2>5
    <3>2. k = "wake_parent"
      BY <1>l, <2>5
    <3>3. parent[p] < wk \/ parent[p] = wk
      BY <1>0, <1>6, <1>l, <2>5, <3>1, <3>2 DEF After, Procs, ProcAssumption
    <3>. QED
      BY <2>4, <2>5, <3>2, <3>3
  <2>6. \A q \in Procs : parent[q] # 0 => ~(state'[parent[q]] = "SLEEPING" /\ state'[q] = "ZOMBIE")
    <3>. SUFFICES ASSUME NEW q \in Procs, parent[q] # 0,
                         state'[parent[q]] = "SLEEPING", state'[q] = "ZOMBIE"
                  PROVE  FALSE
      OBVIOUS
    <3>1. parent[q] \in Procs /\ state[parent[q]] = "SLEEPING" /\ state[q] = "ZOMBIE"
      BY <1>5, <2>2, <2>3
    <3>2. parent[q] = initproc /\ wk = initproc
      BY <3>1 DEF Inv, SleepInv
    <3>3. k = "wake_init"
      BY <1>3, <3>1
    <3>4. chan[initproc] = initproc /\ channel = initproc /\ state[initproc] = "SLEEPING"
      BY <1>ch, <2>2, <1>4, <3>2, <3>3, <3>1
    <3>. QED
      BY <1>4, <1>8, <3>2, <3>4
  <2>7. l \in {"wake_init", "wake_parent", "reparent", "zombie"}
    BY <1>l
  <2>. QED
    BY <1>0, <1>5, <2>1, <2>2, <2>5, <2>6, <2>7 DEF SleepInv, WaitLockPcs
<1>. QED
  BY <1>10, <1>11, <1>12, <1>13, <1>14, <1>15, <1>16, <1>17 DEF Inv

LEMMA ZombieInv ==
  ASSUME ProcAssumption, Inv, NEW c \in CPUs, Zombie(c)
  PROVE  Inv'
<1>p. PICK p : p = cpu[c]
  OBVIOUS
<1>0. /\ At(c, "zombie") /\ Sched(c, p, "ZOMBIE", "exit") /\ wlock' = Free
      /\ pc' = [pc EXCEPT ![p] = "none"]
      /\ UNCHANGED <<chan, killed, parent, child, scan, wk, cpu, at>>
  BY <1>p DEF Zombie, Goto
<1>1. p \in Procs /\ pc[p] = "zombie" /\ state[p] = "RUNNING" /\ sch[c] = "run"
  BY <1>0, <1>p, RunFacts
<1>2. pc[p] \in WaitLockPcs /\ pc[p] \notin ForkPcs /\ "none" \notin WaitLockPcs \cup ForkPcs
  BY <1>1 DEF WaitLockPcs, ForkPcs
<1>3. /\ wk = 1
      /\ \A q \in Procs : parent[q] # 0 => ~(state[parent[q]] = "SLEEPING" /\ state[q] = "ZOMBIE")
  BY <1>1, <1>2, HolderFacts
<1>4. p # initproc /\ initproc \in Procs
  BY <1>1, InitprocIs DEF Inv, InitprocInv, ExitPcs
<1>5. \A q \in Procs : parent[q] # 0 => parent[q] \in Procs
  BY Pointers DEF Inv, TypeOK
<1>6. \A q \in Procs : pc'[q] = IF q = p THEN "none" ELSE pc[q]
  BY <1>0, <1>1 DEF Inv, TypeOK
<1>7. /\ CpuInv'
      /\ state' \in [Procs -> States]
      /\ ctx' \in [Procs -> {"none", "forkret", "run", "yield", "sleep", "exit"}]
      /\ lk' \in [Procs -> CPUs \cup {Free}]
      /\ sch' \in [CPUs -> {"scan", "run", "back"}]
      /\ \A d \in CPUs : sch'[d] = IF d = c THEN "back" ELSE sch[d]
      /\ \A q \in Procs : state'[q] = IF q = p THEN "ZOMBIE" ELSE state[q]
  <2>1. Sched(c, p, "ZOMBIE", "exit") /\ UNCHANGED cpu
    BY <1>0
  <2>2. SwitchedAway(c, p, "ZOMBIE")
    BY <1>1, <1>p, <2>1, SchedCpu
  <2>. QED
    BY <2>2 DEF SwitchedAway
<1>8. TypeOK'
  <2>1. pc' \in [Procs -> Pcs]
    BY <1>0 DEF Inv, TypeOK, Pcs
  <2>. QED
    BY <1>0, <1>7, <2>1 DEF Inv, TypeOK
<1>9. WaitInv' /\ \A q \in Procs : pc'[q] \notin WaitLockPcs
  <2>1. \A d \in CPUs : sch'[d] = "run" => sch[d] = "run"
    BY <1>7
  <2>. QED
    BY <1>0, <1>1, <1>2, <1>6, <2>1, WaitReleased
<1>10. ForkInv'
  <2>1. \A q \in Procs : child[q] # 0 => child[q] \in Procs /\ child[q] # p
    BY <1>1, Pointers DEF Inv, TypeOK, ForkInv
  <2>. QED
    BY <1>0, <1>2, <1>6, <1>7, <2>1 DEF Inv, ForkInv
<1>11. InitprocInv'
  BY <1>0, <1>4, <1>6, <1>7 DEF Inv, InitprocInv
<1>12. ScanInv'
  BY <1>0, <1>1, <1>3, <1>9 DEF Inv, ScanInv, WaitLockPcs
<1>13. \A q \in Procs : parent[q] # p
  BY <1>1, Pointers DEF Inv, FamilyInv
<1>14. FamilyInv'
  BY <1>0, <1>5, <1>7, <1>9, <1>13 DEF Inv, FamilyInv, WaitLockPcs
<1>15. SleepInv'
  <2>1. \A q \in Procs : state'[q] = "SLEEPING" => chan'[q] = q
    BY <1>0, <1>7 DEF Inv, SleepInv
  <2>2. parent[p] # 0 => state[parent[p]] # "SLEEPING"
    BY <1>1 DEF Inv, SleepInv
  <2>3. \A q \in Procs : parent[q] # 0 => ~(state'[parent[q]] = "SLEEPING" /\ state'[q] = "ZOMBIE")
    BY <1>3, <1>5, <1>7, <1>13, <2>2
  <2>. QED
    BY <1>0, <1>5, <1>9, <2>1, <2>3 DEF SleepInv, WaitLockPcs
<1>. QED
  BY <1>7, <1>8, <1>9, <1>10, <1>11, <1>12, <1>14, <1>15 DEF Inv

\* sleep(p, &wait_lock): the caller has no zombie child.
LEMMA SleepStep ==
  ASSUME ProcAssumption, Inv, NEW c \in CPUs, Sleep(c)
  PROVE  Inv'
<1>p. PICK p : p = cpu[c]
  OBVIOUS
<1>0. /\ At(c, "wait_sleep") /\ Sched(c, p, "SLEEPING", "sleep") /\ wlock' = Free
      /\ pc' = [pc EXCEPT ![p] = "wait_lock"]
      /\ chan' = [chan EXCEPT ![p] = p]
      /\ UNCHANGED <<killed, parent, child, scan, wk, cpu, at>>
  BY <1>p DEF Sleep, Goto
<1>1. p \in Procs /\ pc[p] = "wait_sleep" /\ state[p] = "RUNNING" /\ sch[c] = "run"
  BY <1>0, <1>p, RunFacts
<1>2. /\ pc[p] \in WaitLockPcs /\ pc[p] \notin ForkPcs
      /\ "wait_lock" \notin WaitLockPcs \cup ForkPcs \cup ExitPcs
  BY <1>1 DEF WaitLockPcs, ForkPcs, ExitPcs
<1>3. /\ wk = 1
      /\ \A q \in Procs : parent[q] # 0 => ~(state[parent[q]] = "SLEEPING" /\ state[q] = "ZOMBIE")
  BY <1>1, <1>2, HolderFacts
<1>5. \A q \in Procs : parent[q] # 0 => parent[q] \in Procs
  BY Pointers DEF Inv, TypeOK
<1>6. \A q \in Procs : pc'[q] = IF q = p THEN "wait_lock" ELSE pc[q]
  BY <1>0, <1>1 DEF Inv, TypeOK
<1>7. /\ CpuInv'
      /\ state' \in [Procs -> States]
      /\ ctx' \in [Procs -> {"none", "forkret", "run", "yield", "sleep", "exit"}]
      /\ lk' \in [Procs -> CPUs \cup {Free}]
      /\ sch' \in [CPUs -> {"scan", "run", "back"}]
      /\ \A d \in CPUs : sch'[d] = IF d = c THEN "back" ELSE sch[d]
      /\ \A q \in Procs : state'[q] = IF q = p THEN "SLEEPING" ELSE state[q]
  <2>1. Sched(c, p, "SLEEPING", "sleep") /\ UNCHANGED cpu
    BY <1>0
  <2>2. SwitchedAway(c, p, "SLEEPING")
    BY <1>1, <1>p, <2>1, SchedCpu
  <2>. QED
    BY <2>2 DEF SwitchedAway
<1>8. TypeOK'
  <2>1. pc' \in [Procs -> Pcs]
    BY <1>0 DEF Inv, TypeOK, Pcs, OpenPcs
  <2>2. chan' \in [Procs -> 0 .. NPROC]
    BY <1>0, <1>1, Pointers DEF Inv, TypeOK
  <2>. QED
    BY <1>0, <1>7, <2>1, <2>2 DEF Inv, TypeOK
<1>9. WaitInv' /\ \A q \in Procs : pc'[q] \notin WaitLockPcs
  <2>1. \A d \in CPUs : sch'[d] = "run" => sch[d] = "run"
    BY <1>7
  <2>. QED
    BY <1>0, <1>1, <1>2, <1>6, <2>1, WaitReleased
<1>10. ForkInv'
  <2>1. \A q \in Procs : child[q] # 0 => child[q] \in Procs /\ child[q] # p
    BY <1>1, Pointers DEF Inv, TypeOK, ForkInv
  <2>. QED
    BY <1>0, <1>1, <1>2, <1>6, <1>7, <2>1 DEF Inv, ForkInv
<1>11. InitprocInv'
  BY <1>0, <1>2, <1>6, <1>7, InitprocIs DEF Inv, InitprocInv
<1>12. ScanInv'
  BY <1>0, <1>1, <1>3, <1>9 DEF Inv, ScanInv, WaitLockPcs
<1>14. FamilyInv'
  BY <1>0, <1>5, <1>7, <1>9 DEF Inv, FamilyInv, WaitLockPcs
<1>15. SleepInv'
  <2>1. \A q \in Procs : state'[q] = "SLEEPING" => chan'[q] = q
    BY <1>0, <1>1, <1>7 DEF Inv, TypeOK, SleepInv
  <2>2. \A q \in Procs : parent[q] = p => state[q] # "ZOMBIE"
    BY <1>1, Pointers DEF Inv, SleepInv
  <2>. QED
    BY <1>0, <1>3, <1>5, <1>7, <1>9, <2>1, <2>2 DEF SleepInv, WaitLockPcs
<1>. QED
  BY <1>7, <1>8, <1>9, <1>10, <1>11, <1>12, <1>14, <1>15 DEF Inv

\* wait() returns without changing a process.
LEMMA WaitReturns ==
  ASSUME ProcAssumption, Inv, NEW p \in Procs, pc[p] = "wait_scan",
         wlock' = Free, scan' = 1, Goto(p, "ret"),
         UNCHANGED <<state, chan, killed, parent, ctx, child, lk, wk, cpu, sch, at>>
  PROVE  Inv'
<1>1. /\ pc[p] \in WaitLockPcs /\ pc[p] \notin ForkPcs \cup {"none"}
      /\ "ret" \in Pcs /\ "ret" \notin WaitLockPcs \cup ForkPcs \cup ExitPcs \cup {"none"}
  BY DEF WaitLockPcs, ForkPcs, ExitPcs, Pcs, OpenPcs
<1>2. /\ wk = 1
      /\ \A q \in Procs : parent[q] # 0 => ~(state[parent[q]] = "SLEEPING" /\ state[q] = "ZOMBIE")
  BY <1>1, HolderFacts
<1>3. \A q \in Procs : pc'[q] = IF q = p THEN "ret" ELSE pc[q]
  BY DEF Goto, Inv, TypeOK
<1>4. \A q \in Procs : parent[q] # 0 => parent[q] \in Procs
  BY Pointers DEF Inv, TypeOK
<1>5. TypeOK'
  <2>1. pc' \in [Procs -> Pcs]
    BY <1>1 DEF Goto, Inv, TypeOK
  <2>2. scan' \in 1 .. NPROC + 1
    BY Pointers
  <2>. QED
    BY <2>1, <2>2 DEF Inv, TypeOK
<1>6. CpuInv'
  BY CpuKept
<1>7. WaitInv' /\ \A q \in Procs : pc'[q] \notin WaitLockPcs
  <2>1. \A d \in CPUs : sch'[d] = "run" => sch[d] = "run"
    OBVIOUS
  <2>. QED
    BY <1>1, <1>3, <2>1, WaitReleased
<1>8. ForkInv'
  BY <1>1, <1>3, ForkKept
<1>9. InitprocInv'
  BY <1>1, <1>3, InitprocIs DEF Inv, InitprocInv
<1>10. ScanInv'
  BY <1>2, <1>7 DEF ScanInv, WaitLockPcs
<1>11. FamilyInv'
  BY <1>4, <1>7 DEF Inv, FamilyInv, WaitLockPcs
<1>12. SleepInv'
  BY <1>2, <1>4, <1>7 DEF Inv, SleepInv, WaitLockPcs
<1>. QED
  BY <1>5, <1>6, <1>7, <1>8, <1>9, <1>10, <1>11, <1>12 DEF Inv

\* wait() returns after freeproc() of the zombie f.
LEMMA WaitReaps ==
  ASSUME ProcAssumption, Inv, NEW p \in Procs, pc[p] = "wait_scan",
         NEW f \in Procs, state[f] = "ZOMBIE", lk[f] = Free, FreeProc(f),
         wlock' = Free, scan' = 1, Goto(p, "ret"),
         UNCHANGED <<child, lk, wk, cpu, sch, at>>
  PROVE  Inv'
<1>0. /\ state' = [state EXCEPT ![f] = "UNUSED"] /\ chan' = [chan EXCEPT ![f] = 0]
      /\ killed' = [killed EXCEPT ![f] = FALSE] /\ parent' = [parent EXCEPT ![f] = 0]
      /\ ctx' = [ctx EXCEPT ![f] = "none"] /\ pc' = [pc EXCEPT ![p] = "ret"]
  BY DEF FreeProc, Goto
<1>1. /\ pc[p] \in WaitLockPcs /\ pc[p] \notin ForkPcs \cup {"none"}
      /\ "ret" \in Pcs /\ "ret" \notin WaitLockPcs \cup ForkPcs \cup ExitPcs \cup {"none"}
  BY DEF WaitLockPcs, ForkPcs, ExitPcs, Pcs, OpenPcs
<1>2. /\ wk = 1
      /\ \A q \in Procs : parent[q] # 0 => ~(state[parent[q]] = "SLEEPING" /\ state[q] = "ZOMBIE")
  BY <1>1, HolderFacts
<1>3. /\ \A q \in Procs : pc'[q] = IF q = p THEN "ret" ELSE pc[q]
      /\ \A q \in Procs : state'[q] = IF q = f THEN "UNUSED" ELSE state[q]
      /\ \A q \in Procs : parent'[q] = IF q = f THEN 0 ELSE parent[q]
      /\ \A q \in Procs : ctx'[q] = IF q = f THEN "none" ELSE ctx[q]
      /\ \A q \in Procs : chan'[q] = IF q = f THEN 0 ELSE chan[q]
      /\ \A q \in Procs : killed'[q] = IF q = f THEN FALSE ELSE killed[q]
  BY <1>0 DEF Inv, TypeOK
<1>4. \A q \in Procs : parent[q] # 0 => parent[q] \in Procs
  BY Pointers DEF Inv, TypeOK
<1>5. TypeOK'
  <2>1. pc' \in [Procs -> Pcs]
    BY <1>0, <1>1 DEF Inv, TypeOK
  <2>2. scan' \in 1 .. NPROC + 1
    BY Pointers
  <2>3. chan' \in [Procs -> 0 .. NPROC] /\ parent' \in [Procs -> 0 .. NPROC]
    BY <1>0, Pointers DEF Inv, TypeOK
  <2>4. state' \in [Procs -> States] /\ killed' \in [Procs -> BOOLEAN]
    BY <1>0 DEF Inv, TypeOK, States
  <2>5. ctx' \in [Procs -> {"none", "forkret", "run", "yield", "sleep", "exit"}]
    BY <1>0 DEF Inv, TypeOK
  <2>. QED
    BY <2>1, <2>2, <2>3, <2>4, <2>5 DEF Inv, TypeOK
<1>6. CpuInv'
  <2>1. \A d \in CPUs : cpu[d] # f
    BY OffCpu
  <2>. QED
    BY <1>3, <2>1, CpuKept
<1>7. WaitInv' /\ \A q \in Procs : pc'[q] \notin WaitLockPcs
  <2>1. \A d \in CPUs : sch'[d] = "run" => sch[d] = "run"
    OBVIOUS
  <2>. QED
    BY <1>1, <1>3, <2>1, WaitReleased
<1>8. ForkInv'
  BY <1>1, <1>3, ForkKept
<1>9. InitprocInv'
  <2>1. initproc # f
    BY DEF Inv, InitprocInv, ForkInv
  <2>. QED
    BY <1>1, <1>3, <2>1, InitprocIs DEF Inv, InitprocInv
<1>10. ScanInv'
  BY <1>2, <1>7 DEF ScanInv, WaitLockPcs
<1>11. \A q \in Procs : parent'[q] # 0 => parent'[q] = parent[q] /\ q # f /\ parent[q] # f
  BY <1>3 DEF Inv, FamilyInv
<1>12. FamilyInv'
  BY <1>3, <1>4, <1>7, <1>11 DEF Inv, FamilyInv, WaitLockPcs
<1>13. SleepInv'
  BY <1>2, <1>3, <1>4, <1>7, <1>11 DEF Inv, SleepInv, WaitLockPcs
<1>. QED
  BY <1>5, <1>6, <1>7, <1>8, <1>9, <1>10, <1>12, <1>13 DEF Inv

LEMMA WaitVisitInv ==
  ASSUME ProcAssumption, Inv, NEW c \in CPUs, WaitVisit(c)
  PROVE  Inv'
<1>p. PICK p : p = cpu[c]
  OBVIOUS
<1>f. PICK f : f = First(ChildrenFrom(p, scan))
  OBVIOUS
<1>0. /\ At(c, "wait_scan") /\ ChildrenFrom(p, scan) # {} /\ lk[f] = Free
      /\ IF state[f] = "ZOMBIE"
         THEN /\ FreeProc(f) \/ UNCHANGED <<state, chan, killed, parent, ctx>>
              /\ wlock' = Free /\ scan' = 1 /\ Goto(p, "ret")
         ELSE scan' = f + 1 /\ UNCHANGED <<state, chan, killed, parent, pc, ctx, wlock>>
      /\ UNCHANGED <<child, lk, wk, cpu, sch, at>>
  BY <1>p, <1>f DEF WaitVisit
<1>1. p \in Procs /\ pc[p] = "wait_scan"
  <2>1. At(c, "wait_scan")
    BY <1>0
  <2>. QED
    BY <1>p, <2>1, RunFacts
<1>2. /\ f \in Procs /\ f + 1 \in 1 .. NPROC + 1
      /\ \A q \in Procs : q >= scan /\ parent[q] = p => q >= f
  BY <1>0, <1>1, <1>f, ChildrenFacts
<1>a. CASE state[f] = "ZOMBIE" /\ FreeProc(f)
  BY <1>0, <1>1, <1>2, <1>a, WaitReaps
<1>b. CASE state[f] = "ZOMBIE" /\ UNCHANGED <<state, chan, killed, parent, ctx>>
  BY <1>0, <1>1, <1>2, <1>b, WaitReturns
<1>c. CASE state[f] # "ZOMBIE"
  <2>0. scan' = f + 1 /\ UNCHANGED <<state, chan, killed, parent, pc, ctx, wlock, child, lk, wk, cpu, sch, at>>
    BY <1>0, <1>c
  <2>1. pc[p] \in WaitLockPcs
    BY <1>1 DEF WaitLockPcs
  <2>2. /\ wlock # Free /\ wk = 1
        /\ \A q \in Procs \ {p} : pc[q] \notin WaitLockPcs
    BY <1>1, <2>1, HolderFacts
  <2>3. \A q \in Procs : parent[q] # 0 => parent[q] \in Procs
    BY Pointers DEF Inv, TypeOK
  <2>4. TypeOK'
    BY <1>2, <2>0 DEF Inv, TypeOK
  <2>5. CpuInv' /\ WaitInv' /\ ForkInv' /\ InitprocInv'
    <3>1. CpuInv'
      BY <2>0, CpuKept
    <3>2. WaitInv' /\ ForkInv' /\ InitprocInv'
      BY <2>0 DEF Inv, WaitInv, ForkInv, InitprocInv
    <3>. QED
      BY <3>1, <3>2
  <2>6. ScanInv'
    BY <1>1, <2>0, <2>2 DEF ScanInv, WaitLockPcs
  <2>7. FamilyInv'
    BY <1>1, <2>0, <2>2, <2>3 DEF Inv, FamilyInv, WaitLockPcs
  <2>8. \A q \in Procs : parent[q] = p /\ q < f + 1 => state[q] # "ZOMBIE"
    <3>. SUFFICES ASSUME NEW q \in Procs, parent[q] = p, q < f + 1 PROVE state[q] # "ZOMBIE"
      OBVIOUS
    <3>1. q \in Int /\ f \in Int /\ scan \in Int
      BY <1>2 DEF Procs, Inv, TypeOK
    <3>2. CASE q < scan
      BY <1>1, <3>2, Pointers DEF Inv, SleepInv
    <3>3. CASE q >= scan
      BY <1>2, <1>c, <3>1, <3>3
    <3>. QED
      BY <3>1, <3>2, <3>3
  <2>9. SleepInv'
    BY <1>1, <2>0, <2>2, <2>3, <2>8 DEF Inv, SleepInv, WaitLockPcs
  <2>. QED
    BY <2>4, <2>5, <2>6, <2>7, <2>9 DEF Inv
<1>. QED
  BY <1>0, <1>a, <1>b, <1>c

LEMMA WaitDecideInv ==
  ASSUME ProcAssumption, Inv, NEW c \in CPUs, WaitDecide(c)
  PROVE  Inv'
<1>p. PICK p : p = cpu[c]
  OBVIOUS
<1>0. /\ At(c, "wait_scan") /\ ChildrenFrom(p, scan) = {} /\ scan' = 1
      /\ \/ wlock' = Free /\ Goto(p, "ret")
         \/ UNCHANGED wlock /\ Goto(p, "wait_sleep")
      /\ UNCHANGED <<state, chan, killed, parent, ctx, child, lk, wk, cpu, sch, at>>
  BY <1>p DEF WaitDecide
<1>1. p \in Procs /\ pc[p] = "wait_scan"
  <2>1. At(c, "wait_scan")
    BY <1>0
  <2>. QED
    BY <1>p, <2>1, RunFacts
<1>a. CASE wlock' = Free /\ Goto(p, "ret")
  BY <1>0, <1>1, <1>a, WaitReturns
<1>b. CASE UNCHANGED wlock /\ Goto(p, "wait_sleep")
  <2>1. /\ pc[p] \in WaitLockPcs /\ pc[p] \notin ForkPcs \cup {"none"}
        /\ "wait_sleep" \in WaitLockPcs /\ "wait_sleep" \in Pcs
        /\ "wait_sleep" \notin ForkPcs \cup ExitPcs \cup {"none"}
    BY <1>1 DEF WaitLockPcs, ForkPcs, ExitPcs, Pcs
  <2>2. /\ wlock # Free /\ wk = 1
        /\ \A q \in Procs \ {p} : pc[q] \notin WaitLockPcs
        /\ \A q \in Procs : parent[q] # 0 => ~(state[parent[q]] = "SLEEPING" /\ state[q] = "ZOMBIE")
    BY <1>1, <2>1, HolderFacts
  <2>3. \A q \in Procs : pc'[q] = IF q = p THEN "wait_sleep" ELSE pc[q]
    BY <1>1, <1>b DEF Goto, Inv, TypeOK
  <2>4. \A q \in Procs : parent[q] # 0 => parent[q] \in Procs
    BY Pointers DEF Inv, TypeOK
  <2>5. TypeOK'
    <3>1. pc' \in [Procs -> Pcs]
      BY <1>b, <2>1 DEF Goto, Inv, TypeOK
    <3>2. scan' \in 1 .. NPROC + 1
      BY <1>0, Pointers
    <3>. QED
      BY <1>0, <1>b, <3>1, <3>2 DEF Inv, TypeOK
  <2>6. CpuInv'
    BY <1>0, CpuKept
  <2>7. WaitInv'
    BY <1>0, <1>b, <2>1, <2>3, WaitKept
  <2>8. ForkInv'
    BY <1>0, <2>1, <2>3, ForkKept
  <2>9. InitprocInv'
    BY <1>0, <2>1, <2>3, InitprocIs DEF Inv, InitprocInv
  <2>10. ScanInv'
    BY <1>0, <2>2 DEF ScanInv
  <2>11. FamilyInv'
    BY <1>0, <2>2, <2>3, <2>4 DEF Inv, FamilyInv, WaitLockPcs
  <2>12. \A q \in Procs : parent[q] = p => state[q] # "ZOMBIE"
    <3>1. \A q \in Procs : parent[q] = p => ~(q >= scan)
      BY <1>0, <1>1, ChildrenFacts
    <3>2. \A q \in Procs : parent[q] = p => q < scan
      BY <3>1 DEF Procs, Inv, TypeOK
    <3>. QED
      BY <1>1, <3>2, Pointers DEF Inv, SleepInv
  <2>13. SleepInv'
    BY <1>0, <2>2, <2>3, <2>4, <2>12 DEF Inv, SleepInv, WaitLockPcs
  <2>. QED
    BY <2>5, <2>6, <2>7, <2>8, <2>9, <2>10, <2>11, <2>13 DEF Inv
<1>. QED
  BY <1>0, <1>a, <1>b

-----------------------------------------------------------------------------
LEMMA InitHolds == ASSUME ProcAssumption, Init PROVE Inv
<1>1. /\ \A p \in Procs : /\ state[p] = IF p = initproc THEN "RUNNABLE" ELSE "UNUSED"
                          /\ pc[p] = IF p = initproc THEN "user" ELSE "none"
                          /\ ctx[p] = IF p = initproc THEN "forkret" ELSE "none"
                          /\ parent[p] = 0 /\ child[p] = 0 /\ lk[p] = Free /\ ~killed[p]
      /\ \A c \in CPUs : cpu[c] = 0 /\ sch[c] = "scan"
      /\ wlock = Free /\ scan = 1 /\ wk = 1
  BY DEF Init
<1>2. 0 \notin Procs /\ 0 \in 0 .. NPROC /\ 1 \in Procs /\ 1 \in 1 .. NPROC + 1 /\ initproc \in Procs
  BY DEF ProcAssumption, Procs, initproc
<1>3. "none" \in Pcs /\ "user" \in Pcs /\ {"none", "user"} \cap (ForkPcs \cup WaitLockPcs \cup ExitPcs) = {}
  BY DEF Pcs, ForkPcs, WaitLockPcs, ExitPcs
<1>4. TypeOK
  BY <1>2, <1>3 DEF Init, TypeOK, States
<1>5. CpuInv
  BY <1>1, <1>2 DEF CpuInv, Switching, ProcAssumption
<1>6. WaitInv
  BY <1>1, <1>2, <1>3 DEF WaitInv, ProcAssumption
<1>7. ForkInv
  BY <1>1, <1>3 DEF ForkInv
<1>8. InitprocInv
  BY <1>1, <1>2, <1>3 DEF InitprocInv
<1>9. ScanInv /\ FamilyInv /\ SleepInv
  BY <1>1 DEF ScanInv, FamilyInv, SleepInv
<1>. QED
  BY <1>4, <1>5, <1>6, <1>7, <1>8, <1>9 DEF Inv

LEMMA NextInv == ASSUME ProcAssumption, Inv, [Next]_vars PROVE Inv'
<1>1. CASE UNCHANGED vars
  <2>0. UNCHANGED <<state, chan, killed, parent, pc, ctx, child, lk, wlock, scan, wk, cpu, sch, at>>
    BY <1>1 DEF vars
  <2>1. TypeOK'
    BY <2>0 DEF Inv, TypeOK
  <2>2. CpuInv'
    BY <2>0, CpuKept
  <2>3. WaitInv' /\ ForkInv' /\ InitprocInv'
    BY <2>0 DEF Inv, WaitInv, ForkInv, InitprocInv
  <2>4. ScanInv' /\ FamilyInv' /\ SleepInv'
    BY <2>0 DEF Inv, ScanInv, FamilyInv, SleepInv
  <2>. QED
    BY <2>1, <2>2, <2>3, <2>4 DEF Inv
<1>2. ASSUME NEW c \in CPUs, Step(c) PROVE Inv'
  <2>1. CASE Dispatch(c) \/ SwitchBack(c) \/ Resume(c) \/ Yield(c)
    BY <2>1, DispatchInv, SwitchBackInv, ResumeInv, YieldInv
  <2>2. CASE UserTrap(c) \/ UserRet(c) \/ Kill(c)
    BY <2>2, UserTrapInv, UserRetInv, KillInv
  <2>3. CASE ForkAlloc(c) \/ ForkLink(c) \/ ForkReady(c)
    BY <2>3, ForkAllocInv, ForkLinkInv, ForkReadyInv
  <2>4. CASE ExitLock(c) \/ Reparent(c) \/ Wakeup(c) \/ Zombie(c)
    BY <2>4, ExitLockInv, ReparentInv, WakeupInv, ZombieInv
  <2>5. CASE WaitLock(c) \/ WaitVisit(c) \/ WaitDecide(c) \/ Sleep(c)
    BY <2>5, WaitLockInv, WaitVisitInv, WaitDecideInv, SleepStep
  <2>. QED
    BY <1>2, <2>1, <2>2, <2>3, <2>4, <2>5 DEF Step
<1>. QED
  BY <1>1, <1>2 DEF Next

-----------------------------------------------------------------------------
\* The invariant of proc.c, for any number of processes and CPUs.
THEOREM ProcInvariant == ASSUME ProcAssumption PROVE Spec => []Inv
<1>1. Init => Inv
  BY InitHolds
<1>2. Inv /\ [Next]_vars => Inv'
  BY NextInv
<1>. QED
  BY <1>1, <1>2, PTL DEF Spec

\* No process runs on two CPUs, and with p->lock free its state is RUNNING
\* exactly while a CPU executes it: scheduler() never switches to a stack in use.
THEOREM ProcessOnOneCpu == ASSUME ProcAssumption PROVE Spec => []OneCpu
<1>1. Inv => OneCpu
  <2>. SUFFICES ASSUME Inv PROVE OneCpu
    OBVIOUS
  <2>1. \A c, d \in CPUs : c # d /\ cpu[c] = cpu[d] => cpu[c] = 0
    BY Pointers DEF Inv, CpuInv, TypeOK
  <2>2. \A p \in Procs : lk[p] = Free /\ state[p] # "RUNNING" => \A c \in CPUs : cpu[c] # p
    BY OffCpu
  <2>3. \A p \in Procs : lk[p] = Free /\ state[p] = "RUNNING" => \E c \in CPUs : cpu[c] = p
    BY DEF Inv, CpuInv
  <2>. QED
    BY <2>1, <2>2, <2>3 DEF OneCpu
<1>. QED
  BY <1>1, ProcInvariant, PTL

\* sched() never panics: the CPU that switches holds p->lock and no other lock,
\* and the process has left RUNNING.
THEOREM SchedTestsPass == ASSUME ProcAssumption PROVE Spec => []SchedTests
<1>1. Inv => SchedTests
  BY CpuRange DEF Inv, CpuInv, Switching, WaitInv, SchedTests
<1>. QED
  BY <1>1, ProcInvariant, PTL

\* freeproc() runs only after the last CPU has switched away from the stack.
THEOREM FreedStacksUnused == ASSUME ProcAssumption PROVE Spec => []FreedIsOff
<1>1. Inv => FreedIsOff
  <2>. SUFFICES ASSUME Inv, NEW p \in Procs, state[p] = "UNUSED"
                PROVE  lk[p] = Free /\ \A c \in CPUs : cpu[c] # p
    BY DEF FreedIsOff
  <2>1. \A c \in CPUs : cpu[c] # p
    <3>. SUFFICES ASSUME NEW c \in CPUs, cpu[c] = p PROVE FALSE
      OBVIOUS
    <3>1. sch[c] # "scan"
      BY Pointers DEF Inv, CpuInv
    <3>. QED
      BY <3>1 DEF Inv, TypeOK, CpuInv
  <2>2. lk[p] = Free
    BY <2>1 DEF Inv, TypeOK, CpuInv, Switching
  <2>. QED
    BY <2>1, <2>2
<1>. QED
  BY <1>1, ProcInvariant, PTL

\* exit() and wait() lose no wakeup: with wait_lock free, no process sleeps in
\* wait() while it has a zombie child, its own or one reparent() gave it.
THEOREM ExitsNotLost == ASSUME ProcAssumption PROVE Spec => []NoLostExit
<1>1. Inv => NoLostExit
  <2>. SUFFICES ASSUME Inv, wlock = Free PROVE NoLostExit
    BY DEF NoLostExit
  <2>1. \A r \in Procs : pc[r] # "wake_init"
    BY OneWaiter DEF WaitLockPcs
  <2>. QED
    BY <2>1, Pointers DEF Inv, SleepInv, NoLostExit
<1>. QED
  BY <1>1, ProcInvariant, PTL

\* With wait_lock free every child has a parent that can still wait for it.
THEOREM EveryChildHasParent == ASSUME ProcAssumption PROVE Spec => []ParentsLive
<1>1. Inv => ParentsLive
  BY DEF Inv, FamilyInv, ParentsLive
<1>. QED
  BY <1>1, ProcInvariant, PTL
=============================================================================
