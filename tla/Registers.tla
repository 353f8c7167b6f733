----------------------------- MODULE Registers ------------------------------
(***************************************************************************)
(* Registers over traps and context switches: trampoline.S, kernelvec.S    *)
(* and swtch.S with usertrap(), usertrapret() and kerneltrap() of          *)
(* kernel/trap.c and the callers of swtch() in kernel/proc.c.              *)
(*                                                                         *)
(* Registers that the code treats alike are one: "t" is t0-t6 and a1-a7,   *)
(* "s" is s0-s11.  Each value says whose it is, so a register that is not  *)
(* saved, or saved in the wrong place, shows.  User code and kernel code   *)
(* only change all their registers; C code keeps "s" and the stack and     *)
(* rebuilds the others, which a called function may change, from "s".  The *)
(* code between two points where an interrupt can come is one step.        *)
(***************************************************************************)
EXTENDS Integers, TLC

CONSTANTS
  Harts,    \* CPUs
  Users,    \* processes
  Kernel,   \* satp of the kernel page table
  Nil       \* no process; the contents of a register nobody counts on

VARIABLES
  reg,      \* registers and pc of each CPU
  csr,      \* its mode, sie, spp, spie, sepc, scause, stvec and satp
  tf,       \* p->trapframe
  ctx,      \* p->context and mycpu()->context
  on,       \* sched()'s intena, on the stack of the process
  stack,    \* what kernelvec and kerneltrap() push on each kernel stack
  proc,     \* mycpu()->proc
  st,       \* p->state
  user,     \* the registers and pc that the user code of each process has
  kern      \* and the version of those that kernel code last had

vars == <<reg, csr, tf, ctx, on, stack, proc, st, user, kern>>

General == {"ra", "sp", "gp", "tp", "t", "s", "a0"}
CallerSaved == {"ra", "t", "a0"}

Pc(l) == <<l>>
UserRegs(p, n) == [r \in General \cup {"pc"} |-> <<p, n, r>>]
AfterEcall(pc) == <<pc[1], pc[2], "next">>

Init ==
  /\ reg = [c \in Harts |-> [r \in General \cup {"pc"} |->
              CASE r = "tp" -> c [] r = "sp" -> <<c, 0>> [] r = "pc" -> Pc("scheduler")
                [] r = "gp" -> Nil [] OTHER -> <<c, 0>>]]
  /\ csr = [c \in Harts |-> [mode |-> "S", sie |-> TRUE, spp |-> "S", spie |-> TRUE, sepc |-> Nil,
                             scause |-> "device", stvec |-> Pc("kernelvec"), satp |-> Kernel]]
  /\ tf = [p \in Users |-> [r \in General |-> UserRegs(p, 0)[r]]
                           @@ [epc |-> UserRegs(p, 0).pc, ksp |-> Nil, khart |-> Nil]]
  /\ ctx = [x \in Users \cup Harts |-> [ra |-> Pc("forkret"), sp |-> <<x, 0>>, s |-> Nil]]
  /\ on = [p \in Users |-> FALSE]
  /\ stack = [x \in Users \cup Harts |-> Nil]
  /\ proc = [c \in Harts |-> Nil]
  /\ st = [p \in Users |-> "RUNNABLE"]
  /\ user = [p \in Users |-> UserRegs(p, 0)]
  /\ kern = [x \in Users \cup Harts |-> 0]

At(c, l) == csr[c].mode = "S" /\ reg[c].pc = Pc(l)

\* myproc(): through tp.
Myproc(c) == proc[reg[c].tp]

-----------------------------------------------------------------------------
(* Traps *)

\* User code computes.
UserCode(c) ==
  LET p == proc[c]
      n == 1 - reg[c].pc[2] IN
  /\ csr[c].mode = "U"
  /\ reg' = [reg EXCEPT ![c] = UserRegs(p, n)]
  /\ user' = [user EXCEPT ![p] = UserRegs(p, n)]
  /\ UNCHANGED <<csr, tf, ctx, on, stack, proc, st, kern>>

\* The hardware: an ecall of user code, or an interrupt that is not masked.
Trap(c, cause) ==
  /\ csr[c].sie
  /\ cause = "ecall" => csr[c].mode = "U"
  /\ csr' = [csr EXCEPT ![c].sepc = reg[c].pc, ![c].spp = csr[c].mode, ![c].spie = TRUE,
                        ![c].sie = FALSE, ![c].mode = "S", ![c].scause = cause]
  /\ reg' = [reg EXCEPT ![c].pc = csr[c].stvec]
  /\ UNCHANGED <<tf, ctx, on, stack, proc, st, user, kern>>

\* uservec: everything goes to the trapframe that the user page table maps, a0
\* through sscratch; then the kernel's stack, hartid and page table.
Uservec(c) ==
  LET p == csr[c].satp IN
  /\ At(c, "uservec") /\ p \in Users
  /\ tf' = [tf EXCEPT ![p] = [r \in General |-> reg[c][r]] @@ @]
  /\ reg' = [reg EXCEPT ![c].sp = tf[p].ksp, ![c].tp = tf[p].khart, ![c].t = Nil, ![c].a0 = Nil,
                        ![c].pc = Pc("usertrap")]
  /\ csr' = [csr EXCEPT ![c].satp = Kernel]
  /\ UNCHANGED <<ctx, on, stack, proc, st, user, kern>>

\* usertrap(): a system call goes on with interrupts on, after the ecall; a
\* timer interrupt yields.
Usertrap(c) ==
  LET p == Myproc(c)
      pc == csr[c].sepc
      call == csr[c].scause = "ecall" IN
  /\ At(c, "usertrap")
  /\ csr' = [csr EXCEPT ![c].stvec = Pc("kernelvec"), ![c].sie = call]
  /\ tf' = [tf EXCEPT ![p].epc = IF call THEN AfterEcall(pc) ELSE pc]
  /\ user' = [user EXCEPT ![p].pc = IF call THEN AfterEcall(pc) ELSE pc]
  /\ kern' = [kern EXCEPT ![p] = 0]
  /\ reg' = [reg EXCEPT ![c] =
       [r \in {"pc"} |-> Pc(IF call THEN "syscall" ELSE IF csr[c].scause = "timer" THEN "yield" ELSE "ret")]
       @@ [r \in CallerSaved \cup {"s"} |-> <<p, 0>>] @@ @]
  /\ UNCHANGED <<ctx, on, stack, proc, st>>

\* Kernel code of a system call computes.
KernelCode(c) ==
  LET p == proc[c] IN
  /\ At(c, "syscall")
  /\ kern' = [kern EXCEPT ![p] = 1 - @]
  /\ reg' = [reg EXCEPT ![c] = [r \in CallerSaved \cup {"s"} |-> <<p, 1 - kern[p]>>] @@ @]
  /\ UNCHANGED <<csr, tf, ctx, on, stack, proc, st, user>>

\* syscall(): p->trapframe->a0 = the result.
Syscall(c) ==
  LET p == Myproc(c) IN
  /\ At(c, "syscall")
  /\ tf' = [tf EXCEPT ![p].a0 = <<p, 0, "result">>]
  /\ user' = [user EXCEPT ![p].a0 = <<p, 0, "result">>]
  /\ reg' = [reg EXCEPT ![c].pc = Pc("ret")]
  /\ UNCHANGED <<csr, ctx, on, stack, proc, st, kern>>

\* usertrapret() without intr_off().
UsertrapretOpen(c) ==
  /\ At(c, "ret") \/ At(c, "forkret")
  /\ reg' = [reg EXCEPT ![c].pc = Pc("setup")]
  /\ UNCHANGED <<csr, tf, ctx, on, stack, proc, st, user, kern>>

\* usertrapret(): intr_off() ...
UsertrapretOff(c) ==
  /\ At(c, "ret") \/ At(c, "forkret")
  /\ csr' = [csr EXCEPT ![c].sie = FALSE]
  /\ reg' = [reg EXCEPT ![c].pc = Pc("setup")]
  /\ UNCHANGED <<tf, ctx, on, stack, proc, st, user, kern>>

\* ... then what uservec and sret will need.
UsertrapretSetup(c) ==
  LET p == Myproc(c) IN
  /\ At(c, "setup")
  /\ tf' = [tf EXCEPT ![p].ksp = <<p, 0>>, ![p].khart = reg[c].tp]
  /\ csr' = [csr EXCEPT ![c].stvec = Pc("uservec"), ![c].spp = "U", ![c].spie = TRUE,
                        ![c].sepc = tf[p].epc]
  /\ reg' = [reg EXCEPT ![c].pc = Pc("userret"), ![c].a0 = p]
  /\ UNCHANGED <<ctx, on, stack, proc, st, user, kern>>

\* userret: the page table in a0, the registers, sret.
Userret(c) ==
  LET p == reg[c].a0 IN
  /\ At(c, "userret")
  /\ reg' = [reg EXCEPT ![c] = [r \in General |-> tf[p][r]] @@ [pc |-> csr[c].sepc]]
  /\ csr' = [csr EXCEPT ![c].satp = p, ![c].mode = csr[c].spp, ![c].sie = csr[c].spie]
  /\ UNCHANGED <<tf, ctx, on, stack, proc, st, user, kern>>

-----------------------------------------------------------------------------
(* Traps from kernel code *)

\* kernelvec and kerneltrap(): the frame goes where sp points; a timer
\* interrupt yields if there is a process.
Kernelvec(c) ==
  LET x == reg[c].sp[1] IN
  /\ At(c, "kernelvec")
  /\ stack' = [stack EXCEPT ![x] = [r \in (General \ {"s"}) |-> reg[c][r]]
                 @@ [sepc |-> csr[c].sepc, spp |-> csr[c].spp, spie |-> csr[c].spie]]
  /\ reg' = [reg EXCEPT ![c] =
       [r \in {"pc"} |-> Pc(IF csr[c].scause = "timer" /\ Myproc(c) # Nil THEN "kyield" ELSE "kreturn")]
       @@ [r \in {"sp"} |-> <<x, 1>>] @@ [r \in CallerSaved |-> Nil] @@ @]
  /\ UNCHANGED <<csr, tf, ctx, on, proc, st, user, kern>>

\* What the end of kernelvec loads, with tp among it.
RestoredWithTp == {"ra", "gp", "tp", "t", "a0"}

\* What the end of kernelvec loads: "not tp (contains hartid)".
Restored == {"ra", "gp", "t", "a0"}

\* kerneltrap() that relies on sepc.
SretPcOfHart(c, f) == csr[c].sepc

\* w_sepc(sepc): interrupts on this CPU may have changed it since.
SretPc(c, f) == f.sepc

\* The end of kerneltrap() and of kernelvec, with its sret.
KernelvecReturn(c) ==
  LET x == reg[c].sp[1]
      f == stack[x] IN
  /\ At(c, "kreturn")
  /\ reg' = [reg EXCEPT ![c] = [r \in Restored |-> f[r]]
               @@ [r \in {"pc"} |-> SretPc(c, f)] @@ [r \in {"sp"} |-> <<x, 0>>] @@ @]
  /\ csr' = [csr EXCEPT ![c].sepc = f.sepc, ![c].spp = f.spp, ![c].spie = f.spie,
                        ![c].mode = f.spp, ![c].sie = f.spie]
  /\ stack' = [stack EXCEPT ![x] = Nil]
  /\ UNCHANGED <<tf, ctx, on, proc, st, user, kern>>

-----------------------------------------------------------------------------
(* swtch() *)

\* What swtch() saves and loads when it forgets s0-s11.
SavedWithoutS(c) == [ra |-> reg[c].ra, sp |-> reg[c].sp, s |-> Nil]

\* The context of the code that calls swtch().
SavedContext(c) == [ra |-> reg[c].ra, sp |-> reg[c].sp, s |-> reg[c].s]

\* CPU c leaves its registers in ctx[from], to continue at l, and goes on from
\* ctx[to]; what the C code there needs it has kept in s.
Swtch(c, from, l, to) ==
  /\ ctx' = [ctx EXCEPT ![from] = [SavedContext(c) EXCEPT !.ra = Pc(l)]]
  /\ reg' = [reg EXCEPT ![c] = [r \in {"pc"} |-> ctx[to].ra] @@ [r \in {"sp"} |-> ctx[to].sp]
               @@ [r \in CallerSaved \cup {"s"} |-> ctx[to].s] @@ @]

\* yield() in usertrap() or kerneltrap(), and sleep() in a system call: under
\* p->lock, so with interrupts off, p leaves and the scheduler releases it:
\* interrupts are then as p had them, for mycpu()->intena is still p's.
Sched(c) ==
  LET p == Myproc(c) IN
  /\ \/ At(c, "yield") /\ Swtch(c, p, "ret", reg[c].tp) /\ st' = [st EXCEPT ![p] = "RUNNABLE"]
     \/ At(c, "kyield") /\ Swtch(c, p, "kreturn", reg[c].tp) /\ st' = [st EXCEPT ![p] = "RUNNABLE"]
     \/ At(c, "syscall") /\ Swtch(c, p, "syscall", reg[c].tp) /\ st' = [st EXCEPT ![p] = "SLEEPING"]
  /\ on' = [on EXCEPT ![p] = csr[c].sie]
  /\ proc' = [proc EXCEPT ![reg[c].tp] = Nil]
  /\ UNCHANGED <<csr, tf, stack, user, kern>>

\* scheduler() starts another round.
IntrOn(c) ==
  /\ At(c, "scheduler") /\ ~csr[c].sie /\ csr' = [csr EXCEPT ![c].sie = TRUE]
  /\ UNCHANGED <<reg, tf, ctx, on, stack, proc, st, user, kern>>

\* scheduler() switches to a RUNNABLE process, which releases its lock and so
\* gets its interrupts back; in forkret() they are as the scheduler had them.
Scheduler(c) ==
  /\ At(c, "scheduler")
  /\ \E p \in Users :
       /\ st[p] = "RUNNABLE"
       /\ st' = [st EXCEPT ![p] = "RUNNING"]
       /\ proc' = [proc EXCEPT ![reg[c].tp] = p]
       /\ Swtch(c, reg[c].tp, "scheduler", p)
       /\ csr' = [csr EXCEPT ![c].sie = IF ctx[p].ra = Pc("forkret") THEN @ ELSE on[p]]
  /\ UNCHANGED <<tf, on, stack, user, kern>>

\* wakeup() of a sleeper.
Wakeup(p) ==
  /\ st[p] = "SLEEPING" /\ st' = [st EXCEPT ![p] = "RUNNABLE"]
  /\ UNCHANGED <<reg, csr, tf, ctx, on, stack, proc, user, kern>>

Next ==
  \/ \E c \in Harts :
       \/ UserCode(c) \/ Uservec(c) \/ Usertrap(c) \/ KernelCode(c) \/ Syscall(c)
       \/ UsertrapretOff(c) \/ UsertrapretSetup(c) \/ Userret(c)
       \/ Kernelvec(c) \/ KernelvecReturn(c)
       \/ Sched(c) \/ IntrOn(c) \/ Scheduler(c)
       \/ \E cause \in {"ecall", "timer", "device"} : Trap(c, cause)
  \/ \E p \in Users : Wakeup(p)

Spec == Init /\ [][Next]_vars

-----------------------------------------------------------------------------
(* Properties *)

\* The registers that kernel code of x counts on are those it last had.
KernelSees(c, x) ==
  /\ reg[c].sp = <<x, 0>>
  /\ \A r \in CallerSaved \cup {"s"} : reg[c][r] = <<x, kern[x]>>

\* User code finds the registers and pc it had before a trap, but for the
\* result of a system call, wherever it runs next; kernel code finds its own
\* after an interrupt and after swtch(), and the number of its CPU in tp;
\* a trap from user mode goes to uservec and one from the kernel to kernelvec.
RegistersKept ==
  \A c \in Harts :
    /\ csr[c].mode = "U" => reg[c] = user[proc[c]] /\ csr[c].satp = proc[c] /\ csr[c].sie
    /\ csr[c].mode = "S" /\ reg[c].pc # Pc("uservec") => reg[c].tp = c
    /\ At(c, "uservec") => csr[c].spp = "U"
    /\ At(c, "kernelvec") => csr[c].spp = "S"
    /\ At(c, "syscall") => KernelSees(c, proc[c])
    /\ At(c, "scheduler") => KernelSees(c, c)
=============================================================================
