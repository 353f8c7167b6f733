---------------------------- MODULE MCInterrupts ----------------------------
(* Two CPUs and two kernel threads over the locks, or two CPUs and two        *)
(* processes over the registers, side by side: a behaviour is one of the two, *)
(* and the other rests.                                                       *)
EXTENDS Interrupts, TLC

CONSTANTS Harts, Users, Kernel

VARIABLES reg, csr, tf, ctx, on, stack, proc, st, user, kern, part

rvars == <<reg, csr, tf, ctx, on, stack, proc, st, user, kern>>

R == INSTANCE Registers WITH Nil <- None

Symm == Permutations(Harts) \cup Permutations(Users)

MCInit ==
  /\ Init
  /\ \/ /\ part = "locks"
        /\ reg = None /\ csr = None /\ tf = None /\ ctx = None /\ on = None
        /\ stack = None /\ proc = None /\ st = None /\ user = None /\ kern = None
     \/ /\ part = "registers"
        /\ R!Init

MCNext ==
  \/ part = "locks" /\ Next /\ UNCHANGED <<rvars, part>>
  \/ part = "registers" /\ R!Next /\ UNCHANGED <<vars, part>>

MCSpec == MCInit /\ [][MCNext]_<<vars, rvars, part>>

-----------------------------------------------------------------------------
(* Dead state *)

\* Registers of acquire() and wakeup() are dead outside of them, and sched()'s
\* intena outside of the switch.
LocksView ==
  <<locked, intr, noff, intena, cur, state, pc, lk, frame, todo, panic,
    [x \in Contexts |-> IF pc[x] \in {"push", "off", "spin"} THEN <<want[x], ret[x], old[x]>> ELSE None],
    [t \in Threads |-> IF pc[t] = "swtch" THEN saved[t] ELSE FALSE]>>

\* sepc and the others are dead once a handler has read them, the registers
\* that usertrap() is entered with before it has any of its own.
Fresh(c) == \E l \in {"uservec", "usertrap", "kernelvec", "userret"} : R!At(c, l)

LiveRegisters(c) ==
  CASE csr[c].mode = "U" -> <<reg[c], csr[c].sie, csr[c].stvec, csr[c].satp>>
    [] R!At(c, "usertrap") -> <<csr[c], reg[c].tp, reg[c].sp>>
    [] OTHER -> <<[r \in DOMAIN reg[c] \ (IF R!At(c, "uservec") THEN {} ELSE {"gp"}) |-> reg[c][r]],
                  csr[c].mode, csr[c].sie, csr[c].stvec, csr[c].satp,
                  IF Fresh(c) THEN <<csr[c].sepc, csr[c].spp, csr[c].spie, csr[c].scause>> ELSE None>>

\* The saved copies are dead while what they were taken from runs.
RegistersView ==
  <<[c \in Harts |-> LiveRegisters(c)], proc, st, user, kern,
    [p \in Users |-> IF st[p] = "RUNNING" THEN None ELSE <<ctx[p], on[p]>>],
    [c \in Harts |-> IF proc[c] = None THEN None ELSE ctx[c]],
    [x \in DOMAIN stack |-> IF stack[x] = None THEN None
                            ELSE [r \in DOMAIN stack[x] \ {"gp"} |-> stack[x][r]]],
    [p \in Users |-> IF \E c \in Harts : proc[c] = p /\ csr[c].mode = "U"
                     THEN <<tf[p].ksp, tf[p].khart>> ELSE tf[p]]>>

View == IF part = "locks" THEN LocksView ELSE RegistersView

-----------------------------------------------------------------------------
(* Properties *)

\* A process finds the registers it had, in user mode and in the kernel, after
\* every trap, interrupt and context switch and on whatever CPU it goes on.
RegistersKept == part = "registers" => R!RegistersKept
=============================================================================
