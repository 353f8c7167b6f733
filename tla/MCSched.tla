------------------------------- MODULE MCSched ------------------------------
(***************************************************************************)
(* Processes that go on: the scheduler with fork, exit and wait on one     *)
(* CPU, and the shell, each under the fairness its module states.  A       *)
(* behaviour is one of one part, chosen in the initial state; the          *)
(* variables of the other part stay None.                                  *)
(***************************************************************************)
EXTENDS Shell

CONSTANTS NPROC, CPUs, Free, None

VARIABLES
  part,
  state, chan, killed, parent, pc, ctx, child, lk, wlock, scan, wk, cpu, sch, at    \* Proc

\* A pipeline, a list with a background command, and a line that does not parse.
Typed == {<<"x", "|", "x", "|", "x">>, <<"x", "&", ";", "x">>, <<"x", ">">>}

P == INSTANCE Proc

ASSUME P!ProcAssumption

ProcVars == <<state, chan, killed, parent, pc, ctx, child, lk, wlock, scan, wk, cpu, sch, at>>

MCvars == <<part, ProcVars, vars>>

NoProc ==
  /\ state = None /\ chan = None /\ killed = None /\ parent = None /\ pc = None /\ ctx = None
  /\ child = None /\ lk = None /\ wlock = None /\ scan = None /\ wk = None /\ cpu = None
  /\ sch = None /\ at = None
NoShell == ps = None /\ trees = None /\ lost = None /\ fails = None

MCInit ==
  \/ part = "sched" /\ P!Init /\ NoShell
  \/ part = "shell" /\ Init /\ NoProc

\* A step A of one part.
OfProc(A) == part = "sched" /\ A /\ UNCHANGED <<part, vars>>
OfShell(A) == part = "shell" /\ A /\ UNCHANGED <<part, ProcVars>>

\* No process of the shell can go on until the user does something: the machine idles.
Idle == ~(\E x \in Slots : ps[x].pc \in {"parse", "run", "exit"}) /\ UNCHANGED vars

MCNext == OfProc(P!Next) \/ OfShell(Next \/ Idle)

\* The fairness of the modules, the shell's condition taken together with one of the scheduler's.
MCFairness ==
  /\ \A c \in CPUs :
       /\ SF_MCvars(OfProc(P!Dispatch(c)))
       /\ WF_MCvars(OfProc(P!SwitchBack(c)) \/ OfShell(Work))
       /\ WF_MCvars(OfProc(P!Resume(c)))
       /\ SF_MCvars(OfProc(P!Yield(c)))
  /\ \A p \in 1..NPROC : SF_MCvars(OfProc(P!Advance(p)))
  /\ SF_MCvars(OfProc(P!InitWaits))

MCSpec == MCInit /\ [][MCNext]_MCvars /\ MCFairness

-----------------------------------------------------------------------------
\* proc.c: an orphan that exits is reaped by initproc, which reparent() wakes
\* for it wherever it is in its own call of wait().
OrphansReaped ==
  \A q \in 1..NPROC \ {P!initproc} : part = "sched" /\ P!Orphan(q) ~> part = "sched" /\ P!ReapedBefore(q)

\* proc.c: the scan of scheduler() passes over no RUNNABLE process for ever.
RunnableRuns ==
  \A p \in 1..NPROC : part = "sched" /\ state[p] = "RUNNABLE" ~> part = "sched" /\ state[p] = "RUNNING"

\* sh.c and init.c: the shell comes back to its prompt after every line,
\* whatever fails, as every reader of a pipe sees its end and a shell that has
\* died is started again.
PromptComesBack == []<>(part = "shell" => ps[Sh].pc = "prompt")
=============================================================================
