--------------------------------- MODULE Vm ---------------------------------
(***************************************************************************)
(* User address spaces: kernel/kalloc.c, the user half of kernel/vm.c, and *)
(* their users allocproc(), freeproc(), fork() and growproc() of           *)
(* kernel/proc.c, exec() of kernel/exec.c and sys_exec() of                *)
(* kernel/sysfile.c, with every failure to allocate a page and its         *)
(* clean-up.                                                               *)
(*                                                                         *)
(* An operation is one step: operations share nothing but the pool of free *)
(* pages, and what other processes take from it or give back while one is  *)
(* under way can only change where it runs out of pages, as Other() does   *)
(* before it begins.                                                       *)
(*                                                                         *)
(* A page table is a root page, the pages of its interior nodes, and its   *)
(* leaves: level l of the tree has one node per FAN^l pages.               *)
(***************************************************************************)
EXTENDS Integers, Sequences, FiniteSets, SequencesExt

CONSTANTS
  Procs,     \* process slots
  Pages,     \* physical pages
  PGSIZE,    \* bytes in a page
  FAN,       \* entries of a page-table page, 512 in the code
  WORD,      \* sizes are unsigned integers modulo this
  Segments,  \* program segments exec() may find: [vaddr, memsz]
  Argcs,     \* numbers of arguments given to sys_exec()
  Grows,     \* arguments of growproc()
  trampoline, \* the kernel page that holds trampoline.S
  None

VmAssumption ==
  /\ IsFiniteSet(Pages) /\ {None, trampoline} \cap Pages = {}
  /\ PGSIZE \in Nat \ {0} /\ FAN \in Nat \ {0, 1} /\ WORD \in Nat
  /\ WORD >= FAN * FAN * FAN * PGSIZE /\ WORD % PGSIZE = 0
  /\ Cardinality(Pages) < FAN * FAN * FAN - 2

\* Page numbers of the two highest mappings, TRAMPOLINE and TRAPFRAME.
TRAMPOLINE == FAN * FAN * FAN - 1
TRAPFRAME == TRAMPOLINE - 1

VARIABLES
  free,    \* kmem.freelist
  others,  \* pages in use elsewhere in the kernel
  proc,    \* p->trapframe, p->pagetable and p->sz of every slot
  failed,  \* the last operation returned an error
  panic    \* a panic of vm.c was reached

vars == <<free, others, proc, failed, panic>>

NoTable == [root |-> None, nodes |-> <<>>, leaf |-> <<>>]
Unused == [trapframe |-> None, pt |-> NoTable, sz |-> 0]

PGROUNDUP(n) == ((n + PGSIZE - 1) \div PGSIZE) * PGSIZE
Page(n) == PGROUNDUP(n) \div PGSIZE
PageSeq(a, b) == [k \in 1..(IF a < b THEN b - a ELSE 0) |-> a + k - 1]

Extend(f, x, y) == [z \in DOMAIN f \cup {x} |-> IF z = x THEN y ELSE f[z]]
Without(f, x) == [z \in DOMAIN f \ {x} |-> f[z]]

-----------------------------------------------------------------------------
(* A computation m: the free pages, the page table pt being built, whether *)
(* it has succeeded so far, and whether it reached a panic.                *)

Begin(f, table) == [free |-> f, pt |-> table, ok |-> TRUE, panic |-> FALSE]

\* kalloc() returns a free page, if there is one.
Kalloc(m) == CHOOSE pg \in m.free : TRUE
Kfree(m, pg) == [m EXCEPT !.free = @ \cup {pg}, !.panic = @ \/ pg \in m.free]

\* walk() with alloc: the nodes on the way to page va, level by level.
Walk(m, va) ==
  LET Step(n, l) ==
        LET node == <<l, va \div (FAN ^ l)>> IN
        IF ~n.ok \/ node \in DOMAIN n.pt.nodes THEN n
        ELSE IF n.free = {} THEN [n EXCEPT !.ok = FALSE]
        ELSE [n EXCEPT !.free = @ \ {Kalloc(n)}, !.pt.nodes = Extend(@, node, Kalloc(n))]
  IN FoldLeft(Step, m, <<2, 1>>)

\* mappages() of one page, after walk() has led to n.
MapAt(n, va, pg) ==
  IF ~n.ok THEN n
  ELSE [n EXCEPT !.panic = @ \/ va \in DOMAIN n.pt.leaf, !.pt.leaf = Extend(@, va, pg)]

Mappages(m, va, pg) == MapAt(Walk(m, va), va, pg)

\* uvmunmap() of the pages from a up to b.
Uvmunmap(m, a, b, do_free) ==
  LET Step(n, va) ==
        IF va \notin DOMAIN n.pt.leaf THEN [n EXCEPT !.panic = TRUE]
        ELSE [(IF do_free THEN Kfree(n, n.pt.leaf[va]) ELSE n) EXCEPT !.pt.leaf = Without(@, va)]
  IN FoldLeft(Step, m, PageSeq(a, b))

\* uvmdealloc() that rounds the new size down.
UvmdeallocDown(m, oldsz, newsz) ==
  IF newsz >= oldsz THEN m ELSE Uvmunmap(m, newsz \div PGSIZE, Page(oldsz), TRUE)

\* uvmdealloc().
Uvmdealloc(m, oldsz, newsz) ==
  IF newsz >= oldsz THEN m ELSE Uvmunmap(m, Page(newsz), Page(oldsz), TRUE)

\* Forgets the page mappages() could not map.
UndoKeepsPage(n, mem, a, va) == IF n.ok THEN n ELSE Uvmunmap(n, a, va, TRUE)

\* A page that mappages() could not map is freed, and those from a on too.
Undo(n, mem, a, va) == IF n.ok THEN n ELSE Uvmunmap(Kfree(n, mem), a, va, TRUE)

\* The loop of uvmalloc() and of uvmcopy(): a new page at each page number
\* from a up to b; when one is missing those before it are unmapped and freed.
MapNewPages(m, a, b) ==
  LET Step(n, va) ==
        IF ~n.ok THEN n
        ELSE IF n.free = {} THEN [Uvmunmap(n, a, va, TRUE) EXCEPT !.ok = FALSE]
        ELSE Undo(Mappages([n EXCEPT !.free = @ \ {Kalloc(n)}], va, Kalloc(n)), Kalloc(n), a, va)
  IN FoldLeft(Step, m, PageSeq(a, b))

\* uvmalloc(); nothing to do when the size does not grow.
Uvmalloc(m, oldsz, newsz) == MapNewPages(m, Page(oldsz), Page(newsz))

\* uvmcopy() panics if a page of the parent below its size is not mapped.
Uvmcopy(m, parent, sz) ==
  [MapNewPages(m, 0, Page(sz)) EXCEPT !.panic = @ \/ ~(0..Page(sz) - 1 \subseteq DOMAIN parent.leaf)]

\* freewalk(): the interior nodes and the root; no leaf may be left.
Freewalk(m) ==
  LET t == m.pt
      gone == {t.nodes[x] : x \in DOMAIN t.nodes} \cup {t.root} IN
  [m EXCEPT !.free = @ \cup gone, !.pt = NoTable,
            !.panic = @ \/ DOMAIN t.leaf # {} \/ gone \cap m.free # {}]

Uvmfree(m, sz) == Freewalk(Uvmunmap(m, 0, Page(sz), TRUE))

\* proc_freepagetable() that frees the trampoline page, too.
FreePagetableAll(m, sz) ==
  Uvmfree(Uvmunmap(Uvmunmap(m, TRAMPOLINE, TRAMPOLINE + 1, TRUE),
                   TRAPFRAME, TRAPFRAME + 1, FALSE), sz)

\* proc_freepagetable().
FreePagetable(m, sz) ==
  Uvmfree(Uvmunmap(Uvmunmap(m, TRAMPOLINE, TRAMPOLINE + 1, FALSE),
                   TRAPFRAME, TRAPFRAME + 1, FALSE), sz)

\* proc_pagetable(): root, trampoline and trapframe, or nothing.
WithTrapframe(m) ==
  IF m.ok THEN m ELSE Uvmfree(Uvmunmap(m, TRAMPOLINE, TRAMPOLINE + 1, FALSE), 0)

WithTrampoline(m, trapframe) ==
  IF m.ok THEN WithTrapframe(Mappages(m, TRAPFRAME, trapframe)) ELSE Uvmfree(m, 0)

ProcPagetable(m, trapframe) ==
  IF m.free = {} THEN [m EXCEPT !.ok = FALSE]
  ELSE WithTrampoline(
         Mappages([m EXCEPT !.free = @ \ {Kalloc(m)}, !.pt = [NoTable EXCEPT !.root = Kalloc(m)]],
                  TRAMPOLINE, trampoline),
         trapframe)

-----------------------------------------------------------------------------
(* Operations *)

\* kinit(), and the first process as userinit() leaves it.
Init ==
  LET tf == CHOOSE pg \in Pages : TRUE
      m == Uvmalloc(ProcPagetable(Begin(Pages \ {tf}, NoTable), tf), 0, PGSIZE)
      first == CHOOSE p \in Procs : TRUE IN
  /\ free = m.free /\ others = {}
  /\ proc = [p \in Procs |-> IF p = first THEN [trapframe |-> tf, pt |-> m.pt, sz |-> PGSIZE]
                             ELSE Unused]
  /\ failed = FALSE /\ panic = FALSE

Live(p) == proc[p].trapframe # None

\* The pool of free pages as pipes, kernel stacks and other CPUs use it.
Other ==
  /\ ~panic
  /\ \/ \E pg \in free : free' = free \ {pg} /\ others' = others \cup {pg}
     \/ \E pg \in others : others' = others \ {pg} /\ free' = free \cup {pg}
  /\ failed' = FALSE
  /\ UNCHANGED <<proc, panic>>

\* fork(): allocproc(), uvmcopy(); freeproc() if either fails.
ForkCopied(m, tf) == IF m.ok THEN m ELSE FreePagetable(Kfree(m, tf), 0)

ForkTable(m, tf, parent) ==
  IF m.ok THEN ForkCopied(Uvmcopy(m, parent.pt, parent.sz), tf) ELSE Kfree(m, tf)

Fork(p, q) ==
  /\ Live(p) /\ ~Live(q) /\ ~panic
  /\ \/ free = {} /\ failed' = TRUE /\ UNCHANGED <<free, proc, panic>>
     \/ /\ free # {}
        /\ LET tf == CHOOSE pg \in free : TRUE IN
           \E m \in {ForkTable(ProcPagetable(Begin(free \ {tf}, NoTable), tf), tf, proc[p])} :
             /\ failed' = ~m.ok /\ free' = m.free /\ panic' = m.panic
             /\ proc' = IF ~m.ok THEN proc
                        ELSE [proc EXCEPT ![q] = [trapframe |-> tf, pt |-> m.pt, sz |-> proc[p].sz]]
  /\ UNCHANGED others

\* freeproc(), as wait() calls it.
Freeproc(p) ==
  /\ Live(p) /\ ~panic
  /\ \E q \in Procs \ {p} : Live(q)
  /\ \E m \in {FreePagetable(Kfree(Begin(free, proc[p].pt), proc[p].trapframe), proc[p].sz)} :
       free' = m.free /\ panic' = m.panic
  /\ proc' = [proc EXCEPT ![p] = Unused]
  /\ failed' = FALSE
  /\ UNCHANGED others

\* sbrk(): growproc(n).
Growproc(p, n) ==
  LET old == proc[p].sz
      newsz == (old + n) % WORD
      sz1 == IF n > 0 THEN Max({old, newsz}) ELSE Min({old, newsz}) IN
  /\ Live(p) /\ ~panic
  /\ \E m \in {IF n > 0 THEN Uvmalloc(Begin(free, proc[p].pt), old, newsz)
               ELSE Uvmdealloc(Begin(free, proc[p].pt), old, newsz)} :
       /\ free' = m.free /\ panic' = m.panic /\ failed' = ~m.ok
       /\ proc' = [proc EXCEPT ![p].pt = m.pt, ![p].sz = IF m.ok THEN sz1 ELSE old]
  /\ UNCHANGED others

\* One program header of exec(): uvmalloc() up to the end of the segment; a
\* size of 0 is taken for an error; then loadseg(), which panics when a page
\* it reads into does not exist.  x is [m, sz].
Loadseg(m, seg) ==
  [m EXCEPT !.panic = @ \/ ~(seg.vaddr \div PGSIZE .. Page(seg.vaddr + seg.memsz) - 1 \subseteq DOMAIN m.pt.leaf)]

Loaded(x, m, seg, sz1) ==
  IF m.ok /\ sz1 # 0 THEN [m |-> Loadseg(m, seg), sz |-> sz1]
  ELSE [m |-> [m EXCEPT !.ok = FALSE], sz |-> x.sz]

\* A segment is allocated from its own start on, not from the end of the last.
LoadSegmentAlone(x, seg) ==
  LET end == seg.vaddr + seg.memsz IN
  IF ~x.m.ok THEN x ELSE Loaded(x, Uvmalloc(x.m, seg.vaddr, end), seg, Max({x.sz, end}))

LoadSegment(x, seg) ==
  LET end == seg.vaddr + seg.memsz IN
  IF ~x.m.ok THEN x ELSE Loaded(x, Uvmalloc(x.m, x.sz, end), seg, Max({x.sz, end}))

\* exec() gives up with the size it asked for.
BadSizeAsked(reached, asked) == asked

\* bad: proc_freepagetable(pagetable, sz), with the size reached so far.
BadSize(reached, asked) == reached

\* What n calls of kalloc() return: n free pages, or all of them.
FreePages(n) ==
  LET Take(S, k) == IF S = free THEN S ELSE S \cup {CHOOSE pg \in free \ S : TRUE} IN
  FoldLeft(Take, {}, PageSeq(0, n))

\* sys_exec() gives back the pages of argv only when exec() succeeds.
KfreeArgvIfOk(f, argv, ok) == IF ok THEN f \cup argv ELSE f

\* sys_exec() gives back the pages of argv, whatever exec() returned.
KfreeArgv(f, argv, ok) == f \cup argv

\* exec() that installs the new image before it copies the arguments.
CommitsEarly(ok, fault) == ok

\* exec() installs the new image once nothing can fail any more.
Commits(ok, fault) == ok /\ fault = "none"

\* exec(), with what is free when it begins: a new page table, the segments,
\* guard page and stack; then either the old one is freed, or, when something
\* fails, the new one.  fault is where a bad header, loadseg() or the copying
\* of the arguments fails: in the last of segs, in the arguments, or nowhere.
\* The pages argv are given back at the end of sys_exec().
Exec(p, argv, segs, fault) ==
  \E a \in {ProcPagetable(Begin(free \ argv, NoTable), proc[p].trapframe)} :
    \/ /\ ~a.ok
       /\ free' = KfreeArgv(a.free, argv, FALSE) /\ panic' = a.panic /\ failed' = TRUE
       /\ UNCHANGED proc
    \/ /\ a.ok
       /\ \E b \in {FoldLeft(LoadSegment, [m |-> a, sz |-> 0], segs)} :
            LET loaded == b.m.ok /\ fault # "segment"
                base == PGROUNDUP(b.sz)
                top == base + 2 * PGSIZE IN
            \E c \in {IF loaded THEN Uvmalloc(b.m, base, top) ELSE [b.m EXCEPT !.ok = FALSE]} :
              LET reached == IF c.ok THEN top ELSE IF loaded THEN base ELSE b.sz IN
              IF Commits(c.ok, fault)
              THEN \E m \in {FreePagetable([c EXCEPT !.pt = proc[p].pt], proc[p].sz)} :
                     /\ free' = KfreeArgv(m.free, argv, TRUE) /\ panic' = m.panic
                     /\ failed' = (fault # "none")
                     /\ proc' = [proc EXCEPT ![p].pt = c.pt, ![p].sz = top]
              ELSE \E m \in {FreePagetable(c, BadSize(reached, top))} :
                     /\ free' = KfreeArgv(m.free, argv, FALSE) /\ panic' = m.panic
                     /\ failed' = TRUE
                     /\ UNCHANGED proc

\* sys_exec(): a page for each of the n arguments, as long as there are any;
\* fetchaddr() or fetchstr() may fail (fault "fetch").
SysExec(p, n, segs, fault) ==
  LET argv == FreePages(n) IN
  /\ Live(p) /\ ~panic
  /\ IF Cardinality(argv) < n \/ fault = "fetch"
     THEN /\ free' = KfreeArgv(free \ argv, argv, FALSE) /\ failed' = TRUE
          /\ UNCHANGED <<proc, panic>>
     ELSE Exec(p, argv, segs, fault)
  /\ UNCHANGED others

Next ==
  \/ Other
  \/ \E p \in Procs :
       \/ Freeproc(p)
       \/ \E q \in Procs : Fork(p, q)
       \/ \E n \in Grows : Growproc(p, n)
       \/ \E n \in Argcs, segs \in BoundedSeq(Segments, 2), fault \in {"none", "fetch", "segment", "argument"} :
            SysExec(p, n, segs, fault)

Spec == Init /\ [][Next]_vars

-----------------------------------------------------------------------------
(* Properties *)

TypeOK ==
  /\ free \subseteq Pages /\ others \subseteq Pages
  /\ \A p \in Procs :
       /\ proc[p].trapframe \in Pages \cup {None} /\ proc[p].sz \in 0..WORD - 1
       /\ Live(p) => proc[p].pt.root \in Pages
  /\ failed \in BOOLEAN /\ panic \in BOOLEAN

\* The uses of pages by a process: which page, and for what.
Uses(p) ==
  LET t == proc[p].pt IN
  IF ~Live(p) THEN {}
  ELSE {<<proc[p].trapframe, p, "trapframe">>, <<t.root, p, "root">>}
       \cup {<<t.nodes[x], p, x>> : x \in DOMAIN t.nodes}
       \cup {<<t.leaf[va], p, va>> : va \in DOMAIN t.leaf \ {TRAMPOLINE, TRAPFRAME}}

\* After any sequence of operations, failed ones included, every page is free
\* or in exactly one use: none is leaked, freed twice or shared.
PagesAccounted ==
  LET uses == UNION {Uses(p) : p \in Procs}
      used == {u[1] : u \in uses} IN
  /\ Cardinality(uses) = Cardinality(used)
  /\ used \cap (free \cup others) = {} /\ free \cap others = {}
  /\ used \cup free \cup others = Pages

\* None of "remap", "not mapped", "freewalk: leaf" and the like happens.
NoPanic == ~panic

\* A process has exactly the pages below its size, which is what fork(),
\* freeproc() and uvmcopy() rely on.
SizeIsMapped ==
  \A p \in Procs : Live(p) =>
    DOMAIN proc[p].pt.leaf = 0..Page(proc[p].sz) - 1 \cup {TRAMPOLINE, TRAPFRAME}

\* A fork(), exec() or sbrk() that returns -1 leaves the memory of every
\* process as it was: the caller of a failed exec() goes on running its old
\* image.  (With PagesAccounted, every page is given back too, except for
\* page-table pages that growproc() leaves in the tree of its own process.)
FailureStep ==
  failed' =>
    \A p \in Procs :
      /\ Live(p)' = Live(p)
      /\ proc'[p].sz = proc[p].sz
      /\ proc'[p].pt.leaf = proc[p].pt.leaf
=============================================================================
