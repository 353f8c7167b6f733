----------------------------- MODULE MCPrograms -----------------------------
(***************************************************************************)
(* Programs on small instances: the shell and its parser, the user         *)
(* library's heap, string and formatting functions, programs that filter   *)
(* their input, the kernel's access to user memory, and mkfs.  They share  *)
(* no state: a behaviour is one of one part, chosen in the initial state,  *)
(* and the variables of the other parts stay None.                         *)
(***************************************************************************)
EXTENDS Shell

CONSTANTS MinUnits, MaxBrk, DIRSIZ, Bits, BufSize,
          PGSIZE, VaBits, MAXVA, Word,
          FSSIZE, BSIZE, BPB, IPB, NINODES, LOGSIZE, NDIRECT, NINDIRECT, MaxFiles, None

VARIABLES
  part,
  h, freep, live, brk, arena, early,                     \* Umalloc
  line, alpha,                                           \* ShParse
  kind, a, b,                                            \* Library
  prog, args, f, pos, buf, out, file, res, failed,       \* Filters
  pte, mem,                                              \* Copy
  img, freeinode, freeblock, files, at, pc               \* Mkfs

\* Lines for the shell: a pipeline, a background list, a block in a pipe,
\* redirections, one that does not parse and one that the shell runs itself.
Typed == {<<"x", "|", "x", "|", "x">>, <<"x", "&", ";", "x">>, <<"(", "x", ";", "x", ")", "|", "x", ">", "x">>,
          <<"x", "<", "x", "|", "(", "x", ">", "x", ")">>, <<"x", ">">>, <<"c", "d", " ">>}

Seqs(S, n) == UNION {[1..k -> S] : k \in 0..n}

\* Files for the filters: "n" is the newline, "0" a NUL.
Texts == Seqs({"a", "n", " ", "0"}, 3) \cup [1..4 -> {"a", "n"}] \cup [1..5 -> {"a", "n"}]
Ones(T) == {<<t>> : t \in T}
Pairs(T) == {<<t, u>> : t, u \in T \cup {<<"missing">>}}
Patterns == Seqs({"a", ".", "*", "^", "$"}, 4)
TestLines == {<<"n">>, <<"a", "n">>, <<"b", "a", "n">>, <<"a", "b", "n">>, <<"a", "$", "n">>}
Commands ==
  ({<<"cat">>, <<"wc">>} \X (Ones(Texts) \cup Pairs(Seqs({"a", "n", " "}, 2))))
  \cup ({<<"tee">>} \X Ones(Texts))
  \cup ({<<"grep", <<"a">>>>} \X (Ones(Texts) \cup Pairs(Seqs({"a", "n"}, 3))))
  \cup ({<<"grep", re>> : re \in Patterns} \X Ones(TestLines))

\* Lines for the parser: all characters on short ones, fewer on longer ones.
Alphabets == {[chars |-> {"x", " ", "<", "|", ">", "&", ";", "(", ")"}, len |-> 4],
              [chars |-> {"x", " ", ">", "<"}, len |-> 6],
              [chars |-> {"x", "&", ";", "("}, len |-> 6],
              [chars |-> {"x", "|", "(", ")"}, len |-> 6]}

H == INSTANCE Umalloc WITH Requests <- {0, 17, 80}
L == INSTANCE Library
F == INSTANCE Filters WITH fails <- failed
C == INSTANCE Copy
M == INSTANCE Mkfs WITH Lengths <- {0, 1, 4, 6, 16, 17}

hvars == <<h, freep, live, brk, arena, early>>
svars == <<line, alpha>>
lvars == <<kind, a, b>>
fvars == <<prog, args, f, pos, buf, out, file, res, failed>>
cvars == <<pte, mem>>
mvars == <<img, freeinode, freeblock, files, at, pc>>

NoShell == ps = None /\ trees = None /\ lost = None /\ fails = None
NoHeap == h = None /\ freep = None /\ live = None /\ brk = None /\ arena = None /\ early = None
NoLine == line = None /\ alpha = None
NoText == kind = None /\ a = None /\ b = None
NoFilter ==
  /\ prog = None /\ args = None /\ f = None /\ pos = None /\ buf = None
  /\ out = None /\ file = None /\ res = None /\ failed = None
NoMemory == pte = None /\ mem = None
NoImage ==
  /\ img = None /\ freeinode = None /\ freeblock = None
  /\ files = None /\ at = None /\ pc = None

MCInit ==
  \/ part = "shell" /\ Init /\ NoHeap /\ NoLine /\ NoText /\ NoFilter /\ NoMemory /\ NoImage
  \/ /\ NoShell
     /\ \/ part = "heap" /\ H!Init /\ NoLine /\ NoText /\ NoFilter /\ NoMemory /\ NoImage
        \/ part = "parser" /\ line = <<>> /\ alpha \in Alphabets /\ NoHeap /\ NoText /\ NoFilter /\ NoMemory /\ NoImage
        \/ part = "library" /\ L!Init /\ NoHeap /\ NoLine /\ NoFilter /\ NoMemory /\ NoImage
        \/ part = "filter" /\ F!Init /\ NoHeap /\ NoLine /\ NoText /\ NoMemory /\ NoImage
        \/ part = "copy" /\ C!Init /\ NoHeap /\ NoLine /\ NoText /\ NoFilter /\ NoImage
        \/ part = "mkfs" /\ M!Init /\ NoHeap /\ NoLine /\ NoText /\ NoFilter /\ NoMemory

\* The user types another character.
Type ==
  /\ Len(line) < alpha.len
  /\ \E ch \in alpha.chars : line' = Append(line, ch)
  /\ UNCHANGED alpha

MCNext ==
  \/ part = "shell" /\ Next /\ UNCHANGED <<part, hvars, svars, lvars, fvars, cvars, mvars>>
  \/ /\ UNCHANGED <<part, vars>>
     /\ \/ part = "heap" /\ H!Next /\ UNCHANGED <<svars, lvars, fvars, cvars, mvars>>
        \/ part = "parser" /\ Type /\ UNCHANGED <<hvars, lvars, fvars, cvars, mvars>>
        \/ part = "library" /\ L!Next /\ UNCHANGED <<hvars, svars, fvars, cvars, mvars>>
        \/ part = "filter" /\ F!Next /\ UNCHANGED <<hvars, svars, lvars, cvars, mvars>>
        \/ part = "copy" /\ C!Next /\ UNCHANGED <<hvars, svars, lvars, fvars, mvars>>
        \/ part = "mkfs" /\ M!Next /\ UNCHANGED <<hvars, svars, lvars, fvars, cvars>>

MCvars == <<part, vars, hvars, svars, lvars, fvars, cvars, mvars>>

MCSpec == MCInit /\ [][MCNext]_MCvars

-----------------------------------------------------------------------------
(* The properties of the parts; their modules explain them. *)

\* sh.c: every program has exactly the descriptors that the line says, the
\* shell prompts only when all but the background commands have ended, and
\* the second half of a list waits for the first.
LinesRunRight == part = "shell" => ShellRunsLines

\* umalloc.c: blocks in use and free blocks share no memory and are all that
\* sbrk() gave, the free list is one ordered ring without neighbours that
\* could be joined, and sbrk() is called only when no free block would do.
HeapIsExact == part = "heap" => H!HeapIsExact

\* sh.c: parsecmd() accepts exactly the lines of the grammar and its tree
\* leads, after nulterminate(), to exactly the words of the line.
ParserIsGrammar == part = "parser" => ParsesGrammar(line)

\* string.c, ulib.c, skipelem(), namecmp(), printint(), printptr(), printf():
\* each computes what its reference definition says.
LibraryIsRight == part = "library" => L!LibraryIsRight

\* cat.c, wc.c, tee.c, grep.c: the output depends on the input only, not on
\* the pieces in which read() returns it, and matches the reference.
OutputIsRight == part = "filter" => F!OutputIsRight

\* copyin(), copyout(), copyinstr(): a copy over page boundaries moves what a
\* flat memory would, or what comes before the first page it may not use.
CopiesAreExact == part = "copy" => C!CopiesAreExact

\* mkfs.c: no block is shared or lost, files read back, the bitmap is exact,
\* and mkfs dies exactly when the files do not fit.
ImageIsSound == part = "mkfs" => M!ImageIsSound
=============================================================================
