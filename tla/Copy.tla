-------------------------------- MODULE Copy --------------------------------
(***************************************************************************)
(* Access to user memory: walkaddr(), copyin(), copyout(), copyinstr() and *)
(* uvmclear() of kernel/vm.c with fetchaddr(), fetchstr() and the argument *)
(* functions of kernel/syscall.c.                                          *)
(*                                                                         *)
(* Pages have PGSIZE bytes, addresses lie below 2^VaBits and are mapped    *)
(* below MAXVA only.  A byte is 0 or 1.  The pages of a process lie in     *)
(* physical memory in another order than in its address space.             *)
(***************************************************************************)
EXTENDS Integers, Sequences

CONSTANTS PGSIZE, VaBits, MAXVA, Word   \* Word: sizeof(uint64)

VARIABLES
  pte,      \* page -> "none", "user" (PTE_U), "write" (PTE_U and PTE_W) or "kernel"
  mem       \* physical memory

vars == <<pte, mem>>

NPages == MAXVA \div PGSIZE
Vas == 0..(2^VaBits - 1)
PGROUNDDOWN(va) == va - (va % PGSIZE)
Minimum(x, y) == IF x < y THEN x ELSE y

Init ==
  /\ pte \in [0..(NPages - 1) -> {"none", "user", "write", "kernel"}]
  /\ mem \in {[a \in 0..(MAXVA - 1) |-> 1], [a \in 0..(MAXVA - 1) |-> a % 2], [a \in 0..(MAXVA - 1) |-> (a + 1) % 2]}

\* PTE2PA
Pa(va0) == (NPages - 1 - va0 \div PGSIZE) * PGSIZE

-----------------------------------------------------------------------------

\* PTE_U is not tested.
UsableMapped(va0, flags) == va0 < MAXVA /\ pte[va0 \div PGSIZE] # "none"

\* The tests of walkaddr(), and with flags = {"write"} those of copyout().
Usable(va0, flags) == va0 < MAXVA /\ pte[va0 \div PGSIZE] \in flags

Readable == {"user", "write"}
Writable == {"write"}

\* The whole page is copied, whatever is left.
PieceWhole(va, len) == PGSIZE - (va % PGSIZE)

\* n: to the end of the page or of the data.
Piece(va, len) == Minimum(PGSIZE - (va % PGSIZE), len)

NextPage(va) == (PGROUNDDOWN(va) + PGSIZE) % 2^VaBits
Bytes(va, n) == [i \in 1..n |-> mem[Pa(PGROUNDDOWN(va)) + (va % PGSIZE) + i - 1]]

\* copyin(): the bytes copied, and whether all have been.
RECURSIVE copyin(_, _)
copyin(va, len) ==
  IF len = 0 THEN [ok |-> TRUE, dst |-> <<>>]
  ELSE IF ~Usable(PGROUNDDOWN(va), Readable) THEN [ok |-> FALSE, dst |-> <<>>]
  ELSE LET r == copyin(NextPage(va), len - Minimum(Piece(va, len), len)) IN [r EXCEPT !.dst = Bytes(va, Piece(va, len)) \o @]

\* copyout() of src to va, in memory m.
RECURSIVE copyout(_, _, _)
copyout(m, va, src) ==
  IF src = <<>> THEN [ok |-> TRUE, mem |-> m]
  ELSE IF ~Usable(PGROUNDDOWN(va), Writable) THEN [ok |-> FALSE, mem |-> m]
  ELSE LET n == Piece(va, Len(src))
           pa == Pa(PGROUNDDOWN(va)) + (va % PGSIZE) IN
       copyout([a \in DOMAIN m |-> IF a - pa \in 0..(n - 1) THEN src[a - pa + 1] ELSE m[a]], NextPage(va), SubSeq(src, n + 1, Len(src)))

\* The bytes up to and with the first NUL.
ToNul(x) == IF \E i \in DOMAIN x : x[i] = 0
            THEN SubSeq(x, 1, CHOOSE i \in DOMAIN x : x[i] = 0 /\ \A j \in 1..(i - 1) : x[j] # 0) ELSE x
GotNull(x) == x # <<>> /\ x[Len(x)] = 0

\* copyinstr()
RECURSIVE copyinstr(_, _)
copyinstr(va, max) ==
  IF max = 0 \/ ~Usable(PGROUNDDOWN(va), Readable) THEN [ok |-> FALSE, dst |-> <<>>]
  ELSE LET x == ToNul(Bytes(va, Piece(va, max))) IN
       IF GotNull(x) THEN [ok |-> TRUE, dst |-> x]
       ELSE LET r == copyinstr(NextPage(va), max - Len(x)) IN [r EXCEPT !.dst = x \o @]

\* fetchaddr(): with the size sz of the process; -1 or the word.
fetchaddr(addr, sz) ==
  IF addr >= sz \/ (addr + Word) % 2^VaBits > sz \/ ~copyin(addr, Word).ok THEN <<-1>> ELSE copyin(addr, Word).dst

\* fetchstr(), and argstr(), which is fetchstr() of an argument register.
fetchstr(addr, max) == IF copyinstr(addr, max).ok THEN Len(copyinstr(addr, max).dst) - 1 ELSE -1

-----------------------------------------------------------------------------
(* What changes user memory or its mapping *)

Uvmclear(va0) ==
  /\ Usable(va0, {"user", "write", "kernel"})
  /\ pte' = [pte EXCEPT ![va0 \div PGSIZE] = "kernel"] /\ UNCHANGED mem

CopyoutTo(va, src) == mem' = copyout(mem, va, src).mem /\ UNCHANGED pte

Next ==
  \/ \E p \in 0..(NPages - 1) : Uvmclear(p * PGSIZE)
  \/ \E va \in Vas : CopyoutTo(va, <<0>>) \/ CopyoutTo(va, <<1, 0, 1>>)

Spec == Init /\ [][Next]_vars

-----------------------------------------------------------------------------
(* Reference: a flat memory of bytes *)

May(va, flags) == va < MAXVA /\ pte[va \div PGSIZE] \in flags
At(va) == mem[Pa(PGROUNDDOWN(va)) + (va % PGSIZE)]

\* How many of len bytes from va can be used.
Run(va, len, flags) == CHOOSE n \in 0..len : (n = len \/ ~May(va + n, flags)) /\ \A i \in 0..(n - 1) : May(va + i, flags)
Flat(va, n) == [i \in 1..n |-> At(va + i - 1)]
Written(va, src, n) == [a \in DOMAIN mem |-> IF \E i \in 0..(n - 1) : a = Pa(PGROUNDDOWN(va + i)) + ((va + i) % PGSIZE)
                                             THEN src[1 + CHOOSE i \in 0..(n - 1) : a = Pa(PGROUNDDOWN(va + i)) + ((va + i) % PGSIZE)]
                                             ELSE mem[a]]
Source == <<1, 0, 1, 1, 0>>

\* Copies over page boundaries move exactly the bytes that a flat memory would,
\* fail exactly if some byte may not be used, and then have copied those before
\* the first such page and no other; a string ends at its first NUL and is
\* refused if that is not within max readable bytes; a word must lie in the
\* memory of the process, also where its address is near the top.
CopiesAreExact ==
  \A va \in Vas : \A len \in 0..Len(Source) :
    /\ LET n == Run(va, len, Readable) IN copyin(va, len) = [ok |-> n = len, dst |-> Flat(va, n)]
    /\ LET n == Run(va, len, Writable) IN
       copyout(mem, va, SubSeq(Source, 1, len)) = [ok |-> n = len, mem |-> Written(va, Source, n)]
    /\ LET x == ToNul(Flat(va, Run(va, len, Readable))) IN
       /\ copyinstr(va, len) = [ok |-> GotNull(x), dst |-> x]
       /\ fetchstr(va, len) = (IF GotNull(x) THEN Len(x) - 1 ELSE -1)
    /\ \A sz \in 0..MAXVA : fetchaddr(va, sz) =
         (IF va + Word <= sz /\ Run(va, Word, Readable) = Word THEN Flat(va, Word) ELSE <<-1>>)
=============================================================================
