------------------------------ MODULE Umalloc -------------------------------
(***************************************************************************)
(* malloc() and free() of user/umalloc.c: a circular list of free blocks   *)
(* ordered by address, with the static header base below the heap.         *)
(*                                                                         *)
(* Addresses are counted in headers of HeaderBytes; base is at 0.  Headers *)
(* of blocks that have been merged are dead and forgotten.  The program    *)
(* frees only what it got and has not freed, may call sbrk() itself, and   *)
(* asks for so little that the size of the request fits the int of sbrk(). *)
(***************************************************************************)
EXTENDS Integers, FiniteSets

CONSTANTS
  Requests,   \* values of nbytes
  MinUnits,   \* the 4096 of morecore()
  MaxBrk      \* the kernel gives no memory above

HeaderBytes == 16
Base == 0
Null == -1

VARIABLES
  h,        \* headers: address -> ptr and size; ptr is Null in a block in use
  freep,
  live,     \* blocks in use: address of the header -> nbytes asked for
  brk,      \* end of the memory of the process
  arena,    \* what sbrk() has given to morecore()
  early     \* morecore() was called although a free block would have done

vars == <<h, freep, live, brk, arena, early>>

Init ==
  /\ h = [a \in {} |-> 0] /\ freep = Null /\ live = [a \in {} |-> 0]
  /\ brk = 1 /\ arena = {} /\ early = FALSE

With(f, a, v) == [x \in DOMAIN f \cup {a} |-> IF x = a THEN v ELSE f[x]]
Without(f, S) == [x \in DOMAIN f \ S |-> f[x]]
Extent(hd, a) == a..(a + hd[a].size - 1)

-----------------------------------------------------------------------------
(* free() *)

\* bp belongs behind p: between p and its successor, or, where the list wraps
\* round, above the last block or below the first.
InPlace(hd, p, bp) == \/ bp > p /\ bp < hd[p].ptr
                      \/ p >= hd[p].ptr /\ (bp > p \/ bp < hd[p].ptr)

RECURSIVE Place(_, _, _)
Place(hd, p, bp) == IF InPlace(hd, p, bp) THEN p ELSE Place(hd, hd[p].ptr, bp)

\* bp and its successor q become one if they touch.
JoinUpper(hd, bp, q) ==
  IF bp + hd[bp].size = q
  THEN With(Without(hd, {q}), bp, [ptr |-> hd[q].ptr, size |-> hd[bp].size + hd[q].size])
  ELSE With(hd, bp, [ptr |-> q, size |-> hd[bp].size])

\* The size of p grows, its successor stays.
JoinLowerKeeps(hd, p, bp) ==
  IF p + hd[p].size = bp
  THEN With(Without(hd, {bp}), p, [ptr |-> hd[p].ptr, size |-> hd[p].size + hd[bp].size])
  ELSE With(hd, p, [ptr |-> bp, size |-> hd[p].size])

\* p and its new successor bp become one if they touch.
JoinLower(hd, p, bp) ==
  IF p + hd[p].size = bp
  THEN With(Without(hd, {bp}), p, [ptr |-> hd[bp].ptr, size |-> hd[p].size + hd[bp].size])
  ELSE With(hd, p, [ptr |-> bp, size |-> hd[p].size])

Freed(hd, p, bp) == JoinLower(JoinUpper(hd, bp, hd[p].ptr), p, bp)

Free(bp) ==
  \E p \in {Place(h, freep, bp)} :
    /\ h' = Freed(h, p, bp)
    /\ freep' = p
    /\ live' = Without(live, {bp})
    /\ UNCHANGED <<brk, arena, early>>

-----------------------------------------------------------------------------
(* malloc() *)

\* A block of whole headers, without one for its own.
UnitsWithoutHeader(nbytes) == (nbytes + HeaderBytes - 1) \div HeaderBytes

Units(nbytes) == (nbytes + HeaderBytes - 1) \div HeaderBytes + 1

\* The loop has gone round.
LastTried(hd, p, stop) == p = stop

\* The block before the first that is large enough, from the one behind prevp to
\* freep; Null if there is none.
RECURSIVE Fit(_, _, _, _)
Fit(hd, prevp, nunits, stop) ==
  LET p == hd[prevp].ptr IN
  IF hd[p].size >= nunits THEN prevp
  ELSE IF LastTried(hd, p, stop) THEN Null ELSE Fit(hd, p, nunits, stop)

\* The whole block behind prevp, or its tail.
Take(hd, prevp, nunits) ==
  LET p == hd[prevp].ptr
      rest == hd[p].size - nunits
      used == [ptr |-> Null, size |-> nunits] IN
  IF rest = 0
  THEN [h |-> With(With(hd, p, used), prevp, [hd[prevp] EXCEPT !.ptr = hd[p].ptr]), at |-> p]
  ELSE [h |-> With(With(hd, p, [hd[p] EXCEPT !.size = rest]), p + rest, used), at |-> p + rest]

\* The list, and freep, that malloc() starts with: base alone the first time.
List0 == IF freep = Null THEN With(h, Base, [ptr |-> Base, size |-> 0]) ELSE h
Freep0 == IF freep = Null THEN Base ELSE freep

\* malloc() finds a block and returns it.
Malloc(nbytes) ==
  \E prevp \in {Fit(List0, Freep0, Units(nbytes), Freep0)} :
    /\ prevp # Null
    /\ \E t \in {Take(List0, prevp, Units(nbytes))} :
         h' = t.h /\ live' = With(live, t.at, nbytes)
    /\ freep' = prevp
    /\ UNCHANGED <<brk, arena, early>>

\* nu of morecore().
Asked(nbytes) == IF Units(nbytes) < MinUnits THEN MinUnits ELSE Units(nbytes)

\* malloc() finds none: morecore() frees what sbrk() gives, and the loop goes on
\* behind freep, with the new block or the one it was joined to.
MallocMore(nbytes) ==
  LET nu == Asked(nbytes) IN
  /\ Fit(List0, Freep0, Units(nbytes), Freep0) = Null
  /\ brk + nu <= MaxBrk
  /\ \E p \in {Place(List0, Freep0, brk)} :
     \E hd \in {Freed(With(List0, brk, [ptr |-> Null, size |-> nu]), p, brk)} :
     \E t \in {Take(hd, Fit(hd, p, Units(nbytes), p), Units(nbytes))} :
       /\ h' = t.h /\ live' = With(live, t.at, nbytes)
       /\ freep' = Fit(hd, p, Units(nbytes), p)
  /\ brk' = brk + nu
  /\ arena' = arena \cup brk..(brk + nu - 1)
  /\ early' = \E a \in DOMAIN h \ DOMAIN live : h[a].size >= Units(nbytes)

\* sbrk() fails, as it may at any time, and malloc() returns 0.
MallocFails(nbytes) ==
  /\ Fit(List0, Freep0, Units(nbytes), Freep0) = Null
  /\ h' = List0 /\ freep' = Freep0
  /\ early' = \E a \in DOMAIN h \ DOMAIN live : h[a].size >= Units(nbytes)
  /\ UNCHANGED <<live, brk, arena>>

\* The program moves the break itself: its memory is not malloc()'s.
Sbrk ==
  /\ brk < MaxBrk /\ brk' = brk + 1
  /\ UNCHANGED <<h, freep, live, arena, early>>

Next ==
  \/ \E bp \in DOMAIN live : Free(bp)
  \/ \E nbytes \in Requests : Malloc(nbytes) \/ MallocMore(nbytes) \/ MallocFails(nbytes)
  \/ Sbrk

Spec == Init /\ [][Next]_vars

-----------------------------------------------------------------------------
(* Properties *)

FreeBlocks == DOMAIN h \ DOMAIN live

RECURSIVE Ring(_, _)
Ring(S, a) == IF a \in S THEN S ELSE Ring(S \cup {a}, h[a].ptr)

\* Blocks in use and free blocks share no memory and together are all that
\* sbrk() has given to malloc(); a block in use holds what was asked for; the
\* free list is one ring through base and all free blocks, by address, in
\* which no two blocks touch, so that free() has undone every split that it
\* could; and malloc() asks for more memory only when no free block would do.
HeapIsExact ==
  /\ \A a, b \in DOMAIN h : a # b => Extent(h, a) \cap Extent(h, b) = {}
  /\ UNION {Extent(h, a) : a \in DOMAIN h} = arena
  /\ \A a \in DOMAIN live : (h[a].size - 1) * HeaderBytes >= live[a]
  /\ freep # Null =>
       /\ Base \in FreeBlocks /\ freep \in FreeBlocks
       /\ \A a \in FreeBlocks : h[a].ptr \in FreeBlocks
       /\ Ring({}, freep) = FreeBlocks
       /\ \A a \in FreeBlocks : h[a].ptr # a \/ FreeBlocks = {Base}
       /\ Cardinality({a \in FreeBlocks : h[a].ptr <= a}) = 1
       /\ \A a \in FreeBlocks \ {Base} : a + h[a].size \notin FreeBlocks
  /\ ~early
=============================================================================
