-------------------------------- MODULE Mkfs --------------------------------
(***************************************************************************)
(* mkfs/mkfs.c: the host program that lays out the first file system image *)
(* and copies the files of its command line into the root directory.       *)
(*                                                                         *)
(* A sector is a function from the index of a cell to its value; a cell is *)
(* a byte of a data block, an entry of an indirect block, a bit of the     *)
(* bitmap or a dinode of an inode block.  A directory entry takes two      *)
(* cells (inum, name).  Names are the positions of the files on the        *)
(* command line; the files named there are fewer than NINODES, as the      *)
(* Makefile's are (mkfs does not test this).                               *)
(***************************************************************************)
EXTENDS Integers, Sequences, FiniteSets, SequencesExt

CONSTANTS FSSIZE,       \* sectors of the image
          BSIZE,        \* cells of a data block
          BPB,          \* bits of a bitmap block
          IPB,          \* dinodes of an inode block
          NINODES,
          LOGSIZE,
          NDIRECT,
          NINDIRECT,
          Lengths,      \* lengths a file of the command line may have
          MaxFiles      \* bound: files on the command line

VARIABLES img,          \* the image, [sector -> [cell -> value]]
          freeinode,    \* next inode number
          freeblock,    \* next data block
          files,        \* lengths of the files of argv[2..]
          at,           \* <<file, offset>> main's loop has come to
          pc            \* "create" | "copy" | "done" | "died"

vars == <<img, freeinode, freeblock, files, at, pc>>

nbitmap == (FSSIZE \div BPB) + 1

ninodeblocks == (NINODES \div IPB) + 1

nmeta == 2 + LOGSIZE + ninodeblocks + nbitmap

inodestart == 2 + LOGSIZE

bmapstart == 2 + LOGSIZE + ninodeblocks

ROOTINO == 1

MAXFILE == NDIRECT + NINDIRECT

IBLOCK(inum) == (inum \div IPB) + inodestart

rinode(i, inum) == i[IBLOCK(inum)][inum % IPB]

winode(i, inum, din) == [i EXCEPT ![IBLOCK(inum)][inum % IPB] = din]

\* ialloc(): a dinode of that type, one link, no data.
Fresh(type) == [type |-> type, nlink |-> 1, size |-> 0, addrs |-> [k \in 0..NDIRECT |-> 0]]

-----------------------------------------------------------------------------
\* Mutant of DirectBlock: a new block even if the file has one there already.
DirectBlockAlways(w, fbn) == [w EXCEPT !.din.addrs[fbn] = w.free, !.free = w.free + 1]

\* Mutant of balloc: "i <= used".
ballocOneMore(i, used) == [i EXCEPT ![bmapstart] = [k \in 0..(BPB - 1) |-> IF k <= used THEN 1 ELSE 0]]

\* iappend() works on w: the image, freeblock, the dinode it holds, the
\* offset it has come to, and whether an assertion or a read has ended mkfs.
\* The block of file block fbn, allocated if it has none.
DirectBlock(w, fbn) ==
  IF w.din.addrs[fbn] # 0 THEN w
  ELSE [w EXCEPT !.din.addrs[fbn] = w.free, !.free = w.free + 1]

\* rsect() of a sector past the end of the image reads nothing: mkfs dies.
Indirect(w) ==
  LET v == DirectBlock(w, NDIRECT) IN [v EXCEPT !.ok = v.din.addrs[NDIRECT] < FSSIZE]

EntryOf(w, k) ==
  IF ~w.ok \/ w.img[w.din.addrs[NDIRECT]][k] # 0 THEN w
  ELSE [w EXCEPT !.img[w.din.addrs[NDIRECT]][k] = w.free, !.free = w.free + 1]

BlockFor(w, fbn) == IF fbn < NDIRECT THEN DirectBlock(w, fbn) ELSE EntryOf(Indirect(w), fbn - NDIRECT)

Sector(w, fbn) == IF fbn < NDIRECT THEN w.din.addrs[fbn] ELSE w.img[w.din.addrs[NDIRECT]][fbn - NDIRECT]

\* n1 = min(n, (fbn + 1) * BSIZE - off): the cells that go into this block.
ThisBlock(off, n) == IF n < (((off \div BSIZE) + 1) * BSIZE) - off THEN n ELSE (((off \div BSIZE) + 1) * BSIZE) - off

\* Store the n1 cells of p that fall into block x, from off on.
Stored(sec, off, p, n1) ==
  [k \in DOMAIN sec |-> IF k >= off % BSIZE /\ k < (off % BSIZE) + n1 THEN p[(k - (off % BSIZE)) + 1] ELSE sec[k]]

Put(w, x, p, n1) ==
  IF ~w.ok \/ x >= FSSIZE THEN [w EXCEPT !.ok = FALSE]
  ELSE [w EXCEPT !.img[x] = Stored(@, w.off, p, n1), !.off = @ + n1]

Placed(w, fbn, p, n1) == IF w.ok THEN Put(w, Sector(w, fbn), p, n1) ELSE w

\* The loop of iappend().
RECURSIVE Loop(_, _)
Loop(w, p) ==
  IF p = <<>> \/ ~w.ok THEN w
  ELSE IF w.off \div BSIZE >= MAXFILE THEN [w EXCEPT !.ok = FALSE]
  ELSE LET n1 == ThisBlock(w.off, Len(p))
           v == Placed(BlockFor(w, w.off \div BSIZE), w.off \div BSIZE, p, n1)
       IN Loop(v, SubSeq(p, n1 + 1, Len(p)))

\* iappend(inum, p, n) on image i with f the next free block.
iappend(i, f, inum, p) ==
  LET w == Loop([img |-> i, free |-> f, din |-> rinode(i, inum), off |-> rinode(i, inum).size, ok |-> TRUE], p)
  IN IF w.ok THEN [w EXCEPT !.img = winode(w.img, inum, [w.din EXCEPT !.size = w.off])] ELSE w

-----------------------------------------------------------------------------
\* The data of file k of the command line: cell o of it.
Byte(k, o) == (100 * k) + o + 1

\* main() up to its loop: zero every sector, make the root directory with
\* "." and ".." (names -1 and -2).
EmptyImage ==
  [s \in 0..(FSSIZE - 1) |->
    IF s \in inodestart..(bmapstart - 1) THEN [k \in 0..(IPB - 1) |-> [Fresh("free") EXCEPT !.nlink = 0]]
    ELSE IF s \in bmapstart..(nmeta - 1) THEN [k \in 0..(BPB - 1) |-> 0]
    ELSE [k \in 0..(BSIZE - 1) |-> 0]]

RootMade ==
  LET dot == iappend(winode(EmptyImage, ROOTINO, Fresh("dir")), nmeta, ROOTINO, <<ROOTINO, -1>>)
  IN iappend(dot.img, dot.free, ROOTINO, <<ROOTINO, -2>>)

Init ==
  /\ img = RootMade.img /\ freeblock = RootMade.free
  /\ freeinode = ROOTINO + 1
  /\ files \in BoundedSeq(Lengths, MaxFiles)
  /\ at = <<1, 0>> /\ pc = "create"

\* Take over what iappend() left, or die with it.
Done(w, next, place) ==
  /\ img' = w.img /\ freeblock' = w.free
  /\ pc' = IF w.ok THEN next ELSE "died"
  /\ at' = IF w.ok THEN place ELSE at
  /\ UNCHANGED files

\* The next file: an inode and its entry in the root directory.
Create ==
  /\ pc = "create" /\ at[1] <= Len(files)
  /\ freeinode' = freeinode + 1
  /\ Done(iappend(winode(img, freeinode, Fresh("file")), freeblock, ROOTINO, <<freeinode, at[1]>>), "copy", at)

\* read() a block of the file, append it; at the end go on to the next file.
Chunk == IF files[at[1]] - at[2] < BSIZE THEN files[at[1]] - at[2] ELSE BSIZE

Copy ==
  /\ pc = "copy" /\ Chunk > 0
  /\ Done(iappend(img, freeblock, freeinode - 1, [o \in 1..Chunk |-> Byte(at[1], at[2] + (o - 1))]),
          "copy", <<at[1], at[2] + Chunk>>)
  /\ UNCHANGED freeinode

Close ==
  /\ pc = "copy" /\ Chunk = 0
  /\ pc' = "create" /\ at' = <<at[1] + 1, 0>>
  /\ UNCHANGED <<img, freeinode, freeblock, files>>

\* After the loop: the root's size goes up to whole blocks, and balloc()
\* marks the blocks used so far (they must be within one bitmap block).
RootSize(size) == ((size \div BSIZE) + 1) * BSIZE

Sized(i) == winode(i, ROOTINO, [rinode(i, ROOTINO) EXCEPT !.size = RootSize(@)])

balloc(i, used) == [i EXCEPT ![bmapstart] = [k \in 0..(BPB - 1) |-> IF k < used THEN 1 ELSE 0]]

Finish ==
  /\ pc = "create" /\ at[1] > Len(files)
  /\ IF freeblock < BPB THEN img' = balloc(Sized(img), freeblock) /\ pc' = "done"
     ELSE img' = Sized(img) /\ pc' = "died"
  /\ UNCHANGED <<freeinode, freeblock, files, at>>

Next == Create \/ Copy \/ Close \/ Finish

Spec == Init /\ [][Next]_vars

-----------------------------------------------------------------------------
Inums == ROOTINO..(freeinode - 1)

\* What the kernel's bmap() finds for block b of inode i: 0 if nothing.
Mapped(i, b) ==
  LET d == rinode(img, i) IN
  IF b < NDIRECT THEN d.addrs[b] ELSE IF d.addrs[NDIRECT] = 0 THEN 0 ELSE img[d.addrs[NDIRECT]][b - NDIRECT]

\* All the blocks of inode i, each with the place that refers to it.
Refs(i) ==
  {r \in {<<i, b, Mapped(i, b)>> : b \in 0..(MAXFILE - 1)} \cup {<<i, MAXFILE, rinode(img, i).addrs[NDIRECT]>>} : r[3] # 0}

AllRefs == UNION {Refs(i) : i \in Inums}

Content(i, o) == img[Mapped(i, o \div BSIZE)][o % BSIZE]

\* The entries main() put into the root directory.
Entries == <<ROOTINO, -1, ROOTINO, -2>> \o [k \in 1..(2 * Len(files)) |->
             IF k % 2 = 1 THEN ROOTINO + ((k + 1) \div 2) ELSE k \div 2]

\* Blocks a file of that many cells needs, the indirect one included.
BlocksOf(n) == LET b == (n + BSIZE - 1) \div BSIZE IN IF b > NDIRECT THEN b + 1 ELSE b

Needed == BlocksOf(Len(Entries)) + FoldLeft(LAMBDA x, n : x + BlocksOf(n), 0, files)

\* Everything fits: no file is too long, and the blocks are within the image
\* and within the one bitmap block balloc() writes.
Fits ==
  /\ \A k \in 1..Len(files) : files[k] <= MAXFILE * BSIZE
  /\ Len(Entries) <= MAXFILE * BSIZE
  /\ nmeta + Needed <= FSSIZE /\ nmeta + Needed < BPB

\* The image mkfs leaves is one the kernel can mount: no block belongs to two
\* files or to one file twice, the bitmap marks exactly the boot, super, log,
\* inode, bitmap and referenced blocks, each file reads back as the bytes of
\* its source, and the root directory names "." and ".." and every file, with
\* free entries behind them.  mkfs dies exactly when the files do not fit.
\* (When the entries fill their last block exactly, main()'s rounding gives
\* the root one more block than is allocated; the last conjunct says so.)
ImageIsSound ==
  /\ pc = "died" => ~Fits
  /\ pc = "done" =>
       /\ Fits
       /\ Cardinality({r[3] : r \in AllRefs}) = Cardinality(AllRefs)
       /\ {r[3] : r \in AllRefs} \cup 0..(nmeta - 1) = {k \in 0..(BPB - 1) : img[bmapstart][k] = 1}
       /\ \A k \in 1..Len(files) :
            /\ rinode(img, ROOTINO + k) = [Fresh("file") EXCEPT !.size = files[k], !.addrs = rinode(img, ROOTINO + k).addrs]
            /\ \A o \in 0..(files[k] - 1) : Content(ROOTINO + k, o) = Byte(k, o)
       /\ LET size == rinode(img, ROOTINO).size IN
          /\ size > Len(Entries) /\ size % BSIZE = 0
          /\ \A o \in 0..(size - 1) :
               IF Mapped(ROOTINO, o \div BSIZE) = 0 THEN o >= Len(Entries) /\ Len(Entries) % BSIZE = 0
               ELSE Content(ROOTINO, o) = IF o < Len(Entries) THEN Entries[o + 1] ELSE 0
=============================================================================
