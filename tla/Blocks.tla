------------------------------- MODULE Blocks -------------------------------
(***************************************************************************)
(* The content of files: the block bitmap, bmap(), itrunc(), readi() and   *)
(* writei() of kernel/fs.c.                                                *)
(*                                                                         *)
(* Every operation holds the lock of its inode, so an inode has at most    *)
(* one; operations on different inodes meet in the bitmap only.  A step is *)
(* one round of writei()'s loop, one bfree() of itrunc(), or the end of    *)
(* either.  readi() changes nothing and is an operator.                    *)
(*                                                                         *)
(* A block has the data in its buffer and the data last given to           *)
(* log_write(): the buffer can be evicted, and is then read again from     *)
(* what was logged.                                                        *)
(***************************************************************************)
EXTENDS Integers, Sequences, FiniteSets, FiniteSetsExt

CONSTANTS
  Inodes,
  NBLOCKS,    \* data blocks, numbered from 1; 0 is no block
  NDIRECT, NINDIRECT, BSIZE,
  Bytes,      \* values a write may write
  WORD        \* offsets are unsigned integers modulo this

Blocks == 1..NBLOCKS
MAXFILE == NDIRECT + NINDIRECT

BlocksAssumption ==
  /\ NBLOCKS \in Nat /\ NDIRECT \in Nat /\ NINDIRECT \in Nat /\ BSIZE \in Nat \ {0}
  /\ WORD \in Nat /\ MAXFILE * BSIZE < WORD

VARIABLES
  bitmap,   \* blocks marked in use
  buf,      \* data of each block as its buffer has it
  logged,   \* data of each block as last logged
  ind,      \* block numbers in each block that is an indirect block
  inode,    \* in memory: size, addrs
  dinode,   \* on disk, as iupdate() last wrote it
  op,       \* the operation in progress on each inode
  content,  \* history: for each byte of a file, the values a read may return
  panic

vars == <<bitmap, buf, logged, ind, inode, dinode, op, content, panic>>

ZeroData == [k \in 0..BSIZE - 1 |-> 0]
ZeroInd == [j \in 0..NINDIRECT - 1 |-> 0]
Empty == [size |-> 0, addrs |-> [k \in 0..NDIRECT |-> 0]]
Idle == [kind |-> "idle"]

Init ==
  /\ bitmap = {} /\ panic = FALSE
  /\ buf = [b \in Blocks |-> ZeroData] /\ logged = buf
  /\ ind = [b \in Blocks |-> ZeroInd]
  /\ inode = [i \in Inodes |-> Empty] /\ dinode = inode
  /\ op = [i \in Inodes |-> Idle]
  /\ content = [i \in Inodes |-> <<>>]

-----------------------------------------------------------------------------
(* bmap() and balloc(), over a state s of bitmap, buf, logged, ind, ip *)

\* balloc() of block b: marked and zeroed.
Balloc(s, b) ==
  [s EXCEPT !.bitmap = @ \cup {b}, !.buf[b] = ZeroData, !.logged[b] = ZeroData, !.ind[b] = ZeroInd]

\* The first free block, or 0.
FreeBlock(s) == IF s.bitmap = Blocks THEN 0 ELSE Min(Blocks \ s.bitmap)

\* bmap() of an indirect block: the entry, allocated if need be.
BmapIndirect(s, j) ==
  LET a == s.ip.addrs[NDIRECT]
      b == FreeBlock(s) IN
  IF s.ind[a][j] # 0 THEN [s EXCEPT !.addr = s.ind[a][j]]
  ELSE IF b = 0 THEN [s EXCEPT !.addr = 0]
  ELSE [Balloc(s, b) EXCEPT !.ind[a][j] = b, !.addr = b]

\* bmap() of slot k of addrs.
BmapSlot(s, k) ==
  LET b == FreeBlock(s) IN
  IF s.ip.addrs[k] # 0 THEN [s EXCEPT !.addr = s.ip.addrs[k]]
  ELSE IF b = 0 THEN [s EXCEPT !.addr = 0]
  ELSE [Balloc(s, b) EXCEPT !.ip.addrs[k] = b, !.addr = b]

\* bmap(): the address is in addr, 0 if there is no free block.
Bmap(s, bn) ==
  IF bn < NDIRECT THEN BmapSlot(s, bn)
  ELSE IF bn < MAXFILE
  THEN LET t == BmapSlot(s, NDIRECT) IN
       IF t.addr = 0 THEN t ELSE BmapIndirect(t, bn - NDIRECT)
  ELSE [s EXCEPT !.addr = 0, !.panic = TRUE]

State(i) ==
  [bitmap |-> bitmap, buf |-> buf, logged |-> logged, ind |-> ind,
   ip |-> inode[i], addr |-> 0, panic |-> panic]

-----------------------------------------------------------------------------
(* writei() *)

\* writei() that allows a write to start after the end of the file.
WriteAllowedAfterEnd(i, off, n) ==
  (off + n) % WORD >= off /\ (off + n) % WORD <= MAXFILE * BSIZE

\* writei()'s tests; if one fails nothing changes and it returns -1.
WriteAllowed(i, off, n) ==
  /\ off <= inode[i].size
  /\ (off + n) % WORD >= off
  /\ (off + n) % WORD <= MAXFILE * BSIZE

WriteStart(i, off, n, v) ==
  /\ op[i] = Idle /\ WriteAllowed(i, off, n)
  /\ op' = [op EXCEPT ![i] = [kind |-> "write", off |-> off, n |-> n, v |-> v]]
  /\ UNCHANGED <<bitmap, buf, logged, ind, inode, dinode, content, panic>>

\* The values reads may return after bytes off .. off + m - 1 of file i were
\* written with v; unless it is sure, the old values are possible, too.
Written(i, off, m, v, sure) ==
  [k \in 1..(IF sure THEN Max({Len(content[i]), off + m}) ELSE Len(content[i])) |->
     IF k \in off + 1..off + m
     THEN IF sure THEN {v} ELSE content[i][k] \cup {v}
     ELSE IF k <= Len(content[i]) THEN content[i][k] ELSE {0}]

\* One round of the loop: bmap(), either_copyin() and log_write().  copyin()
\* may fail after it has copied some bytes; then nothing is logged.
WriteRound(i, copied) ==
  LET o == op[i]
      m == Min({o.n, BSIZE - (o.off % BSIZE)})
      s == Bmap(State(i), o.off \div BSIZE)
      a == s.addr
      first == o.off % BSIZE
      data == [k \in 0..BSIZE - 1 |->
                 IF k \in first..first + copied - 1 THEN o.v ELSE s.buf[a][k]] IN
  /\ o.kind = "write" /\ o.n > 0 /\ copied <= m
  /\ bitmap' = s.bitmap /\ ind' = s.ind /\ panic' = s.panic
  /\ inode' = [inode EXCEPT ![i] = s.ip]
  /\ IF a = 0 THEN /\ op' = [op EXCEPT ![i].n = 0]
                   /\ buf' = s.buf /\ logged' = s.logged /\ UNCHANGED content
     ELSE /\ buf' = [s.buf EXCEPT ![a] = data]
          /\ logged' = IF copied = m THEN [s.logged EXCEPT ![a] = data] ELSE s.logged
          /\ content' = [content EXCEPT ![i] = Written(i, o.off, copied, o.v, copied = m)]
          /\ op' = [op EXCEPT ![i] = IF copied = m
                                     THEN [@ EXCEPT !.off = @ + m, !.n = @ - m]
                                     ELSE [@ EXCEPT !.n = 0]]
  /\ UNCHANGED dinode

\* iupdate() only when the size has changed.
WriteBackIfGrown(i, ip) == IF ip.size = inode[i].size THEN dinode[i] ELSE ip

\* iupdate() in any case.
WriteBack(i, ip) == ip

\* The size grows to the end of the write.
NewSize(size, off) == Max({size, off})

\* After the loop: the size, and iupdate().
WriteEnd(i) ==
  LET ip == [inode[i] EXCEPT !.size = NewSize(@, op[i].off)] IN
  /\ op[i].kind = "write" /\ op[i].n = 0
  /\ inode' = [inode EXCEPT ![i] = ip]
  /\ dinode' = [dinode EXCEPT ![i] = WriteBack(i, ip)]
  /\ op' = [op EXCEPT ![i] = Idle]
  /\ UNCHANGED <<bitmap, buf, logged, ind, content, panic>>

-----------------------------------------------------------------------------
(* itrunc(): k counts the direct slots done, then the indirect entries. *)

TruncStart(i) ==
  /\ op[i] = Idle
  /\ op' = [op EXCEPT ![i] = [kind |-> "trunc", k |-> 0]]
  /\ content' = [content EXCEPT ![i] = <<>>]
  /\ UNCHANGED <<bitmap, buf, logged, ind, inode, dinode, panic>>

Bfree(b) == bitmap' = bitmap \ {b} /\ panic' = (panic \/ b \notin bitmap)

\* ip->addrs[k] = 0.
ClearedSlot(ip, k) == [ip EXCEPT !.addrs[k] = 0]

\* One direct block, if the slot is in use.
TruncDirect(i) ==
  LET k == op[i].k
      b == inode[i].addrs[k] IN
  /\ op[i].kind = "trunc" /\ k < NDIRECT
  /\ IF b = 0 THEN UNCHANGED <<bitmap, inode, panic>>
     ELSE Bfree(b) /\ inode' = [inode EXCEPT ![i] = ClearedSlot(@, k)]
  /\ op' = [op EXCEPT ![i].k = @ + 1]
  /\ UNCHANGED <<buf, logged, ind, dinode, content>>

\* One entry of the indirect block, if there is one.
TruncIndirect(i) ==
  LET a == inode[i].addrs[NDIRECT]
      j == op[i].k - NDIRECT
      b == ind[a][j] IN
  /\ op[i].kind = "trunc" /\ op[i].k \in NDIRECT..MAXFILE - 1
  /\ IF a = 0 THEN UNCHANGED <<bitmap, panic>>
     ELSE IF b = 0 THEN UNCHANGED <<bitmap, panic>>
     ELSE Bfree(b)
  /\ op' = [op EXCEPT ![i].k = @ + 1]
  /\ UNCHANGED <<buf, logged, ind, inode, dinode, content>>

\* itrunc() that forgets the indirect block itself.
LastFreedNone(a) == UNCHANGED <<bitmap, panic>>

\* bfree() of the indirect block.
LastFreed(a) == IF a = 0 THEN UNCHANGED <<bitmap, panic>> ELSE Bfree(a)

\* The indirect block itself, the size, and iupdate().
TruncEnd(i) ==
  LET a == inode[i].addrs[NDIRECT]
      ip == [ClearedSlot(inode[i], NDIRECT) EXCEPT !.size = 0] IN
  /\ op[i].kind = "trunc" /\ op[i].k = MAXFILE
  /\ LastFreed(a)
  /\ inode' = [inode EXCEPT ![i] = ip]
  /\ dinode' = [dinode EXCEPT ![i] = ip]
  /\ op' = [op EXCEPT ![i] = Idle]
  /\ UNCHANGED <<buf, logged, ind, content>>

\* bget() recycles a buffer; the next bread() reads what was logged.
Evict(b) ==
  /\ buf[b] # logged[b]
  /\ buf' = [buf EXCEPT ![b] = logged[b]]
  /\ UNCHANGED <<bitmap, logged, ind, inode, dinode, op, content, panic>>

Next ==
  \/ \E i \in Inodes :
       \/ \E off \in 0..MAXFILE * BSIZE + 1, n \in 1..WORD - 1, v \in Bytes : WriteStart(i, off, n, v)
       \/ \E copied \in 0..BSIZE : WriteRound(i, copied)
       \/ WriteEnd(i) \/ TruncStart(i) \/ TruncDirect(i) \/ TruncIndirect(i) \/ TruncEnd(i)
  \/ \E b \in Blocks : Evict(b)

Spec == Init /\ [][Next]_vars

-----------------------------------------------------------------------------
(* readi() *)

\* The block of file i that bmap() finds without allocating, or 0.
Mapped(i, bn) ==
  LET t == inode[i].addrs IN
  IF bn < NDIRECT THEN t[bn]
  ELSE IF t[NDIRECT] = 0 THEN 0
  ELSE ind[t[NDIRECT]][bn - NDIRECT]

\* readi() without its test for overflow.
ReadLenWraps(i, off, n) ==
  IF off > inode[i].size THEN 0 ELSE Min({n, inode[i].size - off})

\* The length of what readi() returns.
ReadLen(i, off, n) ==
  IF off > inode[i].size \/ (off + n) % WORD < off THEN 0
  ELSE Min({n, inode[i].size - off})

\* readi(): the bytes, taken from data, the buffers or the logged blocks.
Readi(data, i, off, n) ==
  [k \in 1..ReadLen(i, off, n) |->
     data[Mapped(i, (off + k - 1) \div BSIZE)][(off + k - 1) % BSIZE]]

-----------------------------------------------------------------------------
(* Properties *)

TypeOK ==
  /\ bitmap \subseteq Blocks /\ panic \in BOOLEAN
  /\ \A i \in Inodes :
       /\ inode[i].size \in 0..MAXFILE * BSIZE
       /\ inode[i].addrs \in [0..NDIRECT -> 0..NBLOCKS]
       /\ op[i].kind \in {"idle", "write", "trunc"}
  /\ ind \in [Blocks -> [0..NINDIRECT - 1 -> 0..NBLOCKS]]

\* The places that refer to a block: the slots of an inode, and the entries
\* of its indirect block that itrunc() has not yet freed.
Refs(i) ==
  LET t == inode[i].addrs
      done == IF op[i].kind = "trunc" THEN op[i].k - NDIRECT ELSE 0 IN
  {<<t[k], i, "slot", k>> : k \in {x \in 0..NDIRECT : t[x] # 0}}
  \cup (IF t[NDIRECT] = 0 THEN {}
        ELSE {<<ind[t[NDIRECT]][j], i, "entry", j>> :
                j \in {x \in 0..NINDIRECT - 1 : x >= done /\ ind[t[NDIRECT]][x] # 0}})

\* A block is marked in use exactly when one file has it, in one place: no
\* write that runs out of blocks and no truncation leaks a block, and none is
\* ever part of two files or freed twice (panic "freeing free block").
BlocksAccounted ==
  LET refs == UNION {Refs(i) : i \in Inodes} IN
  /\ {r[1] : r \in refs} = bitmap
  /\ Cardinality(refs) = Cardinality(bitmap)
  /\ ~panic

\* Every block below the size of a file that is not locked is there, so that
\* readi(), which runs outside a transaction, never makes bmap() allocate.
NoHoles ==
  \A i \in Inodes : op[i] = Idle =>
    \A bn \in 0..MAXFILE - 1 : bn * BSIZE < inode[i].size => Mapped(i, bn) # 0

\* A read returns what was last written at each offset, and exactly the part
\* of the request below the end of the file, for every offset and length,
\* those that overflow included; bytes of a write that failed half way may be
\* there or not.  It never returns bytes of another file or of one that was
\* truncated.
ReadBack ==
  \A i \in Inodes : op[i] = Idle =>
    /\ Len(content[i]) = inode[i].size
    /\ \A off \in 0..MAXFILE * BSIZE + 1, n \in 0..WORD - 1, data \in {buf, logged} :
         LET got == Readi(data, i, off, n)
             wanted == IF off + n >= WORD THEN 0
                       ELSE Cardinality((off..off + n - 1) \cap (0..Len(content[i]) - 1)) IN
         /\ Len(got) = wanted
         /\ \A k \in 1..Len(got) : got[k] \in content[i][off + k]

\* When an operation ends, the inode on disk is the one in memory, even if
\* the size has not changed.
DiskInodeCurrent == \A i \in Inodes : op[i] = Idle => dinode[i] = inode[i]
=============================================================================
