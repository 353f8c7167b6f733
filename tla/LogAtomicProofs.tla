-------------------------- MODULE LogAtomicProofs ---------------------------
(***************************************************************************)
(* Proof that the log implements AtomicDisk, for any number of processes   *)
(* and blocks, any log size and any reservation: the contents recovery     *)
(* would produce change only at write_head(), in one step.                 *)
(***************************************************************************)
EXTENDS LogProofs

\* A buffer that is neither pinned nor locked holds what the disk holds, and
\* may be recycled; one that is pinned or locked stays in the cache.
CacheInv ==
  \A b \in Blocks :
    IF holder[b] = Nobody /\ b \notin Pinned THEN buf[b] \in {NoBuf, disk[b]}
                                             ELSE buf[b] # NoBuf

\* The entries below n are in the log on the disk, or installed from it.
Saved(n) == \A i \in DOMAIN lh : i < n => logblk[i] = Contents(lh[i])
Installed(n) == \A i \in DOMAIN lh : i < n => disk[lh[i]] = logblk[i]

\* How far the committing process has come.
CommitData ==
  \A p \in Procs :
    /\ pc[p] = "write_log" => Saved(tail)
    /\ pc[p] \in {"write_head", "install", "erase"} => Saved(Len(lh) + 1)
    /\ pc[p] \in {"install", "erase"} => head = lh
    /\ pc[p] = "install" => Installed(tail)
    /\ pc[p] = "erase" => Installed(Len(lh) + 1)
    /\ pc[p] = "finish" => lh = <<>>

\* The header on the disk is empty but for the time between the two writes of
\* it in a commit.
HeadInv ==
  sys \notin RecoverySys /\ (\A p \in Procs : pc[p] \notin {"install", "erase"})
    => head = <<>>

\* How far recovery has come.
RecoverData ==
  /\ sys \in {"install", "erase"} => lh = head
  /\ sys = "install" => Installed(tail)
  /\ sys = "erase" => Installed(Len(lh) + 1)

DataInv == CacheInv /\ CommitData /\ HeadInv /\ RecoverData

Inv3 == Inv1 /\ DataInv

\* A step of AtomicDisk, or one that changes nothing it can see.
AtomicStep == [AD!Next]_(AD!vars)

-----------------------------------------------------------------------------
(* What recovery would produce *)

\* Durable, as a function of what is on the disk.
Recovered(h, l, d) ==
  [b \in Blocks |-> IF b \in Entries(h) THEN l[CHOOSE i \in DOMAIN h : h[i] = b] ELSE d[b]]

\* No block has two entries, so each entry decides what its block will be.
LEMMA RecoveredEntry ==
  ASSUME NEW h \in Seq(Blocks), Injective(h), NEW l, NEW d, NEW i \in DOMAIN h
  PROVE  Recovered(h, l, d)[h[i]] = l[i]
<1>. DEFINE j == CHOOSE j \in DOMAIN h : h[j] = h[i]
<1>1. j \in DOMAIN h /\ h[j] = h[i]
  OBVIOUS
<1>2. j = i
  BY <1>1 DEF Injective
<1>3. h[i] \in Blocks /\ h[i] \in Entries(h)
  BY DEF Entries
<1>. HIDE DEF j
<1>4. Recovered(h, l, d)[h[i]] = l[j]
  BY <1>3, Zenon DEF Recovered, j
<1>. QED
  BY <1>2, <1>4

LEMMA RecoveredOther ==
  ASSUME NEW h, NEW l, NEW d, NEW b \in Blocks, b \notin Entries(h)
  PROVE  Recovered(h, l, d)[b] = d[b]
BY DEF Recovered

LEMMA EntriesOfEmpty == Entries(<<>>) = {}
BY DEF Entries

LEMMA RecoveredEmpty ==
  ASSUME NEW l, NEW d \in [Blocks -> Data] PROVE Recovered(<<>>, l, d) = d
BY EntriesOfEmpty DEF Recovered

LEMMA DurableIsRecovered ==
  /\ Durable = Recovered(head, logblk, disk)
  /\ Durable' = Recovered(head', logblk', disk')
BY DEF Durable, Recovered, Entries

LEMMA DurableKept ==
  ASSUME UNCHANGED <<disk, logblk, head>> PROVE Durable' = Durable
BY DurableIsRecovered

\* Installing a block changes only what the log overrides.
LEMMA DurableOverInstall ==
  ASSUME TypeOK, Injective(head), head = lh, tail \in DOMAIN lh,
         disk' = [disk EXCEPT ![lh[tail]] = logblk[tail]],
         UNCHANGED <<logblk, head>>
  PROVE  Durable' = Durable
<1>1. ASSUME NEW b \in Blocks
      PROVE  Recovered(head, logblk, disk')[b] = Recovered(head, logblk, disk)[b]
  <2>1. CASE b \in Entries(head)
    BY <2>1 DEF Recovered
  <2>2. CASE b \notin Entries(head)
    <3>1. b # lh[tail]
      BY <2>2 DEF Entries
    <3>2. disk'[b] = disk[b]
      BY <3>1 DEF TypeOK
    <3>. QED
      BY <2>2, <3>2 DEF Recovered
  <2>. QED
    BY <2>1, <2>2
<1>2. Recovered(head, logblk, disk') = Recovered(head, logblk, disk)
  BY <1>1 DEF Recovered
<1>. QED
  BY <1>2, DurableIsRecovered

\* The header may be erased once every entry is installed.
LEMMA DurableOverErase ==
  ASSUME TypeOK, Injective(head), head = lh, Installed(Len(lh) + 1),
         head' = <<>>, UNCHANGED <<disk, logblk>>
  PROVE  Durable' = disk /\ Durable = disk
<1>1. ASSUME NEW b \in Blocks PROVE Recovered(head, logblk, disk)[b] = disk[b]
  <2>1. CASE b \in Entries(head)
    <3>1. PICK i \in DOMAIN head : head[i] = b
      BY <2>1 DEF Entries
    <3>2. i < Len(lh) + 1
      BY <3>1 DEF TypeOK
    <3>3. disk[b] = logblk[i]
      BY <3>1, <3>2 DEF Installed
    <3>. QED
      BY <3>1, <3>3, RecoveredEntry DEF TypeOK
  <2>2. CASE b \notin Entries(head)
    BY <2>2, RecoveredOther
  <2>. QED
    BY <2>1, <2>2
<1>2. Recovered(head, logblk, disk) = disk
  BY <1>1 DEF Recovered, TypeOK
<1>3. Recovered(head', logblk', disk') = disk
  BY RecoveredEmpty DEF TypeOK
<1>. QED
  BY <1>2, <1>3, DurableIsRecovered

-----------------------------------------------------------------------------
(* Steps that write nothing: begin_op(), the start and the end of end_op() *)

LEMMA PinnedKept ==
  ASSUME lh' = lh, sys \in {"up", "panic"}, sys' \in {"up", "panic"},
         \A q \in Procs : /\ pc'[q] = "install" <=> pc[q] = "install"
                          /\ pc'[q] = "erase" <=> pc[q] = "erase"
                          /\ pc[q] = "install" => tail' = tail
  PROVE  Pinned' = Pinned
<1>1. PinnedEntries' = PinnedEntries
  BY Zenon DEF PinnedEntries
<1>. QED
  BY <1>1 DEF Pinned

LEMMA QuietData ==
  ASSUME Inv3, UNCHANGED <<disk, logblk, head, buf, holder, lh>>,
         sys \in {"up", "panic"}, sys' \in {"up", "panic"},
         \A q \in Procs :
           /\ pc'[q] \in CommitPcs => \/ pc'[q] = pc[q] /\ tail' = tail
                                      \/ pc'[q] = "write_log" /\ tail' = 1
                                      \/ pc'[q] = "finish" /\ lh = <<>>
           /\ pc[q] \in {"install", "erase"} => pc'[q] = pc[q]
  PROVE  DataInv' /\ Durable' = Durable /\ Current' = Current
<1>. USE DEF Inv3, DataInv
<1>1. Pinned' = Pinned
  BY PinnedKept DEF CommitPcs
<1>2. CacheInv'
  BY <1>1 DEF CacheInv
<1>3. \A n : (Saved(n) <=> Saved(n)') /\ (Installed(n) <=> Installed(n)')
  BY DEF Saved, Installed, Contents
<1>4. Saved(1)
  BY DEF Saved, Inv1, TypeOK
<1>5. CommitData'
  <2>. SUFFICES ASSUME NEW q \in Procs, pc'[q] \in CommitPcs
                PROVE  /\ pc'[q] = "write_log" => Saved(tail)'
                       /\ pc'[q] \in {"write_head", "install", "erase"} => Saved(Len(lh) + 1)'
                       /\ pc'[q] \in {"install", "erase"} => head' = lh'
                       /\ pc'[q] = "install" => Installed(tail)'
                       /\ pc'[q] = "erase" => Installed(Len(lh) + 1)'
                       /\ pc'[q] = "finish" => lh' = <<>>
    BY DEF CommitData, CommitPcs
  <2>1. CASE pc'[q] = pc[q] /\ tail' = tail
    BY <1>3, <2>1 DEF CommitData
  <2>2. CASE pc'[q] = "write_log" /\ tail' = 1
    BY <1>3, <1>4, <2>2
  <2>3. CASE pc'[q] = "finish" /\ lh = <<>>
    BY <2>3
  <2>. QED
    BY <2>1, <2>2, <2>3
<1>6. HeadInv'
  BY DEF HeadInv, RecoverySys
<1>7. RecoverData'
  BY DEF RecoverData
<1>8. Current' = Current
  BY DEF Current, Contents
<1>. QED
  BY <1>2, <1>5, <1>6, <1>7, <1>8, DurableKept

LEMMA BeginOpData ==
  ASSUME Inv3, NEW p \in Procs, BeginOp(p) PROVE DataInv' /\ AtomicStep
<1>. USE DEF Inv3, Inv1
<1>1. /\ sys = "up" /\ sys' = sys /\ tail' = tail
      /\ pc[p] \in {"idle", "begin"} /\ pc' = [pc EXCEPT ![p] = "inop"]
      /\ UNCHANGED <<disk, logblk, head, buf, holder, lh>>
  BY DEF BeginOp, diskVars, bufVars
<1>2. \A q \in Procs : /\ pc'[q] \in CommitPcs => pc'[q] = pc[q]
                       /\ pc[q] \in {"install", "erase"} => pc'[q] = pc[q]
  BY <1>1 DEF TypeOK, CommitPcs
<1>3. DataInv' /\ Durable' = Durable /\ Current' = Current
  BY <1>1, <1>2, QuietData
<1>4. Active' = Active \cup {p} /\ p \notin Active
  BY <1>1 DEF TypeOK, Active
<1>. QED
  BY <1>3, <1>4 DEF AtomicStep, AD!Next, AD!Begin

LEMMA BeginOpSleepData ==
  ASSUME Inv3, NEW p \in Procs, BeginOpSleep(p) PROVE DataInv' /\ AtomicStep
<1>. USE DEF Inv3, Inv1
<1>1. /\ sys = "up" /\ sys' = sys /\ tail' = tail
      /\ pc[p] \in {"idle", "begin"} /\ pc' = [pc EXCEPT ![p] = "asleep"]
      /\ UNCHANGED <<disk, logblk, head, buf, holder, lh>>
  BY DEF BeginOpSleep, diskVars, bufVars, logVars
<1>2. \A q \in Procs : /\ pc'[q] \in CommitPcs => pc'[q] = pc[q]
                       /\ pc[q] \in {"install", "erase"} => pc'[q] = pc[q]
  BY <1>1 DEF TypeOK, CommitPcs
<1>3. DataInv' /\ Durable' = Durable /\ Current' = Current
  BY <1>1, <1>2, QuietData
<1>4. Active' = Active
  BY <1>1 DEF TypeOK, Active
<1>. QED
  BY <1>3, <1>4 DEF AtomicStep, AD!vars

LEMMA PanicData ==
  ASSUME Inv3, sys = "up", Panic PROVE DataInv' /\ AtomicStep
<1>1. /\ sys' = "panic"
      /\ UNCHANGED <<disk, logblk, head, buf, holder, lh, tail, pc>>
  BY DEF Panic, diskVars, bufVars, logVars
<1>2. DataInv' /\ Durable' = Durable /\ Current' = Current
  BY <1>1, QuietData
<1>3. Active' = Active
  BY <1>1 DEF Active
<1>. QED
  BY <1>2, <1>3 DEF AtomicStep, AD!vars

LEMMA EndOpData ==
  ASSUME Inv3, NEW p \in Procs, EndOp(p) PROVE DataInv' /\ AtomicStep
<1>. USE DEF Inv3, Inv1
<1>1. p \in Active /\ ~committing /\ sys = "up"
  BY DEF EndOp, Active, CommitInv
<1>2. \A q \in Procs : pc[q] \notin CommitPcs
  BY <1>1 DEF CommitInv
<1>3. /\ sys' = sys /\ tail' = 1
      /\ UNCHANGED <<disk, logblk, head, buf, holder, lh>>
      /\ \/ pc' = [pc EXCEPT ![p] = IF lh = <<>> THEN "finish" ELSE "write_log"]
         \/ pc' = Woken([pc EXCEPT ![p] = "idle"])
  BY <1>1 DEF EndOp, diskVars, bufVars
<1>4. \A q \in Procs : /\ pc'[q] \in CommitPcs => \/ pc'[q] = "write_log"
                                                  \/ pc'[q] = "finish" /\ lh = <<>>
                       /\ pc[q] \notin {"install", "erase"}
  BY <1>2, <1>3 DEF TypeOK, Woken, CommitPcs
<1>5. DataInv' /\ Durable' = Durable /\ Current' = Current
  BY <1>1, <1>3, <1>4, QuietData
<1>6. Active' = Active \ {p}
  BY <1>1, <1>3 DEF TypeOK, Active, Woken
<1>. QED
  BY <1>1, <1>5, <1>6 DEF AtomicStep, AD!Next, AD!End

LEMMA FinishData ==
  ASSUME Inv3, NEW p \in Procs, Finish(p) PROVE DataInv' /\ AtomicStep
<1>. USE DEF Inv3, Inv1
<1>1. /\ sys = "up" /\ sys' = sys /\ tail' = tail
      /\ pc[p] = "finish" /\ pc' = Woken([pc EXCEPT ![p] = "idle"])
      /\ UNCHANGED <<disk, logblk, head, buf, holder, lh>>
  BY DEF Finish, diskVars, bufVars
<1>2. \A q \in Procs : /\ pc'[q] \in CommitPcs => pc'[q] = pc[q]
                       /\ pc[q] \in {"install", "erase"} => pc'[q] = pc[q]
  BY <1>1 DEF TypeOK, CommitPcs, Woken
<1>3. DataInv' /\ Durable' = Durable /\ Current' = Current
  BY <1>1, <1>2, QuietData
<1>4. Active' = Active
  BY <1>1 DEF TypeOK, Active, Woken
<1>. QED
  BY <1>3, <1>4 DEF AtomicStep, AD!vars

-----------------------------------------------------------------------------
(* Steps inside an operation *)

\* Nobody commits while an operation is in progress: the committer's part of
\* the invariant is empty.
LEMMA NobodyCommits ==
  ASSUME Inv1, NEW p \in Active PROVE \A q \in Procs : pc[q] \notin CommitPcs
BY DEF Inv1, CommitInv

LEMMA ModifyData ==
  ASSUME Inv3, NEW p \in Procs, NEW b \in Blocks, NEW d \in Data, Modify(p, b, d)
  PROVE  DataInv' /\ AtomicStep
<1>. USE ValuesAssumption DEF Inv3, Inv1, DataInv
<1>1. /\ sys = "up" /\ sys' = sys /\ tail' = tail
      /\ pc[p] = "inop" /\ pc' = [pc EXCEPT ![p] = "modify"]
      /\ holder' = [holder EXCEPT ![b] = p]
      /\ buf' = [buf EXCEPT ![b] = d]
      /\ UNCHANGED <<disk, logblk, head, lh>>
  BY DEF Modify, diskVars, logVars
<1>2. p \in Active /\ Active' = Active
  BY <1>1 DEF TypeOK, Active
<1>3. \A q \in Procs : pc[q] \notin CommitPcs /\ pc'[q] \notin CommitPcs
  BY <1>1, <1>2, NobodyCommits DEF TypeOK, CommitPcs
<1>4. Pinned' = Pinned
  BY <1>1, <1>3, PinnedKept DEF CommitPcs
<1>5. CacheInv'
  <2>. SUFFICES ASSUME NEW c \in Blocks
                PROVE  IF holder'[c] = Nobody /\ c \notin Pinned'
                       THEN buf'[c] \in {NoBuf, disk'[c]} ELSE buf'[c] # NoBuf
    BY DEF CacheInv
  <2>1. CASE c = b
    <3>1. holder'[c] = p /\ buf'[c] = d
      BY <1>1, <2>1 DEF TypeOK
    <3>. QED
      BY <3>1
  <2>2. CASE c # b
    <3>1. holder'[c] = holder[c] /\ buf'[c] = buf[c]
      BY <1>1, <2>2 DEF TypeOK
    <3>. QED
      BY <1>1, <1>4, <3>1 DEF CacheInv
  <2>. QED
    BY <2>1, <2>2
<1>6. CommitData' /\ HeadInv' /\ RecoverData'
  BY <1>1, <1>3 DEF CommitData, HeadInv, RecoverData, CommitPcs
<1>7. Current' = [Current EXCEPT ![b] = d]
  <2>1. Current = [c \in Blocks |-> Contents(c)] /\ Current' = [c \in Blocks |-> Contents(c)']
    BY <1>1 DEF Current
  <2>2. Contents(b)' = d /\ \A c \in Blocks : c # b => Contents(c)' = Contents(c)
    BY <1>1 DEF Contents, TypeOK
  <2>. QED
    BY <2>1, <2>2
<1>8. Durable' = Durable
  BY <1>1, DurableKept
<1>. QED
  BY <1>2, <1>5, <1>6, <1>7, <1>8 DEF AtomicStep, AD!Next, AD!Write

LEMMA LogWriteData ==
  ASSUME Inv3, NEW p \in Procs, NEW b \in Blocks, LogWrite(p, b)
  PROVE  DataInv' /\ AtomicStep
<1>. USE ValuesAssumption DEF Inv3, Inv1, DataInv
<1>1. CASE LogWritePanics
  <2>1. sys = "up" /\ Panic
    BY <1>1 DEF LogWrite
  <2>. QED
    BY <2>1, PanicData
<1>2. CASE ~LogWritePanics
  <2>1. /\ sys = "up" /\ sys' = sys /\ tail' = tail /\ holder[b] = p
        /\ Absorbed(b) => lh' = lh
        /\ ~Absorbed(b) => lh' = Append(lh, b)
        /\ pc[p] = "modify" /\ pc' = [pc EXCEPT ![p] = "inop"]
        /\ holder' = [holder EXCEPT ![b] = Nobody]
        /\ UNCHANGED <<disk, logblk, head, buf>>
    BY <1>2 DEF LogWrite, diskVars
  <2>2. p \in Active /\ Active' = Active
    BY <2>1 DEF TypeOK, Active
  <2>3. \A q \in Procs : pc[q] \notin CommitPcs /\ pc'[q] \notin CommitPcs
    BY <2>1, <2>2, NobodyCommits DEF TypeOK, CommitPcs
  <2>4. PinnedEntries = DOMAIN lh /\ PinnedEntries' = DOMAIN lh'
    BY <2>1, <2>3, Zenon DEF PinnedEntries, CommitPcs
  <2>5. Pinned' = Pinned \cup {b}
    <3>1. lh \in Seq(Blocks) /\ DOMAIN lh = 1 .. Len(lh) /\ Len(lh) \in Nat
      BY DEF TypeOK
    <3>2. CASE Absorbed(b)
      BY <2>1, <2>4, <3>2 DEF Pinned, Absorbed
    <3>3. CASE ~Absorbed(b)
      <4>1. lh' = Append(lh, b)
        BY <2>1, <3>3
      <4>2. /\ DOMAIN lh' = DOMAIN lh \cup {Len(lh) + 1}
            /\ \A i \in DOMAIN lh : lh'[i] = lh[i]
            /\ lh'[Len(lh) + 1] = b
        BY <3>1, <4>1
      <4>. QED
        BY <2>4, <4>2 DEF Pinned
    <3>. QED
      BY <3>2, <3>3
  <2>6. CacheInv'
    <3>. SUFFICES ASSUME NEW c \in Blocks
                  PROVE  IF holder'[c] = Nobody /\ c \notin Pinned'
                         THEN buf'[c] \in {NoBuf, disk'[c]} ELSE buf'[c] # NoBuf
      BY DEF CacheInv
    <3>1. CASE c = b
      <4>1. buf[b] # NoBuf
        BY <2>1 DEF CacheInv
      <4>. QED
        BY <2>1, <2>5, <3>1, <4>1
    <3>2. CASE c # b
      <4>1. holder'[c] = holder[c]
        BY <2>1, <3>2 DEF TypeOK
      <4>. QED
        BY <2>1, <2>5, <3>2, <4>1 DEF CacheInv
    <3>. QED
      BY <3>1, <3>2
  <2>7. CommitData' /\ HeadInv' /\ RecoverData'
    BY <2>1, <2>3 DEF CommitData, HeadInv, RecoverData, CommitPcs
  <2>8. Current' = Current
    BY <2>1 DEF Current, Contents
  <2>9. Durable' = Durable
    BY <2>1, DurableKept
  <2>. QED
    BY <2>2, <2>6, <2>7, <2>8, <2>9 DEF AtomicStep, AD!vars
<1>. QED
  BY <1>1, <1>2

-----------------------------------------------------------------------------
(* commit() *)

\* While a process commits, the cache agrees with the disk but for the
\* entries not yet installed.
LEMMA CommitContents ==
  ASSUME Inv3, NEW p \in Procs, pc[p] \in CommitPcs, NEW b \in Blocks, b \notin Entries(lh)
  PROVE  Contents(b) = disk[b]
<1>1. holder[b] = Nobody
  BY CommitterFacts DEF Inv3
<1>2. b \notin Pinned
  BY DEF Pinned, PinnedEntries, Entries
<1>. QED
  BY <1>1, <1>2 DEF Inv3, DataInv, CacheInv, Contents

LEMMA WriteLogData ==
  ASSUME Inv3, NEW p \in Procs, WriteLog(p) PROVE DataInv' /\ AtomicStep
<1>. USE DEF Inv3, Inv1, DataInv
<1>1. /\ sys = "up" /\ sys' = sys /\ pc[p] = "write_log"
      /\ logblk' = [logblk EXCEPT ![tail] = Contents(lh[tail])]
      /\ AtLastEntry => tail' = 1 /\ pc' = [pc EXCEPT ![p] = "write_head"]
      /\ ~AtLastEntry => tail' = tail + 1 /\ pc' = pc
      /\ UNCHANGED <<disk, head, buf, holder, lh>>
  BY DEF WriteLog, bufVars, logVars
<1>2. pc[p] \in CommitPcs /\ \A q \in Procs : q # p => pc[q] \notin CommitPcs
  BY <1>1, CommitterFacts DEF CommitPcs
<1>3. /\ lh \in Seq(Blocks) /\ Len(lh) \in Nat /\ DOMAIN lh = 1 .. Len(lh)
      /\ tail \in DOMAIN lh /\ Len(lh) < NLOG
  BY <1>1 DEF TypeOK, TailInv
<1>4. head = <<>>
  BY <1>1, <1>2 DEF HeadInv, RecoverySys, CommitPcs
<1>5. \A q \in Procs : q # p => pc'[q] = pc[q]
  BY <1>1 DEF TypeOK
<1>6. Active' = Active
  BY <1>1 DEF TypeOK, Active
<1>7. Pinned' = Pinned
  <2>1. \A q \in Procs : /\ pc[q] # "install" /\ pc'[q] # "install"
                         /\ pc[q] # "erase" /\ pc'[q] # "erase"
    BY <1>1, <1>2, <1>5 DEF TypeOK, CommitPcs
  <2>. QED
    BY <1>1, <2>1, PinnedKept
<1>8. CacheInv'
  BY <1>1, <1>7 DEF CacheInv
<1>9. \A i \in DOMAIN lh : i <= tail => logblk'[i] = Contents(lh[i])
  <2>1. Saved(tail)
    BY <1>1 DEF CommitData
  <2>2. tail \in LogSlots
    BY <1>3, SizesAssumption DEF LogSlots
  <2>3. logblk'[tail] = Contents(lh[tail])
    BY <1>1, <2>2 DEF TypeOK
  <2>4. \A i \in DOMAIN lh : i # tail => logblk'[i] = logblk[i]
    BY <1>1 DEF TypeOK
  <2>. QED
    BY <1>3, <2>1, <2>3, <2>4 DEF Saved
<1>10. \A b : Contents(b)' = Contents(b)
  BY <1>1 DEF Contents
<1>11. CommitData'
  <2>1. CASE AtLastEntry
    <3>1. Saved(Len(lh) + 1)'
      BY <1>1, <1>3, <1>9, <1>10, <2>1 DEF AtLastEntry, Saved
    <3>2. pc'[p] = "write_head"
      BY <1>1, <2>1 DEF TypeOK
    <3>. QED
      BY <1>2, <1>5, <3>1, <3>2 DEF CommitData, CommitPcs
  <2>2. CASE ~AtLastEntry
    <3>1. Saved(tail)'
      BY <1>1, <1>3, <1>9, <1>10, <2>2 DEF Saved
    <3>2. pc'[p] = "write_log"
      BY <1>1, <2>2
    <3>. QED
      BY <1>2, <1>5, <3>1, <3>2 DEF CommitData, CommitPcs
  <2>. QED
    BY <2>1, <2>2
<1>12. HeadInv' /\ RecoverData'
  BY <1>1, <1>4 DEF HeadInv, RecoverData
<1>13. Current' = Current
  BY <1>1, <1>10 DEF Current
<1>14. Durable' = Durable
  BY <1>1, <1>4, DurableIsRecovered, RecoveredEmpty DEF TypeOK
<1>. QED
  BY <1>6, <1>8, <1>11, <1>12, <1>13, <1>14 DEF AtomicStep, AD!vars

LEMMA WriteHeadData ==
  ASSUME Inv3, NEW p \in Procs, WriteHead(p) PROVE DataInv' /\ AtomicStep
<1>. USE DEF Inv3, Inv1, DataInv
<1>1. /\ sys = "up" /\ sys' = sys /\ tail' = tail /\ head' = lh
      /\ pc[p] = "write_head" /\ pc' = [pc EXCEPT ![p] = "install"]
      /\ UNCHANGED <<disk, logblk, buf, holder, lh>>
  BY DEF WriteHead, bufVars, logVars
<1>2. /\ pc[p] \in CommitPcs /\ Active = {}
      /\ \A q \in Procs : q # p => pc[q] \notin CommitPcs
  BY <1>1, CommitterFacts DEF CommitPcs
<1>3. /\ lh \in Seq(Blocks) /\ Len(lh) \in Nat /\ DOMAIN lh = 1 .. Len(lh)
      /\ tail = 1 /\ Injective(lh)
  BY <1>1 DEF TypeOK, TailInv, NoDup
<1>4. pc'[p] = "install" /\ \A q \in Procs : q # p => pc'[q] = pc[q]
  BY <1>1 DEF TypeOK
<1>5. Active' = Active
  BY <1>1 DEF TypeOK, Active
<1>6. Pinned' = Pinned
  <2>1. PinnedEntries = DOMAIN lh /\ PinnedEntries' = DOMAIN lh
    <3>1. \A i \in DOMAIN lh : i >= tail
      BY <1>3
    <3>. QED
      BY <1>1, <1>2, <1>4, <3>1 DEF PinnedEntries, CommitPcs
  <2>. QED
    BY <1>1, <2>1 DEF Pinned
<1>7. CacheInv'
  BY <1>1, <1>6 DEF CacheInv
<1>8. Saved(Len(lh) + 1) /\ \A b : Contents(b)' = Contents(b)
  BY <1>1 DEF CommitData, Contents
<1>9. Saved(Len(lh) + 1)' /\ Installed(tail)'
  BY <1>1, <1>3, <1>8 DEF Saved, Installed
<1>10. CommitData'
  BY <1>1, <1>2, <1>4, <1>9 DEF CommitData, CommitPcs
<1>11. HeadInv' /\ RecoverData'
  BY <1>1, <1>4 DEF HeadInv, RecoverData
<1>12. Current' = Current /\ Current = [b \in Blocks |-> Contents(b)]
  BY <1>1, <1>8 DEF Current
<1>13. ASSUME NEW b \in Blocks PROVE Recovered(lh, logblk, disk)[b] = Contents(b)
  <2>1. CASE b \in Entries(lh)
    <3>1. PICK i \in DOMAIN lh : lh[i] = b
      BY <2>1 DEF Entries
    <3>2. i < Len(lh) + 1
      BY <1>3
    <3>3. logblk[i] = Contents(b)
      BY <1>8, <3>1, <3>2 DEF Saved
    <3>. QED
      BY <1>3, <3>1, <3>3, RecoveredEntry
  <2>2. CASE b \notin Entries(lh)
    BY <1>2, <2>2, RecoveredOther, CommitContents
  <2>. QED
    BY <2>1, <2>2
<1>14. Durable' = Current
  <2>1. Recovered(lh, logblk, disk) = [b \in Blocks |-> Contents(b)]
    BY <1>13 DEF Recovered
  <2>. QED
    BY <1>1, <1>12, <2>1, DurableIsRecovered
<1>. QED
  BY <1>2, <1>5, <1>7, <1>10, <1>11, <1>12, <1>14 DEF AtomicStep, AD!Next, AD!Commit

LEMMA InstallData ==
  ASSUME Inv3, NEW p \in Procs, Install(p) PROVE DataInv' /\ AtomicStep
<1>. USE ValuesAssumption DEF Inv3, Inv1, DataInv
<1>. DEFINE b == lh[tail]
<1>1. /\ sys = "up" /\ sys' = sys /\ pc[p] = "install"
      /\ disk' = [disk EXCEPT ![b] = logblk[tail]]
      /\ buf' = [buf EXCEPT ![b] = logblk[tail]]
      /\ tail' = IF AtLastEntry THEN 1 ELSE tail + 1
      /\ pc' = IF AtLastEntry THEN [pc EXCEPT ![p] = "erase"] ELSE pc
      /\ UNCHANGED <<logblk, head, holder, lh>>
  BY DEF Install, InstallBlock, logVars
<1>2. /\ pc[p] \in CommitPcs /\ \A q \in Procs : q # p => pc[q] \notin CommitPcs
      /\ \A c \in Blocks : holder[c] = Nobody
  BY <1>1, CommitterFacts DEF CommitPcs
<1>3. /\ lh \in Seq(Blocks) /\ Len(lh) \in Nat /\ DOMAIN lh = 1 .. Len(lh)
      /\ tail \in DOMAIN lh /\ b \in Blocks /\ Len(lh) < NLOG
  BY <1>1 DEF TypeOK, TailInv
<1>4. head = lh /\ Saved(Len(lh) + 1) /\ Installed(tail)
  BY <1>1 DEF CommitData
<1>5. logblk[tail] \in Data /\ logblk[tail] = Contents(b)
  <2>1. tail \in LogSlots /\ tail < Len(lh) + 1
    BY <1>3, SizesAssumption DEF LogSlots
  <2>. QED
    BY <1>3, <1>4, <2>1 DEF TypeOK, Saved
<1>6. /\ disk'[b] = logblk[tail] /\ buf'[b] = logblk[tail]
      /\ \A c \in Blocks : c # b => disk'[c] = disk[c] /\ buf'[c] = buf[c]
  BY <1>1, <1>3 DEF TypeOK
<1>. HIDE DEF b
<1>7. \A c \in Blocks : Contents(c)' = Contents(c)
  BY <1>5, <1>6 DEF Contents
<1>8. /\ AtLastEntry => pc'[p] = "erase"
      /\ ~AtLastEntry => pc'[p] = "install"
      /\ \A q \in Procs : q # p => pc'[q] = pc[q]
  BY <1>1 DEF TypeOK
<1>9. Active' = Active
  BY <1>1 DEF TypeOK, Active
<1>10. \A c \in Blocks : c # b => (c \in Pinned' <=> c \in Pinned)
  <2>1. \A i \in DOMAIN lh : i \in PinnedEntries <=> i >= tail
    BY <1>1, <1>2 DEF PinnedEntries, CommitPcs
  <2>2. \A i \in DOMAIN lh : i \in PinnedEntries' <=> i > tail
    <3>1. CASE AtLastEntry
      <4>1. \A i \in DOMAIN lh : ~(i > tail)
        BY <1>3, <3>1 DEF AtLastEntry
      <4>. QED
        BY <1>8, <3>1, <4>1 DEF PinnedEntries
    <3>2. CASE ~AtLastEntry
      <4>1. \A i \in DOMAIN lh : i > tail <=> i >= tail'
        BY <1>1, <1>3, <3>2
      <4>. QED
        BY <1>1, <1>2, <1>8, <3>2, <4>1 DEF PinnedEntries, CommitPcs
    <3>. QED
      BY <3>1, <3>2
  <2>3. \A i \in DOMAIN lh : i # tail => (i \in PinnedEntries' <=> i \in PinnedEntries)
    BY <1>3, <2>1, <2>2
  <2>4. \A i \in PinnedEntries' : i \in DOMAIN lh
    BY <1>1 DEF PinnedEntries
  <2>5. \A i \in PinnedEntries : i \in DOMAIN lh
    BY DEF PinnedEntries
  <2>. QED
    BY <1>1, <2>3, <2>4, <2>5 DEF Pinned, b
<1>11. CacheInv'
  <2>. SUFFICES ASSUME NEW c \in Blocks
                PROVE  IF holder'[c] = Nobody /\ c \notin Pinned'
                       THEN buf'[c] \in {NoBuf, disk'[c]} ELSE buf'[c] # NoBuf
    BY DEF CacheInv
  <2>1. CASE c = b
    BY <1>5, <1>6, <2>1
  <2>2. CASE c # b
    BY <1>1, <1>6, <1>10, <2>2 DEF CacheInv
  <2>. QED
    BY <2>1, <2>2
<1>12. Saved(Len(lh) + 1)'
  <2>1. \A i \in DOMAIN lh : lh[i] \in Blocks
    BY <1>3
  <2>. QED
    BY <1>1, <1>4, <1>7, <2>1 DEF Saved
<1>13. \A i \in DOMAIN lh : i <= tail => disk'[lh[i]] = logblk[i]
  <2>1. \A i \in DOMAIN lh : i # tail => lh[i] # b /\ lh[i] \in Blocks
    BY <1>3 DEF NoDup, Injective, b
  <2>. QED
    BY <1>3, <1>4, <1>6, <2>1 DEF Installed, b
<1>14. CommitData'
  <2>1. CASE AtLastEntry
    <3>1. Installed(Len(lh) + 1)'
      BY <1>1, <1>3, <1>13, <2>1 DEF AtLastEntry, Installed
    <3>. QED
      BY <1>1, <1>2, <1>4, <1>8, <1>12, <2>1, <3>1 DEF CommitData, CommitPcs
  <2>2. CASE ~AtLastEntry
    <3>1. Installed(tail)'
      BY <1>1, <1>3, <1>13, <2>2 DEF Installed
    <3>. QED
      BY <1>1, <1>2, <1>4, <1>8, <1>12, <2>2, <3>1 DEF CommitData, CommitPcs
  <2>. QED
    BY <2>1, <2>2
<1>15. HeadInv' /\ RecoverData'
  BY <1>1, <1>8 DEF HeadInv, RecoverData
<1>16. Current' = Current
  BY <1>1, <1>7 DEF Current
<1>17. Durable' = Durable
  BY <1>1, <1>3, <1>4, DurableOverInstall DEF NoDup, b
<1>. QED
  BY <1>9, <1>11, <1>14, <1>15, <1>16, <1>17 DEF AtomicStep, AD!vars

LEMMA EraseData ==
  ASSUME Inv3, NEW p \in Procs, Erase(p) PROVE DataInv' /\ AtomicStep
<1>. USE DEF Inv3, Inv1, DataInv
<1>1. /\ sys = "up" /\ sys' = sys /\ lh' = <<>> /\ head' = <<>>
      /\ pc[p] = "erase" /\ pc' = [pc EXCEPT ![p] = "finish"]
      /\ UNCHANGED <<disk, logblk, buf, holder>>
  BY DEF Erase, bufVars
<1>2. /\ pc[p] \in CommitPcs /\ \A q \in Procs : q # p => pc[q] \notin CommitPcs
      /\ \A c \in Blocks : holder[c] = Nobody
  BY <1>1, CommitterFacts DEF CommitPcs
<1>3. head = lh /\ Installed(Len(lh) + 1)
  BY <1>1 DEF CommitData
<1>4. pc'[p] = "finish" /\ \A q \in Procs : q # p => pc'[q] = pc[q]
  BY <1>1 DEF TypeOK
<1>5. Active' = Active
  BY <1>1 DEF TypeOK, Active
<1>6. Pinned = {} /\ Pinned' = {}
  BY <1>1 DEF Pinned, PinnedEntries
<1>7. CacheInv'
  BY <1>1, <1>6 DEF CacheInv
<1>8. CommitData' /\ HeadInv' /\ RecoverData'
  BY <1>1, <1>2, <1>4 DEF CommitData, HeadInv, RecoverData, CommitPcs
<1>9. Current' = Current
  BY <1>1 DEF Current, Contents
<1>10. Durable' = Durable
  BY <1>1, <1>3, DurableOverErase DEF NoDup
<1>. QED
  BY <1>5, <1>7, <1>8, <1>9, <1>10 DEF AtomicStep, AD!vars

-----------------------------------------------------------------------------
(* The buffer cache *)

\* Filling and recycling buffers changes nothing that can be read.
LEMMA CacheData ==
  ASSUME Inv3, NEW b \in Blocks, Bread(b) \/ Recycle(b) PROVE DataInv' /\ AtomicStep
<1>. USE ValuesAssumption DEF Inv3, Inv1, DataInv
<1>1. /\ sys = "up"
      /\ UNCHANGED <<disk, logblk, head, holder, refcnt, lh, tail, pc, sys>>
  BY DEF Bread, Recycle, diskVars, logVars
<1>2. /\ \A c \in Blocks : c # b => buf'[c] = buf[c]
      /\ buf[b] = NoBuf => buf'[b] = disk[b]
      /\ buf[b] # NoBuf => buf'[b] = NoBuf /\ refcnt[b] = 0
  <2>1. CASE Bread(b)
    BY <2>1 DEF Bread, TypeOK
  <2>2. CASE Recycle(b)
    BY <2>2 DEF Recycle, TypeOK
  <2>. QED
    BY <2>1, <2>2
<1>3. Pinned' = Pinned /\ Active' = Active
  BY <1>1, PinnedKept DEF Active
<1>4. holder[b] = Nobody /\ b \notin Pinned
  <2>1. CASE buf[b] = NoBuf
    BY <2>1 DEF CacheInv
  <2>2. CASE buf[b] # NoBuf
    <3>1. refcnt[b] = 0
      BY <1>2, <2>2
    <3>. QED
      BY <3>1 DEF PinsBalanced
  <2>. QED
    BY <2>1, <2>2
<1>5. buf[b] \in {NoBuf, disk[b]} /\ disk[b] # NoBuf
  BY <1>4 DEF CacheInv, TypeOK
<1>6. \A c \in Blocks : Contents(c)' = Contents(c)
  BY <1>1, <1>2, <1>5 DEF Contents
<1>7. CacheInv'
  <2>. SUFFICES ASSUME NEW c \in Blocks
                PROVE  IF holder'[c] = Nobody /\ c \notin Pinned'
                       THEN buf'[c] \in {NoBuf, disk'[c]} ELSE buf'[c] # NoBuf
    BY DEF CacheInv
  <2>1. CASE c = b
    BY <1>1, <1>2, <1>3, <1>4, <2>1
  <2>2. CASE c # b
    BY <1>1, <1>2, <1>3, <2>2 DEF CacheInv
  <2>. QED
    BY <2>1, <2>2
<1>8. \A i \in DOMAIN lh : lh[i] \in Blocks
  BY DEF TypeOK
<1>9. \A n : (Saved(n) <=> Saved(n)') /\ (Installed(n) <=> Installed(n)')
  BY <1>1, <1>6, <1>8 DEF Saved, Installed
<1>10. CommitData' /\ HeadInv' /\ RecoverData'
  BY <1>1, <1>9 DEF CommitData, HeadInv, RecoverData
<1>11. Current' = Current
  BY <1>1, <1>6 DEF Current
<1>12. Durable' = Durable
  BY <1>1, DurableKept
<1>. QED
  BY <1>3, <1>7, <1>10, <1>11, <1>12 DEF AtomicStep, AD!vars

-----------------------------------------------------------------------------
(* Crash and recovery *)

LEMMA CrashData == ASSUME Inv3, Crash PROVE DataInv' /\ AtomicStep
<1>. USE DEF Inv3, Inv1, DataInv
<1>1. Pinned' = {} /\ Active' = {}
  BY DEF Crash, Pinned, PinnedEntries, Active
<1>2. CacheInv'
  BY <1>1 DEF Crash, CacheInv
<1>3. CommitData' /\ HeadInv' /\ RecoverData'
  BY DEF Crash, CommitData, HeadInv, RecoverData, RecoverySys
<1>4. Durable' = Durable
  BY DurableKept DEF Crash, diskVars
<1>5. Current' = Durable'
  BY DEF Crash, Current
<1>. QED
  BY <1>1, <1>2, <1>3, <1>4, <1>5 DEF AtomicStep, AD!Next, AD!Crash

\* During recovery nothing is pinned or locked.
LEMMA RecoveryCache ==
  ASSUME Inv3, sys \in RecoverySys
  PROVE  /\ \A b \in Blocks : holder[b] = Nobody /\ buf[b] \in {NoBuf, disk[b]}
         /\ \A q \in Procs : pc[q] = "idle"
<1>1. Pinned = {}
  BY DEF Pinned, PinnedEntries, RecoverySys
<1>. QED
  BY <1>1 DEF Inv3, Inv1, DataInv, CacheInv, HolderInv, CommitInv

LEMMA RecoverDataStep == ASSUME Inv3, Recover PROVE DataInv' /\ AtomicStep
<1>. USE ValuesAssumption DEF Inv3, Inv1, DataInv
<1>1. sys \in RecoverySys /\ UNCHANGED <<logblk, holder, pc>>
  BY DEF Recover, ReadHead, RecoverInstall, RecoverErase, RecoverySys,
         diskVars, bufVars, logVars
<1>2. /\ \A b \in Blocks : holder[b] = Nobody /\ buf[b] \in {NoBuf, disk[b]}
      /\ \A q \in Procs : pc[q] = "idle"
  BY <1>1, RecoveryCache
<1>3. Active' = Active /\ CommitData'
  BY <1>1, <1>2 DEF Active, CommitData
<1>4. Current = Durable
  BY <1>1 DEF Current, RecoverySys
<1>5. CASE ReadHead
  <2>1. /\ lh' = head /\ tail' = 1 /\ sys' = (IF head = <<>> THEN "erase" ELSE "install")
        /\ UNCHANGED <<disk, head, buf>>
    BY <1>5 DEF ReadHead, diskVars, bufVars
  <2>2. sys' \in {"install", "erase"} /\ Pinned' = {}
    BY <2>1 DEF Pinned, PinnedEntries
  <2>3. CacheInv'
    BY <1>1, <1>2, <2>1, <2>2 DEF CacheInv
  <2>4. HeadInv'
    BY <2>2 DEF HeadInv, RecoverySys
  <2>5. RecoverData'
    <3>1. head \in Seq(Blocks)
      BY DEF TypeOK
    <3>2. Installed(1)'
      BY <2>1, <3>1 DEF Installed
    <3>3. head = <<>> => Installed(Len(lh) + 1)'
      BY <2>1 DEF Installed
    <3>. QED
      BY <2>1, <3>2, <3>3 DEF RecoverData
  <2>6. Durable' = Durable
    BY <1>1, <2>1, DurableKept
  <2>7. Current' = Durable'
    BY <2>2 DEF Current
  <2>. QED
    BY <1>3, <1>4, <2>3, <2>4, <2>5, <2>6, <2>7 DEF AtomicStep, AD!vars
<1>6. CASE RecoverInstall
  <2>. DEFINE b == lh[tail]
  <2>1. /\ sys = "install"
        /\ disk' = [disk EXCEPT ![b] = logblk[tail]]
        /\ buf' = [buf EXCEPT ![b] = logblk[tail]]
        /\ tail' = IF AtLastEntry THEN 1 ELSE tail + 1
        /\ sys' = IF AtLastEntry THEN "erase" ELSE sys
        /\ UNCHANGED <<head, lh>>
    BY <1>6 DEF RecoverInstall, InstallBlock, logVars
  <2>2. /\ lh \in Seq(Blocks) /\ Len(lh) \in Nat /\ DOMAIN lh = 1 .. Len(lh)
        /\ tail \in DOMAIN lh /\ b \in Blocks
    BY <2>1 DEF TailInv, TypeOK
  <2>3. lh = head /\ Installed(tail)
    BY <2>1 DEF RecoverData
  <2>4. /\ disk'[b] = logblk[tail] /\ buf'[b] = logblk[tail]
        /\ \A c \in Blocks : c # b => disk'[c] = disk[c] /\ buf'[c] = buf[c]
    BY <2>1, <2>2 DEF TypeOK
  <2>. HIDE DEF b
  <2>5. sys' \in {"install", "erase"} /\ Pinned' = {}
    BY <2>1 DEF Pinned, PinnedEntries
  <2>6. CacheInv'
    <3>1. \A c \in Blocks : buf'[c] \in {NoBuf, disk'[c]}
      BY <1>2, <2>4
    <3>. QED
      BY <1>1, <1>2, <2>5, <3>1 DEF CacheInv
  <2>7. HeadInv'
    BY <2>5 DEF HeadInv, RecoverySys
  <2>8. \A i \in DOMAIN lh : i <= tail => disk'[lh[i]] = logblk[i]
    <3>1. \A i \in DOMAIN lh : i # tail => lh[i] # b /\ lh[i] \in Blocks
      BY <2>2 DEF NoDup, Injective, b
    <3>. QED
      BY <2>2, <2>3, <2>4, <3>1 DEF Installed, b
  <2>9. RecoverData'
    <3>1. CASE AtLastEntry
      <4>1. Installed(Len(lh) + 1)'
        BY <1>1, <2>1, <2>2, <2>8, <3>1 DEF AtLastEntry, Installed
      <4>. QED
        BY <2>1, <2>3, <3>1, <4>1 DEF RecoverData
    <3>2. CASE ~AtLastEntry
      <4>1. Installed(tail)'
        BY <1>1, <2>1, <2>2, <2>8, <3>2 DEF Installed
      <4>. QED
        BY <2>1, <2>3, <3>2, <4>1 DEF RecoverData
    <3>. QED
      BY <3>1, <3>2
  <2>10. Durable' = Durable
    BY <1>1, <2>1, <2>2, <2>3, DurableOverInstall DEF NoDup, b
  <2>11. Current' = Durable'
    BY <2>5 DEF Current
  <2>. QED
    BY <1>3, <1>4, <2>6, <2>7, <2>9, <2>10, <2>11 DEF AtomicStep, AD!vars
<1>7. CASE RecoverErase
  <2>1. /\ sys = "erase" /\ sys' = "up" /\ lh' = <<>> /\ head' = <<>>
        /\ UNCHANGED <<disk, buf>>
    BY <1>7 DEF RecoverErase, bufVars
  <2>2. lh = head /\ Installed(Len(lh) + 1)
    BY <2>1 DEF RecoverData
  <2>3. Pinned' = {}
    BY <2>1 DEF Pinned, PinnedEntries
  <2>4. CacheInv'
    BY <1>1, <1>2, <2>1, <2>3 DEF CacheInv
  <2>5. HeadInv' /\ RecoverData'
    BY <2>1 DEF HeadInv, RecoverData
  <2>6. Durable' = disk /\ Durable = disk
    BY <1>1, <2>1, <2>2, DurableOverErase DEF NoDup
  <2>7. Current' = disk
    <3>1. \A b \in Blocks : Contents(b)' = disk[b]
      BY <1>2, <2>1 DEF Contents
    <3>. QED
      BY <2>1, <3>1 DEF Current, TypeOK
  <2>. QED
    BY <1>3, <1>4, <2>4, <2>5, <2>6, <2>7 DEF AtomicStep, AD!vars
<1>. QED
  BY <1>5, <1>6, <1>7 DEF Recover

-----------------------------------------------------------------------------
(* Every step *)

LEMMA StutterData == ASSUME Inv3, UNCHANGED vars PROVE DataInv' /\ AtomicStep
<1>1. Pinned' = Pinned /\ Active' = Active /\ Durable' = Durable /\ Current' = Current
  BY DEF vars, Pinned, PinnedEntries, Active, Durable, Entries, Current, Contents
<1>2. \A n : (Saved(n) <=> Saved(n)') /\ (Installed(n) <=> Installed(n)')
  BY DEF vars, Saved, Installed, Contents
<1>. QED
  BY <1>1, <1>2 DEF vars, Inv3, DataInv, CacheInv, CommitData, HeadInv, RecoverData,
                    AtomicStep, AD!vars

LEMMA NextData == Inv3 /\ [Next]_vars => DataInv' /\ AtomicStep
<1>. SUFFICES ASSUME Inv3, [Next]_vars PROVE DataInv' /\ AtomicStep
  OBVIOUS
<1>1. ASSUME NEW p \in Procs, Commit(p) PROVE DataInv' /\ AtomicStep
  BY <1>1, WriteLogData, WriteHeadData, InstallData, EraseData, FinishData DEF Commit
<1>. QED
  BY <1>1, BeginOpData, BeginOpSleepData, ModifyData, LogWriteData, EndOpData,
     CacheData, CrashData, RecoverDataStep, StutterData DEF Next

LEMMA InitData == Init => DataInv /\ AD!Init
<1>. SUFFICES ASSUME Init PROVE DataInv /\ AD!Init
  OBVIOUS
<1>1. Pinned = {} /\ Active = {}
  BY DEF Init, Pinned, PinnedEntries, Active
<1>2. DataInv
  BY <1>1 DEF Init, DataInv, CacheInv, CommitData, HeadInv, RecoverData, RecoverySys
<1>3. Durable = disk /\ Current = Durable
  BY DurableIsRecovered, RecoveredEmpty DEF Init, Current
<1>. QED
  BY <1>1, <1>2, <1>3 DEF Init, AD!Init

LEMMA AlwaysInv3 == Spec => []Inv3
<1>1. Init => Inv3
  BY InitInv1, InitData DEF Inv3
<1>2. Inv3 /\ [Next]_vars => Inv3'
  BY NextInv1, NextData DEF Inv3
<1>. QED
  BY <1>1, <1>2, PTL DEF Spec

\* Crash atomicity: whatever crashes in the middle of a commit or a recovery,
\* the disk that recovery produces changes only by whole groups of calls, none
\* of which is half done.  Log implements AtomicDisk.
THEOREM LogRefinesAtomicDisk == Spec => LogIsAtomic
<1>1. Init => AD!Init
  BY InitData
<1>2. Inv3 /\ [Next]_vars => [AD!Next]_(AD!vars)
  BY NextData DEF AtomicStep
<1>. QED
  BY <1>1, <1>2, AlwaysInv3, PTL DEF Spec, LogIsAtomic, AD!Spec

\* When the end_op() that committed returns, all that was logged is durable: a
\* crash loses nothing from then on.
THEOREM DurableWhenCommitted == Spec => []DurableAtReturn
<1>1. Inv3 => DurableAtReturn
  <2>. SUFFICES ASSUME Inv3, NEW p \in Procs, pc[p] = "finish" PROVE Durable = Current
    BY DEF DurableAtReturn
  <2>1. pc[p] \in CommitPcs
    BY DEF CommitPcs
  <2>2. /\ sys \in {"up", "panic"}
        /\ \A q \in Procs : pc[q] \notin {"install", "erase"}
        /\ head = <<>> /\ lh = <<>>
    BY <2>1, CommitterFacts
       DEF Inv3, Inv1, TypeOK, DataInv, CommitData, HeadInv, CommitPcs, RecoverySys
  <2>3. \A b \in Blocks : Contents(b) = disk[b]
    BY <2>1, <2>2, CommitContents, EntriesOfEmpty
  <2>4. Durable = disk
    BY <2>2, DurableIsRecovered, RecoveredEmpty DEF Inv3, Inv1, TypeOK
  <2>. QED
    BY <2>2, <2>3, <2>4 DEF Current, Inv3, Inv1, TypeOK
<1>. QED
  BY <1>1, AlwaysInv3, PTL
=============================================================================
