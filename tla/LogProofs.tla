----------------------------- MODULE LogProofs ------------------------------
(***************************************************************************)
(* Proofs about Log for any number of processes and blocks, any log size   *)
(* and any reservation.                                                    *)
(***************************************************************************)
EXTENDS Log, TLAPS, FiniteSetTheorems, SequenceTheorems

-----------------------------------------------------------------------------
(* The inductive invariant *)

RecoverySys == {"read_head", "install", "erase"}

\* Only the process whose end_op() found no other operation outstanding
\* commits, and nobody is in an operation meanwhile.
CommitInv ==
  /\ \A p, q \in Procs : pc[p] \in CommitPcs /\ pc[q] \in CommitPcs => p = q
  /\ \A p \in Procs : pc[p] \in CommitPcs => committing
  /\ committing => Active = {}
  /\ sys \in RecoverySys => ~committing /\ \A p \in Procs : pc[p] = "idle"

\* outstanding counts the operations in progress.
CountInv == outstanding = Cardinality(Active)

\* The loop variable stays within the log header.
TailInv ==
  /\ \A p \in Procs : pc[p] \in {"write_log", "install"} => tail <= Len(lh)
  /\ \A p \in Procs : pc[p] = "write_head" => tail = 1 /\ lh # <<>>
  /\ sys = "install" => tail <= Len(lh)

\* Absorption: no block has two entries.
Injective(h) == \A i, j \in DOMAIN h : h[i] = h[j] => i = j

NoDup == Injective(lh) /\ Injective(head)

\* A buffer is locked by a process about to call log_write() on it, which
\* works on no other buffer.
HolderInv ==
  /\ \A b \in Blocks : holder[b] # Nobody => pc[holder[b]] = "modify"
  /\ \A b, c \in Blocks : holder[b] # Nobody /\ holder[b] = holder[c] => b = c
  /\ sys \in RecoverySys => \A b \in Blocks : holder[b] = Nobody

Inv1 == TypeOK /\ CommitInv /\ CountInv /\ TailInv /\ NoDup /\ HolderInv
        /\ PinsBalanced

\* No entry comes twice in an empty log.
LEMMA EmptyInjective == Injective(<<>>)
BY DEF Injective

-----------------------------------------------------------------------------
LEMMA InitInv1 == Init => Inv1
<1>. SUFFICES ASSUME Init PROVE Inv1
  OBVIOUS
<1>. USE SizesAssumption, ValuesAssumption
<1>1. TypeOK
  <2>1. logblk \in [LogSlots -> Data]
    BY DEF Init
  <2>2. buf \in [Blocks -> Data \cup {NoBuf}] /\ refcnt \in [Blocks -> Nat]
    BY DEF Init
  <2>3. head \in Seq(Blocks) /\ Len(head) < NLOG /\ lh = head
    BY DEF Init
  <2>4. holder \in [Blocks -> Procs \cup {Nobody}] /\ wrote \in [Procs -> SUBSET Blocks]
    BY DEF Init
  <2>5. pc \in [Procs -> Pcs]
    BY DEF Init, Pcs
  <2>6. disk \in [Blocks -> Data] /\ committing \in BOOLEAN
    BY Zenon DEF Init
  <2>7. /\ outstanding \in Nat /\ tail \in Nat \ {0}
        /\ sys \in {"up", "panic", "read_head", "install", "erase"}
    BY DEF Init
  <2>. QED
    BY <2>1, <2>2, <2>3, <2>4, <2>5, <2>6, <2>7, Zenon DEF TypeOK
<1>2. Active = {}
  BY DEF Init, Active
<1>3. CountInv
  BY <1>2, FS_EmptySet DEF Init, CountInv
<1>4. CommitInv /\ TailInv /\ NoDup /\ HolderInv
  BY <1>2 DEF Init, CommitInv, TailInv, NoDup, Injective, HolderInv, CommitPcs,
              RecoverySys
<1>5. PinsBalanced
  BY DEF Init, PinsBalanced, Pinned, PinnedEntries
<1>. QED
  BY <1>1, <1>3, <1>4, <1>5 DEF Inv1

-----------------------------------------------------------------------------
(* One lemma per action: it preserves Inv1 *)

LEMMA ActiveFinite == IsFiniteSet(Active) /\ Active \subseteq Procs
BY ValuesAssumption, FS_Subset DEF Active

LEMMA BeginOpInv1 == ASSUME Inv1, NEW p \in Procs, BeginOp(p) PROVE Inv1'
<1>. USE SizesAssumption DEF Inv1
<1>1. TypeOK'
  BY DEF BeginOp, TypeOK, Pcs, diskVars, bufVars, logVars
<1>2. Active' = Active \cup {p} /\ p \notin Active
  BY DEF BeginOp, TypeOK, Active
<1>3. CountInv'
  BY <1>2, ActiveFinite, FS_AddElement DEF BeginOp, CountInv
<1>4. CommitInv' /\ TailInv' /\ NoDup' /\ HolderInv'
  BY <1>2 DEF BeginOp, TypeOK, CommitInv, TailInv, NoDup, Injective, HolderInv,
              CommitPcs, RecoverySys, diskVars, bufVars
<1>5. PinnedEntries' = PinnedEntries
  BY DEF BeginOp, TypeOK, PinnedEntries
<1>6. PinsBalanced'
  BY <1>5 DEF BeginOp, PinsBalanced, Pinned, bufVars
<1>. QED
  BY <1>1, <1>3, <1>4, <1>6

LEMMA BeginOpSleepInv1 ==
  ASSUME Inv1, NEW p \in Procs, BeginOpSleep(p) PROVE Inv1'
<1>. USE SizesAssumption DEF Inv1
<1>1. TypeOK'
  BY DEF BeginOpSleep, TypeOK, Pcs, diskVars, bufVars, logVars
<1>2. Active' = Active
  BY DEF BeginOpSleep, TypeOK, Active
<1>4. CountInv' /\ CommitInv' /\ TailInv' /\ NoDup' /\ HolderInv'
  BY <1>2 DEF BeginOpSleep, TypeOK, CountInv, CommitInv, TailInv, NoDup, Injective,
              HolderInv, CommitPcs, RecoverySys, diskVars, bufVars, logVars
<1>5. PinnedEntries' = PinnedEntries
  BY DEF BeginOpSleep, TypeOK, PinnedEntries, logVars
<1>6. PinsBalanced'
  BY <1>5 DEF BeginOpSleep, PinsBalanced, Pinned, bufVars, logVars
<1>. QED
  BY <1>1, <1>4, <1>6

LEMMA ModifyInv1 ==
  ASSUME Inv1, NEW p \in Procs, NEW b \in Blocks, NEW d \in Data, Modify(p, b, d)
  PROVE  Inv1'
<1>. USE SizesAssumption, ValuesAssumption DEF Inv1
<1>1. TypeOK'
  BY DEF Modify, TypeOK, Pcs, diskVars, bufVars, logVars
<1>2. Active' = Active
  BY DEF Modify, TypeOK, Active
<1>4. CountInv' /\ CommitInv' /\ TailInv' /\ NoDup'
  BY <1>2 DEF Modify, TypeOK, CountInv, CommitInv, TailInv, NoDup, Injective,
              CommitPcs, RecoverySys, diskVars, bufVars, logVars
<1>5. HolderInv'
  BY DEF Modify, TypeOK, HolderInv, RecoverySys
<1>6. PinnedEntries' = PinnedEntries /\ lh' = lh
  BY DEF Modify, TypeOK, PinnedEntries, logVars
<1>7. Pinned' = Pinned
  BY <1>6 DEF Pinned
<1>8. PinsBalanced'
  BY <1>7 DEF Modify, TypeOK, PinsBalanced
<1>. QED
  BY <1>1, <1>4, <1>5, <1>8

LEMMA PanicInv1 == ASSUME Inv1, sys = "up", Panic PROVE Inv1'
<1>. USE DEF Inv1
<1>1. PinnedEntries' = PinnedEntries
  BY DEF Panic, PinnedEntries, logVars
<1>2. Active' = Active
  BY DEF Panic, Active
<1>. QED
  BY <1>1, <1>2
     DEF Panic, TypeOK, CountInv, CommitInv, TailInv, NoDup, Injective, HolderInv,
         PinsBalanced, Pinned, RecoverySys, diskVars, bufVars, logVars

LEMMA LogWriteInv1 ==
  ASSUME Inv1, NEW p \in Procs, NEW b \in Blocks, LogWrite(p, b)
  PROVE  Inv1'
<1>. USE SizesAssumption, ValuesAssumption DEF Inv1
<1>1. CASE LogWritePanics
  <2>1. Panic
    BY <1>1 DEF LogWrite
  <2>. QED
    BY <2>1, PanicInv1 DEF LogWrite
<1>2. CASE ~LogWritePanics
  <2>0. /\ sys = "up" /\ pc[p] = "modify" /\ holder[b] = p
        /\ Absorbed(b) => lh' = lh /\ refcnt' = [refcnt EXCEPT ![b] = @ - 1]
        /\ ~Absorbed(b) => lh' = Append(lh, b) /\ refcnt' = refcnt
        /\ holder' = [holder EXCEPT ![b] = Nobody]
        /\ pc' = [pc EXCEPT ![p] = "inop"]
        /\ wrote' = [wrote EXCEPT ![p] = @ \cup {b}]
        /\ UNCHANGED <<disk, logblk, head, buf, outstanding, committing, tail, sys>>
    BY <1>2 DEF LogWrite, diskVars
  <2>a. lh \in Seq(Blocks) /\ Len(lh) \in Nat /\ DOMAIN lh = 1 .. Len(lh)
        /\ Len(lh) < NLOG
    BY DEF TypeOK
  <2>b. /\ Append(lh, b) \in Seq(Blocks) /\ Len(Append(lh, b)) = Len(lh) + 1
        /\ DOMAIN Append(lh, b) = 1 .. Len(lh) + 1
        /\ \A i \in 1 .. Len(lh) : Append(lh, b)[i] = lh[i]
        /\ Append(lh, b)[Len(lh) + 1] = b
    BY <2>a
  <2>1. Active' = Active
    BY <2>0 DEF TypeOK, Active
  <2>2. \A q \in Procs : pc[q] \notin CommitPcs
    BY <2>0 DEF Active, CommitInv
  <2>3. lh' \in Seq(Blocks) /\ Len(lh') < NLOG
    BY <1>2, <2>0, <2>a, <2>b DEF LogWritePanics
  <2>4. Injective(lh')
    <3>1. CASE Absorbed(b)
      BY <2>0, <3>1 DEF NoDup
    <3>2. CASE ~Absorbed(b)
      BY <2>0, <2>a, <2>b, <3>2 DEF Absorbed, NoDup, Injective
    <3>. QED
      BY <3>1, <3>2
  <2>5. refcnt[b] # 0
    <3>1. refcnt[b] = 1 + (IF b \in Pinned THEN 1 ELSE 0)
      BY <2>0 DEF PinsBalanced
    <3>. QED
      BY <3>1
  <2>6. TypeOK'
    <3>0. refcnt' \in [Blocks -> Nat]
      <4>1. refcnt \in [Blocks -> Nat] /\ refcnt[b] - 1 \in Nat
        BY <2>5 DEF TypeOK
      <4>2. refcnt' = refcnt \/ refcnt' = [refcnt EXCEPT ![b] = @ - 1]
        BY <2>0
      <4>. QED
        BY <4>1, <4>2
    <3>1. holder' \in [Blocks -> Procs \cup {Nobody}]
      BY <2>0 DEF TypeOK
    <3>2. pc' \in [Procs -> Pcs] /\ wrote' \in [Procs -> SUBSET Blocks]
      BY <2>0 DEF TypeOK, Pcs
    <3>. QED
      BY <2>0, <2>3, <3>0, <3>1, <3>2, Zenon DEF TypeOK
  <2>7. CountInv' /\ CommitInv' /\ TailInv' /\ NoDup'
    BY <2>0, <2>1, <2>2, <2>4
       DEF TypeOK, CountInv, CommitInv, TailInv, NoDup, Injective, CommitPcs, RecoverySys
  <2>8. HolderInv'
    <3>1. \A c \in Blocks : c # b => holder[c] # p
      BY <2>0 DEF HolderInv
    <3>. QED
      BY <2>0, <3>1 DEF TypeOK, HolderInv, RecoverySys
  <2>9. PinnedEntries = DOMAIN lh /\ PinnedEntries' = DOMAIN lh'
    BY <2>0, <2>2, Zenon DEF TypeOK, PinnedEntries, CommitPcs
  <2>10. PinsBalanced'
    <3>1. CASE Absorbed(b)
      <4>1. b \in Pinned /\ Pinned' = Pinned
        BY <2>0, <2>9, <3>1 DEF Pinned, Absorbed
      <4>. QED
        BY <2>0, <3>1, <4>1 DEF TypeOK, PinsBalanced
    <3>2. CASE ~Absorbed(b)
      <4>1. Pinned' = Pinned \cup {b}
        <5>1. lh' = Append(lh, b)
          BY <2>0, <3>2
        <5>2. PinnedEntries' = PinnedEntries \cup {Len(lh) + 1}
          BY <2>9, <2>a, <2>b, <5>1
        <5>. QED
          BY <2>9, <2>a, <2>b, <5>1, <5>2 DEF Pinned
      <4>2. b \notin Pinned
        BY <2>9, <3>2 DEF Pinned, Absorbed
      <4>. QED
        BY <2>0, <3>2, <4>1, <4>2 DEF TypeOK, PinsBalanced
    <3>. QED
      BY <3>1, <3>2
  <2>. QED
    BY <2>6, <2>7, <2>8, <2>10
<1>. QED
  BY <1>1, <1>2

LEMMA EndOpInv1 == ASSUME Inv1, NEW p \in Procs, EndOp(p) PROVE Inv1'
<1>. USE SizesAssumption, ValuesAssumption DEF Inv1
<1>1. p \in Active /\ ~committing
  BY DEF EndOp, Active, CommitInv
<1>2. outstanding \in Nat \ {0}
  BY <1>1, ActiveFinite, FS_EmptySet, FS_CardinalityType DEF CountInv
<1>3. Active' = Active \ {p}
  BY <1>1 DEF EndOp, Panic, TypeOK, Active, Woken
<1>4. CountInv'
  BY <1>1, <1>3, ActiveFinite, FS_RemoveElement, Zenon DEF EndOp, Panic, CountInv
<1>5. outstanding' = 0 => Active' = {}
  BY <1>3, <1>4, ActiveFinite, FS_Subset, FS_EmptySet, Zenon DEF CountInv
<1>6. \A q \in Procs : pc[q] \notin CommitPcs
  BY <1>1 DEF CommitInv
<1>7. TypeOK'
  <2>0. /\ outstanding' = outstanding - 1 /\ tail' = 1
        /\ committing' = TRUE \/ committing' = committing
        /\ UNCHANGED <<disk, logblk, head, buf, refcnt, holder, lh, wrote, sys>>
    BY <1>1 DEF EndOp, diskVars, bufVars
  <2>1. pc' \in [Procs -> Pcs]
    BY <1>1 DEF EndOp, Panic, Woken, TypeOK, Pcs, CommitPcs
  <2>. QED
    <3>1. outstanding' \in Nat /\ tail' \in Nat \ {0}
      BY <1>2, <2>0
    <3>2. committing' \in BOOLEAN
      BY <2>0, Zenon DEF TypeOK
    <3>. QED
      BY <2>0, <2>1, <3>1, <3>2, Zenon DEF TypeOK
<1>8. CommitInv' /\ TailInv' /\ NoDup'
  <2>1. \A q \in Procs : pc'[q] \in CommitPcs => q = p /\ outstanding' = 0
    BY <1>1, <1>6 DEF EndOp, Panic, Woken, TypeOK, CommitPcs
  <2>2. committing' <=> outstanding' = 0
    BY <1>1 DEF EndOp, Panic
  <2>3. CommitInv'
    BY <1>5, <2>1, <2>2 DEF EndOp, Panic, CommitInv, RecoverySys
  <2>4. pc'[p] # "write_head" /\ pc'[p] # "install"
        /\ (pc'[p] = "write_log" => lh # <<>>)
    BY <1>1 DEF EndOp, Panic, Woken, TypeOK
  <2>5. TailInv'
    BY <1>1, <2>1, <2>4 DEF EndOp, Panic, TypeOK, TailInv, CommitPcs
  <2>. QED
    BY <1>1, <2>3, <2>5 DEF EndOp, Panic, NoDup, Injective, diskVars
<1>9. HolderInv'
  BY <1>1 DEF EndOp, Panic, Woken, TypeOK, HolderInv, RecoverySys, bufVars
<1>10. PinnedEntries' = PinnedEntries
  <2>1. \A q \in Procs : pc'[q] # "install" /\ pc'[q] # "erase"
    BY <1>1, <1>6, Zenon DEF EndOp, Panic, Woken, TypeOK, CommitPcs
  <2>. QED
    BY <1>1, <1>6, <2>1 DEF EndOp, Panic, PinnedEntries, CommitPcs
<1>11. PinsBalanced'
  BY <1>1, <1>10 DEF EndOp, Panic, PinsBalanced, Pinned, bufVars
<1>. QED
  BY <1>4, <1>7, <1>8, <1>9, <1>11

\* The facts shared by the steps of commit().
LEMMA CommitterFacts ==
  ASSUME Inv1, NEW p \in Procs, pc[p] \in CommitPcs
  PROVE  /\ \A q \in Procs : q # p => pc[q] \notin CommitPcs
         /\ committing /\ Active = {}
         /\ \A b \in Blocks : holder[b] = Nobody
         /\ sys \notin RecoverySys
<1>. USE DEF Inv1
<1>1. (\A q \in Procs : q # p => pc[q] \notin CommitPcs) /\ committing /\ Active = {}
  BY DEF CommitInv
<1>2. \A b \in Blocks : holder[b] = Nobody
  <2>. SUFFICES ASSUME NEW b \in Blocks, holder[b] # Nobody PROVE FALSE
    OBVIOUS
  <2>1. holder[b] \in Procs /\ pc[holder[b]] = "modify"
    BY DEF TypeOK, HolderInv
  <2>. QED
    BY <1>1, <2>1 DEF Active
<1>3. sys \notin RecoverySys
  BY DEF CommitInv, CommitPcs
<1>. QED
  BY <1>1, <1>2, <1>3

LEMMA WriteLogInv1 == ASSUME Inv1, NEW p \in Procs, WriteLog(p) PROVE Inv1'
<1>. USE SizesAssumption, ValuesAssumption DEF Inv1
<1>0. /\ sys = "up" /\ pc[p] = "write_log"
      /\ logblk' = [logblk EXCEPT ![tail] = Contents(lh[tail])]
      /\ AtLastEntry => tail' = 1 /\ pc' = [pc EXCEPT ![p] = "write_head"]
      /\ ~AtLastEntry => tail' = tail + 1 /\ pc' = pc
      /\ UNCHANGED <<disk, head, buf, refcnt, holder, lh, outstanding, committing, wrote, sys>>
  BY DEF WriteLog, bufVars, logVars
<1>1. pc[p] \in CommitPcs
  BY <1>0 DEF CommitPcs
<1>2. /\ \A q \in Procs : q # p => pc[q] \notin CommitPcs
      /\ committing /\ Active = {}
  BY <1>1, CommitterFacts
<1>3. lh \in Seq(Blocks) /\ tail \in 1 .. Len(lh) /\ lh[tail] \in Blocks
  BY <1>0 DEF TailInv, TypeOK
<1>4. Contents(lh[tail]) \in Data
  BY <1>3 DEF Contents, TypeOK
<1>5. logblk' \in [LogSlots -> Data] /\ tail' \in Nat \ {0}
  <2>1. logblk' \in [LogSlots -> Data]
    BY <1>0, <1>4, Zenon DEF TypeOK
  <2>2. tail' \in Nat \ {0}
    BY <1>0, <1>3 DEF AtLastEntry
  <2>. QED
    BY <2>1, <2>2
<1>6. pc' \in [Procs -> Pcs]
  BY <1>0, Zenon DEF TypeOK, Pcs, CommitPcs
<1>7. TypeOK'
  BY <1>0, <1>5, <1>6, Zenon DEF TypeOK
<1>8. Active' = Active
  BY <1>0 DEF TypeOK, Active
<1>9. \A q \in Procs : pc'[q] \in CommitPcs => q = p
  BY <1>0, <1>2 DEF TypeOK
<1>10. CountInv' /\ CommitInv'
  BY <1>0, <1>2, <1>8, <1>9 DEF CountInv, CommitInv, RecoverySys
<1>11. TailInv'
  <2>1. pc'[p] # "install"
    BY <1>0 DEF TypeOK
  <2>2. pc'[p] = "write_log" => tail' <= Len(lh')
    BY <1>0, <1>3 DEF TypeOK, AtLastEntry
  <2>3. pc'[p] = "write_head" => tail' = 1 /\ lh' # <<>>
    BY <1>0, <1>3 DEF TypeOK
  <2>. QED
    BY <1>0, <1>9, <2>1, <2>2, <2>3 DEF TailInv, CommitPcs
<1>12. NoDup' /\ HolderInv'
  <2>1. \A q \in Procs : pc[q] = "modify" => pc'[q] = "modify"
    BY <1>0 DEF TypeOK
  <2>. QED
    BY <1>0, <2>1 DEF TypeOK, NoDup, Injective, HolderInv
<1>13. PinnedEntries' = PinnedEntries
  <2>1. \A q \in Procs : /\ pc[q] # "install" /\ pc[q] # "erase"
                         /\ pc'[q] # "install" /\ pc'[q] # "erase"
    BY <1>0, <1>2 DEF TypeOK, CommitPcs
  <2>. QED
    BY <1>0, <2>1 DEF PinnedEntries
<1>14. PinsBalanced'
  BY <1>0, <1>13 DEF PinsBalanced, Pinned
<1>. QED
  BY <1>7, <1>10, <1>11, <1>12, <1>14

LEMMA WriteHeadInv1 == ASSUME Inv1, NEW p \in Procs, WriteHead(p) PROVE Inv1'
<1>. USE SizesAssumption, ValuesAssumption DEF Inv1
<1>0. /\ sys = "up" /\ pc[p] = "write_head" /\ head' = lh
      /\ pc' = [pc EXCEPT ![p] = "install"]
      /\ UNCHANGED <<disk, logblk, buf, refcnt, holder, lh, outstanding, committing,
                     tail, wrote, sys>>
  BY DEF WriteHead, bufVars, logVars
<1>1. pc[p] \in CommitPcs
  BY <1>0 DEF CommitPcs
<1>2. /\ \A q \in Procs : q # p => pc[q] \notin CommitPcs
      /\ committing /\ Active = {}
  BY <1>1, CommitterFacts
<1>3. pc' \in [Procs -> Pcs]
  BY <1>0 DEF TypeOK, Pcs, CommitPcs
<1>4. TypeOK'
  BY <1>0, <1>3, Zenon DEF TypeOK
<1>5. Active' = Active
  BY <1>0 DEF TypeOK, Active
<1>6. \A q \in Procs : pc'[q] \in CommitPcs => q = p
  BY <1>0, <1>2 DEF TypeOK
<1>7. CountInv' /\ CommitInv'
  BY <1>0, <1>2, <1>5, <1>6 DEF CountInv, CommitInv, RecoverySys
<1>8. tail = 1 /\ Len(lh) >= 1
  BY <1>0 DEF TailInv, TypeOK
<1>9. TailInv'
  <2>1. pc'[p] = "install"
    BY <1>0 DEF TypeOK
  <2>. QED
    BY <1>0, <1>6, <1>8, <2>1 DEF TailInv, CommitPcs
<1>10. NoDup' /\ HolderInv'
  <2>1. \A q \in Procs : pc[q] = "modify" => pc'[q] = "modify"
    BY <1>0 DEF TypeOK
  <2>. QED
    BY <1>0, <2>1 DEF TypeOK, NoDup, Injective, HolderInv
<1>11. PinnedEntries' = PinnedEntries
  <2>1. \A q \in Procs : /\ pc[q] # "install" /\ pc[q] # "erase" /\ pc'[q] # "erase"
    BY <1>0, <1>2 DEF TypeOK, CommitPcs
  <2>2. \A i \in DOMAIN lh : i >= tail
    BY <1>8 DEF TypeOK
  <2>. QED
    BY <1>0, <2>1, <2>2 DEF PinnedEntries
<1>12. PinsBalanced'
  BY <1>0, <1>11 DEF PinsBalanced, Pinned
<1>. QED
  BY <1>4, <1>7, <1>9, <1>10, <1>12

LEMMA InstallInv1 == ASSUME Inv1, NEW p \in Procs, Install(p) PROVE Inv1'
<1>. USE SizesAssumption, ValuesAssumption DEF Inv1
<1>. DEFINE b == lh[tail]
<1>0. /\ sys = "up" /\ pc[p] = "install"
      /\ disk' = [disk EXCEPT ![b] = logblk[tail]]
      /\ buf' = [buf EXCEPT ![b] = logblk[tail]]
      /\ refcnt' = [refcnt EXCEPT ![b] = @ - 1]
      /\ tail' = IF AtLastEntry THEN 1 ELSE tail + 1
      /\ pc' = IF AtLastEntry THEN [pc EXCEPT ![p] = "erase"] ELSE pc
      /\ UNCHANGED <<logblk, head, holder, lh, outstanding, committing, wrote, sys>>
  BY DEF Install, InstallBlock, logVars
<1>1. pc[p] \in CommitPcs
  BY <1>0 DEF CommitPcs
<1>2. /\ \A q \in Procs : q # p => pc[q] \notin CommitPcs
      /\ committing /\ Active = {} /\ \A c \in Blocks : holder[c] = Nobody
  BY <1>1, CommitterFacts
<1>3. lh \in Seq(Blocks) /\ Len(lh) < NLOG /\ tail \in 1 .. Len(lh) /\ b \in Blocks
  BY <1>0 DEF TailInv, TypeOK
<1>4. logblk[tail] \in Data
  BY <1>3 DEF TypeOK, LogSlots
<1>5. \A i \in DOMAIN lh : i \in PinnedEntries <=> i >= tail
  BY <1>0, <1>2, <1>3 DEF PinnedEntries, CommitPcs
<1>6. b \in Pinned
  <2>1. tail \in PinnedEntries
    BY <1>3, <1>5
  <2>. QED
    BY <2>1 DEF Pinned
<1>7. refcnt[b] = 1
  BY <1>2, <1>3, <1>6 DEF PinsBalanced
<1>8. TypeOK'
  <2>1. disk' \in [Blocks -> Data] /\ buf' \in [Blocks -> Data \cup {NoBuf}]
    BY <1>0, <1>4, Zenon DEF TypeOK
  <2>2. refcnt' \in [Blocks -> Nat]
    BY <1>0, <1>3, <1>7 DEF TypeOK
  <2>3. tail' \in Nat \ {0}
    BY <1>0, <1>3 DEF AtLastEntry
  <2>4. pc' \in [Procs -> Pcs]
    BY <1>0 DEF TypeOK, Pcs, CommitPcs
  <2>. QED
    BY <1>0, <2>1, <2>2, <2>3, <2>4, Zenon DEF TypeOK
<1>9. Active' = Active
  BY <1>0 DEF TypeOK, Active
<1>10. \A q \in Procs : pc'[q] \in CommitPcs => q = p
  BY <1>0, <1>2 DEF TypeOK
<1>11. CountInv' /\ CommitInv'
  BY <1>0, <1>2, <1>9, <1>10 DEF CountInv, CommitInv, RecoverySys
<1>12. TailInv'
  <2>1. pc'[p] # "write_log" /\ pc'[p] # "write_head"
    BY <1>0 DEF TypeOK
  <2>2. pc'[p] = "install" => tail' <= Len(lh')
    BY <1>0, <1>3 DEF TypeOK, AtLastEntry
  <2>. QED
    BY <1>0, <1>10, <2>1, <2>2 DEF TailInv, CommitPcs
<1>13. NoDup' /\ HolderInv'
  BY <1>0, <1>2 DEF NoDup, Injective, HolderInv
<1>14. Pinned' = Pinned \ {b}
  <2>1. \A q \in Procs : q # p => /\ pc[q] # "install" /\ pc[q] # "erase"
                                  /\ pc'[q] # "install" /\ pc'[q] # "erase"
    BY <1>0, <1>2 DEF TypeOK, CommitPcs
  <2>2. \A i \in DOMAIN lh : i \in PinnedEntries' <=> i > tail
    <3>1. CASE AtLastEntry
      <4>1. pc'[p] = "erase"
        BY <1>0, <3>1 DEF TypeOK
      <4>2. \A i \in DOMAIN lh : ~(i > tail)
        BY <1>3, <3>1 DEF AtLastEntry
      <4>. QED
        BY <4>1, <4>2 DEF PinnedEntries
    <3>2. CASE ~AtLastEntry
      <4>1. pc'[p] = "install" /\ tail' = tail + 1
        BY <1>0, <3>2 DEF TypeOK
      <4>2. \A i \in DOMAIN lh : i > tail <=> i >= tail'
        BY <1>3, <4>1
      <4>. QED
        BY <1>0, <2>1, <4>1, <4>2 DEF PinnedEntries
    <3>. QED
      BY <3>1, <3>2
  <2>3. PinnedEntries' = PinnedEntries \ {tail}
    BY <1>0, <1>3, <1>5, <2>2 DEF PinnedEntries
  <2>. QED
    BY <1>0, <1>3, <2>3 DEF Pinned, PinnedEntries, NoDup, Injective
<1>15. PinsBalanced'
  BY <1>0, <1>3, <1>6, <1>7, <1>14 DEF TypeOK, PinsBalanced
<1>. QED
  BY <1>8, <1>11, <1>12, <1>13, <1>15

LEMMA EraseInv1 == ASSUME Inv1, NEW p \in Procs, Erase(p) PROVE Inv1'
<1>. USE SizesAssumption, ValuesAssumption DEF Inv1
<1>0. /\ sys = "up" /\ pc[p] = "erase" /\ lh' = <<>> /\ head' = <<>>
      /\ pc' = [pc EXCEPT ![p] = "finish"]
      /\ UNCHANGED <<disk, logblk, buf, refcnt, holder, outstanding, committing,
                     tail, wrote, sys>>
  BY DEF Erase, bufVars
<1>1. pc[p] \in CommitPcs
  BY <1>0 DEF CommitPcs
<1>2. /\ \A q \in Procs : q # p => pc[q] \notin CommitPcs
      /\ committing /\ Active = {} /\ \A c \in Blocks : holder[c] = Nobody
  BY <1>1, CommitterFacts
<1>3. TypeOK'
  <2>1. pc' \in [Procs -> Pcs]
    BY <1>0 DEF TypeOK, Pcs, CommitPcs
  <2>2. lh' \in Seq(Blocks) /\ Len(lh') < NLOG
    BY <1>0
  <2>. QED
    BY <1>0, <2>1, <2>2, Zenon DEF TypeOK
<1>4. Active' = Active
  BY <1>0 DEF TypeOK, Active
<1>5. \A q \in Procs : pc'[q] \in CommitPcs => q = p /\ pc'[q] = "finish"
  BY <1>0, <1>2 DEF TypeOK
<1>6. CountInv' /\ CommitInv' /\ TailInv'
  BY <1>0, <1>2, <1>4, <1>5 DEF CountInv, CommitInv, TailInv, CommitPcs, RecoverySys
<1>7. NoDup' /\ HolderInv'
  <2>1. NoDup'
    BY <1>0, EmptyInjective DEF NoDup
  <2>2. HolderInv'
    BY <1>0, <1>2 DEF HolderInv, RecoverySys
  <2>. QED
    BY <2>1, <2>2
<1>8. Pinned = {} /\ Pinned' = {}
  <2>1. PinnedEntries = {} /\ PinnedEntries' = {}
    BY <1>0 DEF PinnedEntries
  <2>. QED
    BY <2>1 DEF Pinned
<1>9. PinsBalanced'
  BY <1>0, <1>8 DEF PinsBalanced
<1>. QED
  BY <1>3, <1>6, <1>7, <1>9

LEMMA FinishInv1 == ASSUME Inv1, NEW p \in Procs, Finish(p) PROVE Inv1'
<1>. USE SizesAssumption, ValuesAssumption DEF Inv1
<1>0. /\ sys = "up" /\ pc[p] = "finish" /\ committing' = FALSE
      /\ pc' = Woken([pc EXCEPT ![p] = "idle"])
      /\ UNCHANGED <<disk, logblk, head, buf, refcnt, holder, lh, outstanding,
                     tail, wrote, sys>>
  BY DEF Finish, diskVars, bufVars
<1>1. pc[p] \in CommitPcs
  BY <1>0 DEF CommitPcs
<1>2. /\ \A q \in Procs : q # p => pc[q] \notin CommitPcs
      /\ committing /\ Active = {} /\ \A c \in Blocks : holder[c] = Nobody
  BY <1>1, CommitterFacts
<1>3. pc' \in [Procs -> Pcs] /\ \A q \in Procs : pc'[q] \notin CommitPcs
  BY <1>0, <1>2 DEF TypeOK, Woken, Pcs, CommitPcs
<1>4. TypeOK'
  BY <1>0, <1>3, Zenon DEF TypeOK
<1>5. Active' = Active
  BY <1>0 DEF TypeOK, Active, Woken
<1>6. CountInv' /\ CommitInv' /\ TailInv'
  BY <1>0, <1>2, <1>3, <1>5, Zenon DEF CountInv, CommitInv, TailInv, CommitPcs, RecoverySys
<1>7. NoDup' /\ HolderInv'
  BY <1>0, <1>2 DEF NoDup, Injective, HolderInv
<1>8. PinnedEntries' = PinnedEntries
  <2>1. \A q \in Procs : pc[q] # "install" /\ pc[q] # "erase"
    BY <1>0, <1>2 DEF CommitPcs
  <2>2. \A q \in Procs : pc'[q] # "install" /\ pc'[q] # "erase"
    BY <1>3 DEF CommitPcs
  <2>. QED
    BY <1>0, <2>1, <2>2, Zenon DEF PinnedEntries
<1>9. PinsBalanced'
  BY <1>0, <1>8 DEF PinsBalanced, Pinned
<1>. QED
  BY <1>4, <1>6, <1>7, <1>9

LEMMA CacheInv1 ==
  ASSUME Inv1, NEW b \in Blocks, Bread(b) \/ Recycle(b) PROVE Inv1'
<1>. USE SizesAssumption, ValuesAssumption DEF Inv1
<1>0. /\ buf' \in [Blocks -> Data \cup {NoBuf}]
      /\ UNCHANGED <<disk, logblk, head, refcnt, holder, lh, outstanding, committing,
                     tail, pc, wrote, sys>>
  BY Zenon DEF Bread, Recycle, TypeOK, diskVars, logVars
<1>1. TypeOK'
  BY <1>0, Zenon DEF TypeOK
<1>2. Active' = Active /\ PinnedEntries' = PinnedEntries
  BY <1>0 DEF Active, PinnedEntries
<1>. QED
  BY <1>0, <1>1, <1>2 DEF CountInv, CommitInv, TailInv, NoDup, Injective, HolderInv,
                          PinsBalanced, Pinned

LEMMA CrashInv1 == ASSUME Inv1, Crash PROVE Inv1'
<1>. USE SizesAssumption, ValuesAssumption DEF Inv1
<1>1. TypeOK'
  <2>1. buf' \in [Blocks -> Data \cup {NoBuf}] /\ refcnt' \in [Blocks -> Nat]
    BY DEF Crash
  <2>2. holder' \in [Blocks -> Procs \cup {Nobody}] /\ wrote' \in [Procs -> SUBSET Blocks]
    BY DEF Crash
  <2>3. lh' \in Seq(Blocks) /\ Len(lh') < NLOG
    BY DEF Crash
  <2>a. committing' \in BOOLEAN
    BY Zenon DEF Crash
  <2>4. pc' \in [Procs -> Pcs]
    BY DEF Crash, Pcs
  <2>5. /\ outstanding' \in Nat /\ tail' \in Nat \ {0}
        /\ sys' \in {"up", "panic", "read_head", "install", "erase"}
    BY DEF Crash
  <2>6. disk' = disk /\ logblk' = logblk /\ head' = head
    BY DEF Crash, diskVars
  <2>. QED
    BY <2>1, <2>2, <2>3, <2>a, <2>4, <2>5, <2>6, Zenon DEF TypeOK
<1>2. Active' = {}
  BY DEF Crash, Active
<1>3. CountInv'
  BY <1>2, FS_EmptySet DEF Crash, CountInv
<1>4. CommitInv' /\ TailInv' /\ NoDup' /\ HolderInv'
  BY <1>2 DEF Crash, CommitInv, TailInv, NoDup, Injective, HolderInv, CommitPcs,
              RecoverySys, diskVars
<1>5. Pinned' = {}
  BY DEF Crash, Pinned, PinnedEntries
<1>6. PinsBalanced'
  BY <1>5 DEF Crash, PinsBalanced
<1>. QED
  BY <1>1, <1>3, <1>4, <1>6

LEMMA RecoverInv1 == ASSUME Inv1, Recover PROVE Inv1'
<1>. USE SizesAssumption, ValuesAssumption DEF Inv1
<1>0. /\ sys \in RecoverySys
      /\ UNCHANGED <<logblk, holder, outstanding, committing, pc, wrote>>
  BY DEF Recover, ReadHead, RecoverInstall, RecoverErase, RecoverySys,
         diskVars, bufVars, logVars
<1>1. ~committing /\ \A q \in Procs : pc[q] = "idle"
  BY <1>0 DEF CommitInv
<1>2. \A c \in Blocks : holder[c] = Nobody
  BY <1>0 DEF HolderInv
<1>3. Active' = Active
  BY <1>0 DEF Active
<1>4. Pinned = {}
  BY <1>0 DEF Pinned, PinnedEntries, RecoverySys
<1>5. CASE ReadHead
  <2>1. /\ lh' = head /\ tail' = 1
        /\ sys' = IF head = <<>> THEN "erase" ELSE "install"
        /\ UNCHANGED <<disk, head, buf, refcnt>>
    BY <1>5 DEF ReadHead, diskVars, bufVars
  <2>2. sys' \in {"install", "erase"} /\ tail' \in Nat \ {0}
    BY <2>1
  <2>3. TypeOK'
    BY <1>0, <2>1, <2>2, Zenon DEF TypeOK
  <2>4. CountInv' /\ CommitInv' /\ NoDup' /\ HolderInv'
    BY <1>0, <1>1, <1>2, <1>3, <2>1 DEF CountInv, CommitInv, NoDup, Injective,
                                         HolderInv, CommitPcs
  <2>5. sys' = "install" => tail' <= Len(lh')
    BY <2>1 DEF TypeOK
  <2>6. TailInv'
    BY <1>0, <1>1, <2>5 DEF TailInv
  <2>7. Pinned' = {}
    BY <2>2 DEF Pinned, PinnedEntries
  <2>8. PinsBalanced'
    BY <1>0, <1>4, <2>1, <2>7 DEF PinsBalanced
  <2>. QED
    BY <2>3, <2>4, <2>6, <2>8
<1>6. CASE RecoverInstall
  <2>. DEFINE b == lh[tail]
  <2>1. /\ sys = "install"
        /\ disk' = [disk EXCEPT ![b] = logblk[tail]]
        /\ buf' = [buf EXCEPT ![b] = logblk[tail]]
        /\ refcnt' = [refcnt EXCEPT ![b] = @ - 0]
        /\ tail' = IF AtLastEntry THEN 1 ELSE tail + 1
        /\ sys' = IF AtLastEntry THEN "erase" ELSE sys
        /\ UNCHANGED <<head, lh>>
    BY <1>6 DEF RecoverInstall, InstallBlock, logVars
  <2>2. lh \in Seq(Blocks) /\ Len(lh) < NLOG /\ tail \in 1 .. Len(lh) /\ b \in Blocks
    BY <2>1 DEF TailInv, TypeOK
  <2>3. logblk[tail] \in Data
    BY <2>2 DEF TypeOK, LogSlots
  <2>4. refcnt' = refcnt
    BY <2>1, <2>2 DEF TypeOK
  <2>5. TypeOK'
    <3>1. disk' \in [Blocks -> Data] /\ buf' \in [Blocks -> Data \cup {NoBuf}]
      BY <2>1, <2>3, Zenon DEF TypeOK
    <3>2. tail' \in Nat \ {0}
      BY <2>1, <2>2 DEF AtLastEntry
    <3>3. sys' \in {"up", "panic", "read_head", "install", "erase"}
      BY <2>1
    <3>. QED
      BY <1>0, <2>1, <2>4, <3>1, <3>2, <3>3, Zenon DEF TypeOK
  <2>6. CountInv' /\ CommitInv' /\ NoDup' /\ HolderInv'
    BY <1>0, <1>1, <1>2, <1>3, <2>1 DEF CountInv, CommitInv, NoDup, Injective,
                                         HolderInv, CommitPcs
  <2>7. sys' = "install" => tail' <= Len(lh')
    BY <2>1, <2>2 DEF AtLastEntry
  <2>8. TailInv'
    BY <1>0, <1>1, <2>7 DEF TailInv
  <2>9. Pinned' = {}
    BY <2>1 DEF Pinned, PinnedEntries
  <2>10. PinsBalanced'
    BY <1>0, <1>4, <2>4, <2>9 DEF PinsBalanced
  <2>. QED
    BY <2>5, <2>6, <2>8, <2>10
<1>7. CASE RecoverErase
  <2>1. lh' = <<>> /\ head' = <<>> /\ sys' = "up" /\ UNCHANGED <<disk, buf, refcnt, tail>>
    BY <1>7 DEF RecoverErase, bufVars
  <2>2. lh' \in Seq(Blocks) /\ Len(lh') < NLOG
    BY <2>1
  <2>3. TypeOK'
    BY <1>0, <2>1, <2>2, Zenon DEF TypeOK
  <2>4. CountInv' /\ CommitInv' /\ NoDup' /\ HolderInv' /\ TailInv'
    <3>1. NoDup'
      BY <2>1, EmptyInjective DEF NoDup
    <3>2. CountInv' /\ CommitInv' /\ HolderInv' /\ TailInv'
      BY <1>0, <1>1, <1>2, <1>3, <2>1 DEF CountInv, CommitInv, HolderInv, CommitPcs, TailInv, RecoverySys
    <3>. QED
      BY <3>1, <3>2
  <2>5. Pinned' = {}
    BY <2>1 DEF Pinned, PinnedEntries
  <2>6. PinsBalanced'
    BY <1>0, <1>4, <2>1, <2>5 DEF PinsBalanced
  <2>. QED
    BY <2>3, <2>4, <2>6
<1>. QED
  BY <1>5, <1>6, <1>7 DEF Recover

LEMMA StutterInv1 == ASSUME Inv1, UNCHANGED vars PROVE Inv1'
<1>1. Active' = Active /\ PinnedEntries' = PinnedEntries
  BY DEF vars, Active, PinnedEntries
<1>2. TypeOK'
  BY Zenon DEF Inv1, TypeOK, vars
<1>. QED
  BY <1>1, <1>2 DEF Inv1, vars, CountInv, CommitInv, TailInv, NoDup, Injective,
                    HolderInv, PinsBalanced, Pinned

LEMMA NextInv1 == Inv1 /\ [Next]_vars => Inv1'
<1>. SUFFICES ASSUME Inv1, [Next]_vars PROVE Inv1'
  OBVIOUS
<1>1. ASSUME NEW p \in Procs, Commit(p) PROVE Inv1'
  BY <1>1, WriteLogInv1, WriteHeadInv1, InstallInv1, EraseInv1, FinishInv1 DEF Commit
<1>. QED
  BY <1>1, BeginOpInv1, BeginOpSleepInv1, ModifyInv1, LogWriteInv1, EndOpInv1,
     CacheInv1, CrashInv1, RecoverInv1, StutterInv1 DEF Next

LEMMA AlwaysInv1 == Spec => []Inv1
BY InitInv1, NextInv1, PTL DEF Spec

\* Every reachable state has the shape TypeOK gives it; in particular neither
\* header outgrows the log on the disk.
THEOREM TypeCorrect == Spec => []TypeOK
BY AlwaysInv1, PTL DEF Inv1

\* Buffer reference counts always balance: no pin is lost, so no logged buffer
\* is recycled early, and none is left over after a commit.
THEOREM PinsCorrect == Spec => []PinsBalanced
BY AlwaysInv1, PTL DEF Inv1

-----------------------------------------------------------------------------
(* Sleepers *)

LEMMA NextNoMissedWakeup ==
  Inv1 /\ NoMissedWakeup /\ [Next]_vars => NoMissedWakeup'
<1>. SUFFICES ASSUME Inv1, NoMissedWakeup, [Next]_vars PROVE NoMissedWakeup'
  OBVIOUS
<1>. USE SizesAssumption DEF Inv1
<1>1. ASSUME NEW p \in Procs, BeginOp(p) PROVE NoMissedWakeup'
  BY <1>1 DEF BeginOp, TypeOK, NoMissedWakeup
<1>2. ASSUME NEW p \in Procs, BeginOpSleep(p) PROVE NoMissedWakeup'
  BY <1>2 DEF BeginOpSleep, TypeOK, NoMissedWakeup, HasRoom, logVars
<1>3. ASSUME NEW p \in Procs, NEW b \in Blocks, NEW d \in Data, Modify(p, b, d)
      PROVE  NoMissedWakeup'
  BY <1>3 DEF Modify, TypeOK, NoMissedWakeup, HasRoom, logVars
<1>4. ASSUME NEW p \in Procs, NEW b \in Blocks, LogWrite(p, b) PROVE NoMissedWakeup'
  <2>1. CASE LogWritePanics
    BY <1>4, <2>1 DEF LogWrite, Panic, NoMissedWakeup, HasRoom, logVars
  <2>2. CASE ~LogWritePanics
    <3>1. /\ pc' = [pc EXCEPT ![p] = "inop"]
          /\ lh' = lh \/ lh' = Append(lh, b)
          /\ UNCHANGED <<outstanding, committing>>
      BY <1>4, <2>2 DEF LogWrite
    <3>2. Len(lh') >= Len(lh) /\ Len(lh) \in Nat /\ Len(lh') \in Nat
      BY <3>1 DEF TypeOK
    <3>3. HasRoom' => HasRoom
      <4>. DEFINE r == (outstanding + 1) * MAXOPBLOCKS
      <4>1. r \in Nat
        BY DEF TypeOK
      <4>2. HasRoom' <=> Len(lh') + r <= LOGSIZE
        BY <3>1 DEF HasRoom
      <4>3. HasRoom <=> Len(lh) + r <= LOGSIZE
        BY DEF HasRoom
      <4>. HIDE DEF r
      <4>. QED
        BY <3>2, <4>1, <4>2, <4>3
    <3>4. pc' = [pc EXCEPT ![p] = "inop"]
      BY <1>4, <2>2 DEF LogWrite
    <3>. QED
      BY <3>1, <3>3, <3>4 DEF TypeOK, NoMissedWakeup
  <2>. QED
    BY <2>1, <2>2
<1>5. ASSUME NEW p \in Procs, EndOp(p) PROVE NoMissedWakeup'
  <2>1. ~committing
    BY <1>5 DEF EndOp, Active, CommitInv
  <2>2. CASE outstanding' = 0
    BY <1>5, <2>1, <2>2 DEF EndOp, NoMissedWakeup
  <2>3. CASE outstanding' # 0
    <3>1. pc' = Woken([pc EXCEPT ![p] = "idle"])
      BY <1>5, <2>1, <2>3 DEF EndOp
    <3>. QED
      BY <3>1 DEF Woken, TypeOK, NoMissedWakeup
  <2>. QED
    BY <2>2, <2>3
<1>6. ASSUME NEW p \in Procs, WriteLog(p) \/ WriteHead(p) \/ Install(p) \/ Erase(p)
      PROVE  NoMissedWakeup'
  <2>1. pc[p] \in CommitPcs /\ committing' = committing
    BY <1>6 DEF WriteLog, WriteHead, Install, Erase, CommitPcs, logVars
  <2>. QED
    BY <2>1 DEF CommitInv, NoMissedWakeup
<1>7. ASSUME NEW p \in Procs, Finish(p) PROVE NoMissedWakeup'
  BY <1>7 DEF Finish, Woken, TypeOK, NoMissedWakeup
<1>8. ASSUME NEW b \in Blocks, Bread(b) \/ Recycle(b) PROVE NoMissedWakeup'
  <2>1. UNCHANGED <<sys, lh, outstanding, committing, pc>>
    BY <1>8 DEF Bread, Recycle, logVars
  <2>. QED
    BY <2>1 DEF NoMissedWakeup, HasRoom
<1>9. CASE Crash
  BY <1>9 DEF Crash, NoMissedWakeup
<1>10. CASE Recover
  <2>1. sys \in RecoverySys /\ pc' = pc
    BY <1>10 DEF Recover, ReadHead, RecoverInstall, RecoverErase, RecoverySys
  <2>. QED
    BY <2>1 DEF CommitInv, NoMissedWakeup
<1>11. CASE UNCHANGED vars
  BY <1>11 DEF vars, NoMissedWakeup, HasRoom
<1>. QED
  BY <1>1, <1>2, <1>3, <1>4, <1>5, <1>6, <1>7, <1>8, <1>9, <1>10, <1>11 DEF Next, Commit

\* A process sleeps in begin_op() only while a commit runs or the log really
\* has no room for it, whatever the number of processes and the log size.
THEOREM NoSleeperForgotten == Spec => []NoMissedWakeup
<1>1. Init => NoMissedWakeup
  BY DEF Init, NoMissedWakeup
<1>. QED
  BY <1>1, AlwaysInv1, NextNoMissedWakeup, PTL DEF Spec

=============================================================================
