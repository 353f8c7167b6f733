--------------------------- MODULE LogSpaceProofs ---------------------------
(***************************************************************************)
(* Proof that log_write() never runs out of log space.  Each operation in  *)
(* progress still holds a reservation of MAXOPBLOCKS minus the blocks it   *)
(* has logged; together with the entries already in the header the         *)
(* reservations fit in LOGSIZE.                                            *)
(***************************************************************************)
EXTENDS LogProofs

Reserved == {r \in Active \X (1 .. MAXOPBLOCKS) : r[2] > Cardinality(wrote[r[1]])}

SpaceInv ==
  sys \in {"up", "panic"} => Len(lh) + Cardinality(Reserved) <= LOGSIZE

\* An operation keeps to its budget, and what it has logged is in the header.
BudgetInv ==
  /\ \A p \in Active : /\ wrote[p] \subseteq Entries(lh)
                       /\ Cardinality(wrote[p]) <= OpBlocks
  /\ \A b \in Blocks : holder[b] # Nobody =>
       Cardinality(wrote[holder[b]] \cup {b}) <= OpBlocks

Inv2 == Inv1 /\ SpaceInv /\ BudgetInv /\ NoPanic

LEMMA ReservedFinite ==
  IsFiniteSet(Reserved) /\ Cardinality(Reserved) \in Nat
<1>1. IsFiniteSet(Active \X (1 .. MAXOPBLOCKS))
  <2>1. IsFiniteSet(1 .. MAXOPBLOCKS)
    BY FS_Interval, SizesAssumption
  <2>. QED
    BY <2>1, ActiveFinite, FS_Product, Zenon
<1>. QED
  BY <1>1, FS_Subset, FS_CardinalityType DEF Reserved

\* The reservations never exceed MAXOPBLOCKS for each operation.
LEMMA ReservedBound == Cardinality(Reserved) <= Cardinality(Active) * MAXOPBLOCKS
<1>1. /\ IsFiniteSet(1 .. MAXOPBLOCKS) /\ Cardinality(1 .. MAXOPBLOCKS) = MAXOPBLOCKS
  BY FS_Interval, SizesAssumption
<1>2. /\ IsFiniteSet(Active \X (1 .. MAXOPBLOCKS))
      /\ Cardinality(Active \X (1 .. MAXOPBLOCKS)) = Cardinality(Active) * MAXOPBLOCKS
  BY <1>1, ActiveFinite, FS_Product, Zenon
<1>3. Reserved \in SUBSET (Active \X (1 .. MAXOPBLOCKS))
  BY DEF Reserved
<1>. QED
  BY <1>2, <1>3, FS_Subset

\* What one operation still holds reserved.
LEMMA OwnReservation ==
  ASSUME NEW p \in Active, Cardinality(wrote[p]) \in Nat,
         Cardinality(wrote[p]) <= OpBlocks, OpBlocks < MAXOPBLOCKS
  PROVE  Cardinality(Reserved) >= MAXOPBLOCKS - OpBlocks
<1>. DEFINE n == Cardinality(wrote[p])
            own == {p} \X ((n + 1) .. MAXOPBLOCKS)
<1>. USE SizesAssumption
<1>0. n \in Nat /\ n < MAXOPBLOCKS /\ n <= OpBlocks
  OBVIOUS
<1>. HIDE DEF n
<1>1. /\ IsFiniteSet((n + 1) .. MAXOPBLOCKS)
      /\ Cardinality((n + 1) .. MAXOPBLOCKS) = MAXOPBLOCKS - n
  <2>1. n + 1 \in Int /\ MAXOPBLOCKS \in Int /\ ~(n + 1 > MAXOPBLOCKS)
    BY <1>0
  <2>2. /\ IsFiniteSet((n + 1) .. MAXOPBLOCKS)
        /\ Cardinality((n + 1) .. MAXOPBLOCKS) =
             IF n + 1 > MAXOPBLOCKS THEN 0 ELSE MAXOPBLOCKS - (n + 1) + 1
    BY <2>1, FS_Interval, Zenon
  <2>. QED
    BY <1>0, <2>2
<1>2. IsFiniteSet({p}) /\ Cardinality({p}) = 1
  BY FS_Singleton, Zenon
<1>3. Cardinality(own) = 1 * (MAXOPBLOCKS - n)
  <2>1. Cardinality(own) = Cardinality({p}) * Cardinality((n + 1) .. MAXOPBLOCKS)
    BY <1>1, <1>2, FS_Product, Zenon
  <2>. QED
    BY <1>1, <1>2, <2>1
<1>4. own \in SUBSET Reserved
  BY <1>0 DEF Reserved, n
<1>5. Cardinality(own) <= Cardinality(Reserved)
  BY <1>4, ReservedFinite, FS_Subset
<1>. HIDE DEF own
<1>. QED
  BY <1>0, <1>3, <1>5, ReservedFinite

\* The heart of the matter: log_write() cannot panic.
LEMMA LogWriteSafe ==
  ASSUME BudgetFits, Inv2, NEW p \in Procs, NEW b \in Blocks, LogWrite(p, b)
  PROVE  ~LogWritePanics
<1>. USE SizesAssumption, ValuesAssumption DEF Inv2, Inv1
<1>1. p \in Active /\ sys = "up"
  BY DEF LogWrite, Active
<1>2. Cardinality(wrote[p]) <= OpBlocks /\ Cardinality(wrote[p]) \in Nat
  <2>1. IsFiniteSet(wrote[p])
    BY FS_Subset DEF TypeOK
  <2>. QED
    BY <1>1, <2>1, FS_CardinalityType DEF BudgetInv
<1>3. Cardinality(Reserved) >= MAXOPBLOCKS - OpBlocks
  BY <1>1, <1>2, OwnReservation DEF BudgetFits
<1>4. Len(lh) + Cardinality(Reserved) <= LOGSIZE
  BY <1>1 DEF SpaceInv
<1>5. outstanding >= 1
  BY <1>1, ActiveFinite, FS_EmptySet, FS_CardinalityType DEF CountInv
<1>6. Len(lh) \in Nat
  BY DEF TypeOK
<1>7. Len(lh) <= LOGSIZE - MAXOPBLOCKS + OpBlocks
  BY <1>3, <1>4, <1>6, ReservedFinite
<1>. QED
  BY <1>5, <1>6, <1>7 DEF LogWritePanics, BudgetFits, TypeOK

\* Fewer operations that have logged no less hold no more.
LEMMA ReservedShrinks ==
  ASSUME Active' \subseteq Active,
         \A q \in Active' : /\ Cardinality(wrote[q]) \in Nat
                            /\ Cardinality(wrote'[q]) \in Nat
                            /\ Cardinality(wrote[q]) <= Cardinality(wrote'[q])
  PROVE  Cardinality(Reserved') \in Nat /\ Cardinality(Reserved') <= Cardinality(Reserved)
<1>1. Reserved' \in SUBSET Reserved
  <2>. SUFFICES ASSUME NEW r \in Reserved' PROVE r \in Reserved
    OBVIOUS
  <2>1. /\ r \in Active' \X (1 .. MAXOPBLOCKS) /\ r[1] \in Active' /\ r[2] \in Nat
        /\ r[2] > Cardinality(wrote'[r[1]])
    BY SizesAssumption DEF Reserved
  <2>2. r \in Active \X (1 .. MAXOPBLOCKS)
    BY <2>1
  <2>. QED
    BY <2>1, <2>2 DEF Reserved
<1>2. Cardinality(Reserved') \in Nat
  BY ReservedFinite, <1>1, FS_Subset, FS_CardinalityType
<1>. QED
  BY <1>1, <1>2, ReservedFinite, FS_Subset

LEMMA WroteFinite ==
  ASSUME TypeOK, NEW p \in Procs
  PROVE  IsFiniteSet(wrote[p]) /\ Cardinality(wrote[p]) \in Nat
<1>1. IsFiniteSet(wrote[p])
  BY ValuesAssumption, FS_Subset DEF TypeOK
<1>. QED
  BY <1>1, FS_CardinalityType

\* Steps that change neither the header nor what was logged, and start nothing.
LEMMA QuietSpace ==
  ASSUME Inv2, lh' = lh, wrote' = wrote, sys \in {"up", "panic"}, Active' \subseteq Active
  PROVE  SpaceInv'
<1>1. Cardinality(Reserved') \in Nat /\ Cardinality(Reserved') <= Cardinality(Reserved)
  BY ReservedShrinks, WroteFinite DEF Inv2, Inv1, Active
<1>2. Len(lh) \in Nat /\ LOGSIZE \in Nat
  BY SizesAssumption DEF Inv2, Inv1, TypeOK
<1>3. Len(lh') + Cardinality(Reserved) <= LOGSIZE
  BY DEF SpaceInv, Inv2
<1>. QED
  BY <1>1, <1>2, <1>3, ReservedFinite DEF SpaceInv

\* Nothing is reserved when no operation is in progress.
LEMMA NothingReserved ==
  ASSUME Active' = {}, Len(lh') <= LOGSIZE, Len(lh') \in Nat PROVE SpaceInv'
<1>1. Reserved' = {}
  BY DEF Reserved
<1>. QED
  BY <1>1, FS_EmptySet, SizesAssumption DEF SpaceInv

LEMMA LogWriteInv2 ==
  ASSUME BudgetFits, Inv2, NEW p \in Procs, NEW b \in Blocks, LogWrite(p, b)
  PROVE  SpaceInv' /\ BudgetInv' /\ NoPanic'
<1>. USE SizesAssumption, ValuesAssumption DEF Inv2, Inv1
<1>0. /\ sys = "up" /\ pc[p] = "modify" /\ holder[b] = p
      /\ Absorbed(b) => lh' = lh
      /\ ~Absorbed(b) => lh' = Append(lh, b)
      /\ holder' = [holder EXCEPT ![b] = Nobody]
      /\ pc' = [pc EXCEPT ![p] = "inop"]
      /\ wrote' = [wrote EXCEPT ![p] = @ \cup {b}]
      /\ sys' = sys
  BY LogWriteSafe DEF LogWrite
<1>1. p \in Active /\ Active' = Active
  BY <1>0 DEF TypeOK, Active
<1>2. /\ wrote'[p] = wrote[p] \cup {b}
      /\ \A q \in Procs : q # p => wrote'[q] = wrote[q]
  BY <1>0 DEF TypeOK
<1>3. Cardinality(wrote'[p]) <= OpBlocks
  BY <1>0, <1>2 DEF BudgetInv
<1>4. lh \in Seq(Blocks) /\ Len(lh) \in Nat /\ DOMAIN lh = 1 .. Len(lh)
  BY DEF TypeOK
<1>5. /\ Len(Append(lh, b)) = Len(lh) + 1
      /\ Entries(Append(lh, b)) = Entries(lh) \cup {b}
  <2>1. /\ DOMAIN Append(lh, b) = 1 .. Len(lh) + 1
        /\ \A i \in 1 .. Len(lh) : Append(lh, b)[i] = lh[i]
        /\ Append(lh, b)[Len(lh) + 1] = b
    BY <1>4
  <2>2. Len(Append(lh, b)) = Len(lh) + 1
    BY <1>4
  <2>3. 1 .. Len(lh) + 1 = (1 .. Len(lh)) \cup {Len(lh) + 1}
    BY <1>4
  <2>. QED
    BY <1>4, <2>1, <2>2, <2>3 DEF Entries
<1>6. b \in Entries(lh') /\ Entries(lh) \subseteq Entries(lh')
  <2>1. CASE Absorbed(b)
    BY <1>0, <2>1 DEF Absorbed, Entries
  <2>2. CASE ~Absorbed(b)
    BY <1>0, <1>5, <2>2, Zenon
  <2>. QED
    BY <2>1, <2>2
<1>7. BudgetInv'
  <2>1. ASSUME NEW q \in Active'
        PROVE  wrote'[q] \subseteq Entries(lh') /\ Cardinality(wrote'[q]) <= OpBlocks
    <3>1. q \in Active /\ q \in Procs
      BY <1>1 DEF Active
    <3>2. wrote[q] \subseteq Entries(lh) /\ Cardinality(wrote[q]) <= OpBlocks
      BY <3>1 DEF BudgetInv
    <3>. QED
      BY <1>2, <1>3, <1>6, <3>1, <3>2
  <2>2. ASSUME NEW c \in Blocks, holder'[c] # Nobody
        PROVE  Cardinality(wrote'[holder'[c]] \cup {c}) <= OpBlocks
    <3>1. c # b /\ holder'[c] = holder[c] /\ holder[c] \in Procs /\ holder[c] # p
      BY <1>0, <2>2 DEF TypeOK, HolderInv
    <3>. QED
      BY <1>2, <3>1 DEF BudgetInv
  <2>. QED
    BY <2>1, <2>2 DEF BudgetInv
<1>8. NoPanic'
  BY <1>0 DEF NoPanic
<1>9. IsFiniteSet(wrote[p]) /\ Cardinality(wrote[p]) \in Nat
  BY WroteFinite
<1>10. Len(lh) + Cardinality(Reserved) <= LOGSIZE
  BY <1>0 DEF SpaceInv
<1>11. CASE Absorbed(b)
  <2>1. Cardinality(wrote'[p]) \in {Cardinality(wrote[p]), Cardinality(wrote[p]) + 1}
    <3>1. Cardinality(wrote[p] \cup {b}) =
            IF b \in wrote[p] THEN Cardinality(wrote[p]) ELSE Cardinality(wrote[p]) + 1
      BY <1>9, FS_AddElement, Zenon
    <3>. QED
      BY <1>2, <3>1
  <2>2. ASSUME NEW q \in Active'
        PROVE  /\ Cardinality(wrote[q]) \in Nat /\ Cardinality(wrote'[q]) \in Nat
               /\ Cardinality(wrote[q]) <= Cardinality(wrote'[q])
    <3>1. q \in Procs /\ Cardinality(wrote[q]) \in Nat
      BY WroteFinite DEF Active
    <3>2. CASE q = p
      BY <1>9, <2>1, <3>2
    <3>3. CASE q # p
      BY <1>2, <3>1, <3>3
    <3>. QED
      BY <3>2, <3>3
  <2>3. Cardinality(Reserved') \in Nat /\ Cardinality(Reserved') <= Cardinality(Reserved)
    BY <1>1, <2>2, ReservedShrinks
  <2>4. lh' = lh
    BY <1>0, <1>11
  <2>5. SpaceInv'
    BY <1>4, <1>10, <2>3, <2>4, ReservedFinite DEF SpaceInv
  <2>. QED
    BY <1>7, <1>8, <2>5
<1>12. CASE ~Absorbed(b)
  <2>. DEFINE n == Cardinality(wrote[p])
  <2>1. b \notin wrote[p]
    BY <1>1, <1>12 DEF BudgetInv, Absorbed, Entries
  <2>2. Cardinality(wrote'[p]) = n + 1
    BY <1>2, <1>9, <2>1, FS_AddElement, Zenon
  <2>3. n \in Nat /\ n + 1 <= OpBlocks /\ n + 1 \in 1 .. MAXOPBLOCKS
    BY <1>3, <1>9, <2>2 DEF BudgetFits
  <2>. HIDE DEF n
  <2>4. Reserved' = Reserved \ {<<p, n + 1>>}
    <3>1. ASSUME NEW q \in Active, NEW i \in 1 .. MAXOPBLOCKS
          PROVE  <<q, i>> \in Reserved' <=> <<q, i>> \in Reserved \ {<<p, n + 1>>}
      <4>1. <<q, i>> \in Reserved' <=> i > Cardinality(wrote'[q])
        BY <1>1 DEF Reserved
      <4>2. <<q, i>> \in Reserved <=> i > Cardinality(wrote[q])
        BY DEF Reserved
      <4>3. CASE q = p
        BY <2>2, <2>3, <4>1, <4>2, <4>3 DEF n
      <4>4. CASE q # p
        BY <1>2, <4>1, <4>2, <4>4 DEF Active
      <4>. QED
        BY <4>3, <4>4
    <3>2. /\ \A r \in Reserved' : r \in Active \X (1 .. MAXOPBLOCKS)
          /\ \A r \in Reserved : r \in Active \X (1 .. MAXOPBLOCKS)
      BY <1>1 DEF Reserved
    <3>3. \A r \in Active \X (1 .. MAXOPBLOCKS) :
             \E q \in Active, i \in 1 .. MAXOPBLOCKS : r = <<q, i>>
      OBVIOUS
    <3>. QED
      BY <3>1, <3>2, <3>3
  <2>5. <<p, n + 1>> \in Reserved
    BY <1>1, <2>3 DEF Reserved, n
  <2>6. Cardinality(Reserved') = Cardinality(Reserved) - 1
    <3>. DEFINE r == <<p, n + 1>>
    <3>1. Cardinality(Reserved \ {r}) =
            IF r \in Reserved THEN Cardinality(Reserved) - 1 ELSE Cardinality(Reserved)
      <4>. HIDE DEF r
      <4>. QED
        BY ReservedFinite, FS_RemoveElement, Zenon
    <3>. QED
      BY <2>4, <2>5, <3>1
  <2>7. Len(lh') = Len(lh) + 1
    BY <1>0, <1>5, <1>12
  <2>8. SpaceInv'
    BY <1>4, <1>10, <2>6, <2>7, ReservedFinite DEF SpaceInv
  <2>. QED
    BY <1>7, <1>8, <2>8
<1>. QED
  BY <1>11, <1>12

LEMMA NextInv2 == ASSUME BudgetFits PROVE Inv2 /\ [Next]_vars => Inv2'
<1>. SUFFICES ASSUME Inv2, [Next]_vars PROVE SpaceInv' /\ BudgetInv' /\ NoPanic'
  BY NextInv1 DEF Inv2
<1>. USE SizesAssumption, ValuesAssumption DEF Inv2, Inv1
<1>1. ASSUME NEW p \in Procs, BeginOp(p) PROVE SpaceInv' /\ BudgetInv' /\ NoPanic'
  <2>0. /\ sys = "up" /\ sys' = sys /\ pc[p] \in {"idle", "begin"} /\ HasRoom
        /\ outstanding' = outstanding + 1
        /\ pc' = [pc EXCEPT ![p] = "inop"]
        /\ wrote' = [wrote EXCEPT ![p] = {}]
        /\ lh' = lh /\ holder' = holder
    BY <1>1 DEF BeginOp, bufVars
  <2>1. Active' = Active \cup {p} /\ p \notin Active
    BY <2>0 DEF TypeOK, Active
  <2>2. Cardinality(Active') = outstanding + 1
    BY <2>1, ActiveFinite, FS_AddElement, Zenon DEF CountInv
  <2>3. (Cardinality(Reserved) <= Cardinality(Active) * MAXOPBLOCKS)'
    BY ReservedBound, PTL
  <2>4. (Cardinality(Reserved) \in Nat)'
    BY ReservedFinite, PTL
  <2>5. SpaceInv'
    <3>. DEFINE r == (outstanding + 1) * MAXOPBLOCKS
    <3>1. Len(lh) + r <= LOGSIZE
      BY <2>0 DEF HasRoom
    <3>2. Cardinality(Reserved') <= r
      BY <2>2, <2>3
    <3>3. r \in Nat /\ Len(lh) \in Nat
      BY DEF TypeOK
    <3>. HIDE DEF r
    <3>. QED
      BY <2>0, <2>4, <3>1, <3>2, <3>3 DEF SpaceInv
  <2>6. BudgetInv'
    <3>1. wrote'[p] = {} /\ \A q \in Procs : q # p => wrote'[q] = wrote[q]
      BY <2>0 DEF TypeOK
    <3>2. Cardinality(wrote'[p]) <= OpBlocks
      BY <3>1, FS_EmptySet
    <3>3. \A c \in Blocks : holder[c] # Nobody => holder[c] \in Procs /\ holder[c] # p
      BY <2>0 DEF TypeOK, HolderInv
    <3>4. \A q \in Active : q \in Procs /\ q # p
      BY <2>1 DEF Active
    <3>5. \A q \in Active : wrote'[q] \subseteq Entries(lh') /\ Cardinality(wrote'[q]) <= OpBlocks
      BY <2>0, <3>1, <3>4 DEF BudgetInv
    <3>6. \A c \in Blocks : holder'[c] # Nobody =>
             Cardinality(wrote'[holder'[c]] \cup {c}) <= OpBlocks
      BY <2>0, <3>1, <3>3 DEF BudgetInv
    <3>. QED
      BY <2>1, <3>1, <3>2, <3>5, <3>6, Zenon DEF BudgetInv
  <2>. QED
    BY <2>0, <2>5, <2>6 DEF NoPanic
<1>2. ASSUME NEW p \in Procs, BeginOpSleep(p) PROVE SpaceInv' /\ BudgetInv' /\ NoPanic'
  <2>0. /\ sys = "up" /\ pc[p] \in {"idle", "begin"} /\ pc' = [pc EXCEPT ![p] = "asleep"]
        /\ UNCHANGED <<sys, lh, wrote, holder>>
    BY <1>2, Zenon DEF BeginOpSleep, bufVars, logVars
  <2>1. Active' = Active
    BY <2>0 DEF TypeOK, Active
  <2>. QED
    BY <2>0, <2>1, QuietSpace, Zenon DEF BudgetInv, NoPanic
<1>3. ASSUME NEW p \in Procs, NEW b \in Blocks, NEW d \in Data, Modify(p, b, d)
      PROVE  SpaceInv' /\ BudgetInv' /\ NoPanic'
  <2>0. /\ sys = "up" /\ pc[p] = "inop" /\ pc' = [pc EXCEPT ![p] = "modify"]
        /\ holder' = [holder EXCEPT ![b] = p]
        /\ Cardinality(wrote[p] \cup {b}) <= OpBlocks
        /\ UNCHANGED <<sys, lh, wrote>>
    BY <1>3 DEF Modify, logVars
  <2>1. Active' = Active
    BY <2>0 DEF TypeOK, Active
  <2>2. BudgetInv'
    BY <2>0, <2>1, Zenon DEF TypeOK, BudgetInv
  <2>. QED
    BY <2>0, <2>1, <2>2, QuietSpace, Zenon DEF NoPanic
<1>4. ASSUME NEW p \in Procs, NEW b \in Blocks, LogWrite(p, b)
      PROVE  SpaceInv' /\ BudgetInv' /\ NoPanic'
  BY <1>4, LogWriteInv2
<1>5. ASSUME NEW p \in Procs, EndOp(p) PROVE SpaceInv' /\ BudgetInv' /\ NoPanic'
  <2>0. p \in Active /\ ~committing
    BY <1>5 DEF EndOp, Active, CommitInv
  <2>1. UNCHANGED <<sys, lh, wrote, holder>> /\ sys = "up"
    BY <1>5, <2>0 DEF EndOp, bufVars
  <2>2. Active' = Active \ {p}
    BY <1>5, <2>0 DEF EndOp, TypeOK, Active, Woken
  <2>. QED
    BY <2>1, <2>2, QuietSpace, Zenon DEF BudgetInv, NoPanic
<1>6. ASSUME NEW p \in Procs, Commit(p) PROVE SpaceInv' /\ BudgetInv' /\ NoPanic'
  <2>1. pc[p] \in CommitPcs /\ sys = "up" /\ sys' = sys /\ holder' = holder
    BY <1>6, Zenon DEF Commit, WriteLog, WriteHead, Install, Erase, Finish, CommitPcs, bufVars
  <2>2. Active = {} /\ \A c \in Blocks : holder[c] = Nobody
    BY <2>1, CommitterFacts
  <2>3. lh' = lh \/ lh' = <<>>
    BY <1>6, Zenon DEF Commit, WriteLog, WriteHead, Install, Erase, Finish, logVars
  <2>4. Active' = {}
    <3>1. \/ pc' = pc
          \/ \E c \in CommitPcs : pc' = [pc EXCEPT ![p] = c]
          \/ pc' = Woken([pc EXCEPT ![p] = "idle"])
      BY <1>6 DEF Commit, WriteLog, WriteHead, Install, Erase, Finish, CommitPcs
    <3>. QED
      BY <2>1, <2>2, <3>1, Zenon DEF Active, TypeOK, CommitPcs, Woken
  <2>5. Len(lh') \in Nat /\ Len(lh') <= LOGSIZE
    <3>1. Len(lh) \in Nat /\ Len(lh) <= LOGSIZE
      BY <2>1, ReservedFinite DEF TypeOK, SpaceInv
    <3>. QED
      BY <2>3, <3>1
  <2>6. SpaceInv'
    BY <2>4, <2>5, NothingReserved
  <2>. QED
    BY <2>1, <2>2, <2>4, <2>6 DEF BudgetInv, NoPanic
<1>7. ASSUME NEW b \in Blocks, Bread(b) \/ Recycle(b)
      PROVE  SpaceInv' /\ BudgetInv' /\ NoPanic'
  <2>1. UNCHANGED <<sys, lh, wrote, holder, pc>> /\ sys = "up"
    BY <1>7 DEF Bread, Recycle, logVars
  <2>2. Active' = Active
    BY <2>1 DEF Active
  <2>. QED
    BY <2>1, <2>2, QuietSpace DEF BudgetInv, NoPanic
<1>8. CASE Crash
  BY <1>8 DEF Crash, SpaceInv, BudgetInv, NoPanic, Active
<1>9. CASE Recover
  <2>1. UNCHANGED <<holder, pc, wrote>> /\ sys \in RecoverySys /\ sys' # "panic"
    BY <1>9 DEF Recover, ReadHead, RecoverInstall, RecoverErase, RecoverySys, bufVars
  <2>2. Active' = {} /\ \A c \in Blocks : holder'[c] = Nobody
    BY <2>1 DEF Active, CommitInv, HolderInv
  <2>3. BudgetInv'
    BY <2>2 DEF BudgetInv
  <2>4. SpaceInv'
    <3>1. CASE sys' \in RecoverySys
      BY <3>1 DEF SpaceInv, RecoverySys
    <3>2. CASE sys' \notin RecoverySys
      <4>1. lh' = <<>>
        BY <1>9, <2>1, <3>2 DEF Recover, ReadHead, RecoverInstall, RecoverErase, RecoverySys
      <4>. QED
        BY <2>2, <4>1, NothingReserved
    <3>. QED
      BY <3>1, <3>2
  <2>. QED
    BY <2>1, <2>3, <2>4 DEF NoPanic
<1>10. CASE UNCHANGED vars
  <2>1. Active' = Active /\ Reserved' = Reserved
    BY <1>10 DEF vars, Active, Reserved
  <2>. QED
    BY <1>10, <2>1 DEF vars, SpaceInv, BudgetInv, NoPanic
<1>. QED
  BY <1>1, <1>2, <1>3, <1>4, <1>5, <1>6, <1>7, <1>8, <1>9, <1>10 DEF Next

\* For every log size, reservation and number of processes: as long as each
\* operation writes at most OpBlocks blocks, with OpBlocks within BudgetFits,
\* no panic of log_write() or end_op() is ever reached.
THEOREM LogNeverPanics == ASSUME BudgetFits PROVE Spec => []NoPanic
<1>1. Init => Inv2
  <2>. SUFFICES ASSUME Init PROVE Inv2
    OBVIOUS
  <2>1. Inv1
    BY InitInv1
  <2>2. SpaceInv /\ NoPanic
    BY DEF Init, SpaceInv, NoPanic
  <2>3. BudgetInv
    BY DEF Init, BudgetInv, Active
  <2>. QED
    BY <2>1, <2>2, <2>3 DEF Inv2
<1>2. Inv2 /\ [Next]_vars => Inv2'
  BY NextInv2
<1>3. Inv2 => NoPanic
  BY DEF Inv2
<1>. QED
  BY <1>1, <1>2, <1>3, PTL DEF Spec
=============================================================================
