-------------------------- MODULE InterruptsProofs --------------------------
(***************************************************************************)
(* Proofs about Interrupts for any number of CPUs and kernel threads.      *)
(***************************************************************************)
EXTENDS InterruptsSteps, FiniteSetTheorems

-----------------------------------------------------------------------------
(* acquire(), the interrupts and the context switches *)

\* The lock asked for is none of those the code has.
LEMMA PushOffStep ==
  ASSUME Inv, NEW c \in Cpus, NEW x, x = cur[c], PushOff(c, x)
  PROVE  Inv'
<1>0. /\ Types /\ ~panic /\ x \in Contexts /\ c \in Contexts /\ ContextOK(x) /\ CpuOK(c)
      /\ x \in Threads => ThreadOK(x)
      /\ x = c => x \notin Threads
  BY Distinct DEF Inv, Types, Contexts
<1>1. /\ pc[x] = "off" /\ pc' = [pc EXCEPT ![x] = "spin"] /\ intr' = [intr EXCEPT ![c] = FALSE]
      /\ intena' = IF noff[c] = 0 THEN [intena EXCEPT ![c] = old[x]] ELSE intena
      /\ noff' = [noff EXCEPT ![c] = noff[c] + 1]
      /\ UNCHANGED <<locked, cur, state, want, ret, old, lk, saved, frame, todo>>
  BY DEF PushOff, Go, calls, Outer
<1>2. want[x] = Goal(x) /\ ret[x] \in Calls(x)
  BY <1>0, <1>1 DEF ContextOK, Acquiring
<1>3. want[x] \notin Needs(x) /\ want[x] \in Locks
  BY <1>0, <1>1, <1>2, Distinct DEF Needs, ContextOK, Acquiring, Calls, Goal, Place, NextTodo, Locks, Types
<1>4. ~panic' /\ panic' \in BOOLEAN
  <2>1. locked[want[x]] # c
    BY <1>0, <1>3 DEF CpuOK
  <2>. QED
    BY <1>0, <2>1, Zenon DEF PushOff, Holding
<1>5. Types'
  BY <1>0, <1>1, <1>4 DEF Types, Labels
<1>6. Local(c, x)
  BY <1>0, <1>1 DEF Local, Types
<1>7. /\ pc'[x] = "spin" /\ ~intr'[c] /\ noff'[c] = noff[c] + 1 /\ noff[c] \in Nat
      /\ noff[c] = 0 => (intena'[c] <=> old[x])
      /\ noff[c] # 0 => intena'[c] = intena[c]
      /\ c # x => pc'[c] = pc[c]
  BY <1>0, <1>1 DEF Types
<1>8. ContextOK(x)'
  BY <1>0, <1>1, <1>2, <1>7 DEF ContextOK, Acquiring, Place, Places, Calls, Goal, NextTodo, FrameOK
<1>9. CpuOK(c)'
  <2>1. Needs(x)' = Needs(x) /\ Depth(x)' = Depth(x) + 1
    BY <1>1, <1>7 DEF Needs, Depth, Acquiring
  <2>. QED
    BY <1>0, <1>1, <1>7, <2>1 DEF CpuOK
<1>. QED
  BY <1>0, <1>1, <1>4, <1>5, <1>6, <1>7, <1>8, <1>9, StepKeeps DEF ThreadOK

LEMMA TestAndSetStep ==
  ASSUME Inv, NEW c \in Cpus, NEW x, x = cur[c], TestAndSet(c, x)
  PROVE  Inv'
<1>0. /\ Types /\ ~panic /\ x \in Contexts /\ c \in Contexts /\ ContextOK(x) /\ CpuOK(c)
      /\ x \in Threads => ThreadOK(x)
      /\ x = c => x \notin Threads
  BY Distinct DEF Inv, Types, Contexts
<1>1. /\ pc[x] = "spin" /\ pc' = [pc EXCEPT ![x] = ret[x]] /\ want' = [want EXCEPT ![x] = None]
      /\ locked[want[x]] = None /\ locked' = [locked EXCEPT ![want[x]] = c]
      /\ UNCHANGED <<intr, noff, intena, cur, state, ret, old, lk, saved, frame, todo, panic>>
  BY DEF TestAndSet, Go
<1>2. want[x] = Goal(x) /\ ret[x] \in Calls(x)
  BY <1>0, <1>1 DEF ContextOK, Acquiring
<1>3. want[x] \in Locks
  BY <1>0, <1>1, <1>2, Distinct DEF ContextOK, Acquiring, Calls, Goal, Place, NextTodo, Locks, Types
<1>5. Types'
  BY <1>0, <1>1, <1>3 DEF Types
<1>6. Local(c, x)
  BY <1>0, <1>1 DEF Local, Types
<1>7. /\ pc'[x] = ret[x]
      /\ pc'[x] \in {"crit", "inner", "sleep", "found", "tick", "wake", "yield"}
      /\ c # x => pc'[c] = pc[c]
  BY <1>0, <1>1, <1>2 DEF Types, Calls
<1>8. ContextOK(x)'
  <2>1. Place(x)' = Place(x) /\ ~Acquiring(x)' /\ pc'[x] \in Places(x)'
    BY <1>1, <1>2, <1>7 DEF Place, Acquiring, Calls, Places
  <2>. QED
    BY <1>0, <1>1, <1>7, <2>1 DEF ContextOK, FrameOK
<1>9. CpuOK(c)'
  <2>1. \A l \in Locks : locked'[l] = c <=> locked[l] = c \/ l = Goal(x)
    BY <1>0, <1>1, <1>2, <1>3 DEF Types
  <2>2. Needs(x)' = Needs(x) \cup {Goal(x)} /\ Depth(x)' = Depth(x) /\ Depth(x) > 0
    <3>1. NextTodo(x)' = NextTodo(x)
      BY <1>1, Zenon DEF NextTodo
    <3>2. Needs(x)' = Needs(x) \cup {Goal(x)}
      BY <1>1, <1>2, <1>7, <3>1 DEF Needs, Acquiring, Calls, Goal
    <3>3. Depth(x)' = Depth(x) /\ Depth(x) > 0
      BY <1>1, <1>2, <1>7 DEF Depth, Acquiring, Calls
    <3>. QED
      BY <3>2, <3>3
  <2>3. \A l \in Locks : locked'[l] = c <=> l \in Needs(x)'
    BY <1>0, <2>1, <2>2 DEF CpuOK
  <2>. QED
    BY <1>0, <1>1, <1>7, <2>2, <2>3 DEF CpuOK
<1>. QED
  BY <1>0, <1>1, <1>5, <1>6, <1>7, <1>8, <1>9, StepKeeps DEF ThreadOK

LEMMA ScanStep ==
  ASSUME Inv, NEW c \in Cpus, NEW x, x = cur[c], Scan(c, x)
  PROVE  Inv'
<1>0. /\ Types /\ ~panic /\ x \in Contexts /\ c \in Contexts /\ ContextOK(x) /\ CpuOK(c)
      /\ x \in Threads => ThreadOK(x)
      /\ x = c => x \notin Threads
  BY Distinct DEF Inv, Types, Contexts
<1>1. PICK t \in Threads, first \in BOOLEAN :
         /\ x = c /\ pc[x] = "scan" /\ pc' = [pc EXCEPT ![x] = "push"]
         /\ want' = [want EXCEPT ![x] = t] /\ ret' = [ret EXCEPT ![x] = "found"] /\ lk' = [lk EXCEPT ![x] = t]
         /\ intr' = [intr EXCEPT ![c] = first \/ intr[c]]
         /\ UNCHANGED <<locked, noff, intena, cur, state, old, saved, frame, todo, panic>>
  BY DEF Scan, Acquire, Go
<1>2. x \notin Threads /\ frame[x] = None
  BY <1>0, <1>1 DEF ContextOK, Acquiring, Places
<1>4. intr' \in [Cpus -> BOOLEAN] /\ \A d \in Cpus \ {c} : intr'[d] = intr[d]
  BY <1>0, <1>1, Zenon DEF Types
<1>5. Types'
  BY <1>0, <1>1, <1>4 DEF Types, Labels, Locks
<1>6. Local(c, x)
  BY <1>0, <1>1, <1>4 DEF Local, Types
<1>7. pc'[x] = "push" /\ ret'[x] = "found" /\ want'[x] = t /\ lk'[x] = t
  BY <1>0, <1>1 DEF Types
<1>8. ContextOK(x)'
  BY <1>1, <1>2, <1>7 DEF ContextOK, Acquiring, Place, Calls, Goal, FrameOK
<1>9. CpuOK(c)'
  <2>1. Needs(x)' = Needs(x) /\ Depth(x)' = 0 /\ Depth(x) = 0
    BY <1>1, <1>7 DEF Needs, Depth, Acquiring
  <2>2. noff'[c] = 0 /\ cur'[c] = x /\ frame'[x] = None /\ (\A l \in Locks : locked'[l] = c <=> l \in Needs(x)')
    BY <1>0, <1>1, <1>2, <2>1 DEF CpuOK
  <2>. QED
    BY <1>1, <1>2, <2>1, <2>2 DEF CpuOK
<1>. QED
  BY <1>0, <1>1, <1>2, <1>5, <1>6, <1>7, <1>8, <1>9, StepKeeps

\* The interrupted context has no lock: its frame says so.
LEMMA TimerStep ==
  ASSUME Inv, NEW c \in Cpus, NEW x, x = cur[c], Timer(c, x)
  PROVE  Inv'
<1>0. /\ Types /\ ~panic /\ x \in Contexts /\ c \in Contexts /\ ContextOK(x) /\ CpuOK(c)
      /\ x \in Threads => ThreadOK(x)
      /\ x = c => x \notin Threads
  BY Distinct DEF Inv, Types, Contexts
<1>1. /\ intr[c] /\ intr' = [intr EXCEPT ![c] = FALSE]
      /\ frame' = [frame EXCEPT ![x] = <<pc[x], want[x], ret[x], old[x]>>]
      /\ pc' = [pc EXCEPT ![x] = IF c = Cpu0 THEN "clock" ELSE "ticked"]
      /\ UNCHANGED <<locked, noff, intena, cur, state, want, ret, old, lk, saved, todo, panic>>
  BY DEF Timer, Go, calls
<1>2. frame[x] = None /\ noff[c] = 0 /\ Depth(x) = 0
  BY <1>0, <1>1 DEF CpuOK, Types
<1>3. \/ Acquiring(x) /\ pc[x] # "spin" /\ ret[x] \in {"crit", "found"}
      \/ pc[x] \in {"run", "return", "user", "again", "scan"}
  BY <1>0, <1>2 DEF Depth, ContextOK, Acquiring, Places, Calls
<1>4. <<pc[x], want[x], ret[x], old[x]>> \in Frames
  BY <1>0 DEF Types, Frames
<1>5. Types'
  BY <1>0, <1>1, <1>4 DEF Types, Labels
<1>6. Local(c, x)
  BY <1>0, <1>1 DEF Local, Types
<1>7. /\ pc'[x] \in {"clock", "ticked"} /\ ~intr'[c]
      /\ frame'[x] = <<pc[x], want[x], ret[x], old[x]>>
      /\ c # x => pc'[c] = pc[c] /\ frame'[c] = frame[c]
  BY <1>0, <1>1 DEF Types
<1>8. frame'[x] # None
  BY <1>4, <1>7, InterruptsAssumption
<1>9. ContextOK(x)'
  <2>1. /\ frame'[x][1] = pc[x] /\ frame'[x][2] = want[x] /\ frame'[x][3] = ret[x]
        /\ frame'[x][4] = old[x]
    BY <1>7
  <2>2. ~Acquiring(x)' /\ pc'[x] \in Places(x)' /\ Place(x)' = pc'[x]
    BY <1>7, <1>8 DEF Acquiring, Places, Place
  <2>3. FrameOK(x)'
    <3>1. CASE pc[x] \in {"run", "return", "user", "again", "scan"}
      BY <1>0, <1>1, <1>2, <2>1, <3>1 DEF FrameOK, ContextOK, Acquiring, Places, Contexts
    <3>2. CASE Acquiring(x) /\ pc[x] # "spin" /\ ret[x] \in {"crit", "found"}
      <4>1. pc[x] \in {"push", "off"} /\ want[x] = lk[x]
        BY <1>0, <3>2 DEF ContextOK, Goal, Acquiring
      <4>2. \/ x \in Threads /\ ret[x] = "crit" /\ lk[x] \in {Tickslock, Inner}
            \/ x \in Cpus /\ ret[x] = "found" /\ lk[x] \in Threads
        BY <1>0, <1>2, <3>2 DEF ContextOK, Calls, Place, Contexts
      <4>3. x \in Threads /\ pc[x] = "off" => old[x]
        BY <1>0, <1>2 DEF CpuOK
      <4>. QED
        BY <1>1, <2>1, <4>1, <4>2, <4>3 DEF FrameOK
    <3>. QED
      BY <1>3, <3>1, <3>2
  <2>. QED
    BY <1>7, <1>8, <2>2, <2>3 DEF ContextOK
<1>10. CpuOK(c)'
  <2>1. Needs(x) = {} /\ Needs(x)' = {} /\ Depth(x)' = 0
    BY <1>3, <1>7 DEF Needs, Depth, Acquiring
  <2>2. noff'[c] = 0 /\ cur'[c] = x /\ \A l \in Locks : locked'[l] # c
    BY <1>0, <1>1, <1>2, <2>1 DEF CpuOK
  <2>3. /\ x \in Threads => pc'[c] = "back" /\ lk'[c] = x /\ frame'[c] = None
        /\ x \in Cpus => x = c
    BY <1>0, <1>1, <1>7 DEF CpuOK
  <2>. QED
    BY <1>7, <1>8, <2>1, <2>2, <2>3 DEF CpuOK
<1>11. x \in Threads => (state'[x] # "RUNNING" <=> pc'[x] = "sched")
  BY <1>0, <1>1, <1>3, <1>7 DEF ThreadOK, Acquiring
<1>. QED
  BY <1>0, <1>1, <1>5, <1>6, <1>9, <1>10, <1>11, StepKeeps

LEMMA SretStep ==
  ASSUME Inv, NEW c \in Cpus, NEW x, x = cur[c], Sret(c, x)
  PROVE  Inv'
<1>0. /\ Types /\ ~panic /\ x \in Contexts /\ c \in Contexts /\ ContextOK(x) /\ CpuOK(c)
      /\ x \in Threads => ThreadOK(x)
      /\ x = c => x \notin Threads
  BY Distinct DEF Inv, Types, Contexts
<1>1. /\ pc[x] = "sret" /\ pc' = [pc EXCEPT ![x] = frame[x][1]] /\ intr' = [intr EXCEPT ![c] = TRUE]
      /\ want' = [want EXCEPT ![x] = frame[x][2]] /\ ret' = [ret EXCEPT ![x] = frame[x][3]]
      /\ old' = [old EXCEPT ![x] = frame[x][4]] /\ frame' = [frame EXCEPT ![x] = None]
      /\ UNCHANGED <<locked, noff, intena, cur, state, lk, saved, todo, panic>>
  BY DEF Sret
<1>2. frame[x] # None /\ frame[x] \in Frames /\ FrameOK(x)
  BY <1>0, <1>1 DEF ContextOK, Acquiring, Places, Types
<1>3. /\ frame[x][1] \in Labels /\ frame[x][2] \in Locks \cup {None}
      /\ frame[x][3] \in Labels /\ frame[x][4] \in BOOLEAN
  BY <1>2 DEF Frames
<1>5. Types'
  BY <1>0, <1>1, <1>3 DEF Types
<1>6. Local(c, x)
  BY <1>0, <1>1 DEF Local, Types
<1>7. /\ pc'[x] = frame[x][1] /\ want'[x] = frame[x][2] /\ ret'[x] = frame[x][3]
      /\ old'[x] = frame[x][4] /\ frame'[x] = None /\ lk'[x] = lk[x] /\ intr'[c]
      /\ c # x => pc'[c] = pc[c] /\ frame'[c] = frame[c]
  BY <1>0, <1>1 DEF Types
<1>8. \/ /\ pc'[x] \in {"run", "return", "user", "again", "scan"}
         /\ pc'[x] \in (IF x \in Threads THEN {"run", "return", "user", "again"} ELSE {"scan"})
         /\ pc'[x] = "again" => lk[x] = Tickslock
      \/ /\ pc'[x] \in {"push", "off"} /\ want'[x] = lk[x]
         /\ \/ x \in Threads /\ ret'[x] = "crit" /\ lk[x] \in {Tickslock, Inner}
            \/ x \in Cpus /\ ret'[x] = "found" /\ lk[x] \in Threads
  BY <1>2, <1>7, Distinct DEF FrameOK
<1>9. ContextOK(x)'
  <2>1. FrameOK(x)'
    BY <1>7 DEF FrameOK
  <2>2. CASE pc'[x] \in {"run", "return", "user", "again", "scan"}
    <3>1. pc'[x] \in Places(x)' /\ ~Acquiring(x)' /\ Place(x)' = pc'[x]
      BY <1>7, <1>8, <2>2 DEF Acquiring, Place, Places
    <3>. QED
      BY <1>7, <1>8, <2>1, <2>2, <3>1 DEF ContextOK
  <2>3. CASE pc'[x] \in {"push", "off"} /\ ret'[x] \in {"crit", "found"}
    <3>1. Acquiring(x)' /\ Place(x)' = ret'[x] /\ ret'[x] \in Calls(x)' /\ want'[x] = Goal(x)'
      BY <1>7, <1>8, <2>3, Distinct DEF Acquiring, Place, Calls, Goal
    <3>. QED
      BY <1>7, <1>8, <2>1, <2>3, <3>1 DEF ContextOK
  <2>. QED
    BY <1>8, <2>2, <2>3
<1>10. CpuOK(c)'
  <2>1. Needs(x)' = {} /\ Depth(x)' = 0
    BY <1>8 DEF Needs, Depth, Acquiring
  <2>2. Needs(x) = {} /\ Depth(x) = 0
    BY <1>1 DEF Needs, Depth, Acquiring
  <2>3. x \in Threads /\ pc'[x] = "off" => old'[x]
    BY <1>2, <1>7 DEF FrameOK
  <2>4. noff'[c] = 0 /\ cur'[c] = x /\ \A l \in Locks : locked'[l] # c
    BY <1>0, <1>1, <2>2 DEF CpuOK
  <2>5. /\ x \in Threads => pc'[c] = "back" /\ lk'[c] = x /\ frame'[c] = None
        /\ x \in Cpus => x = c
    BY <1>0, <1>1, <1>7 DEF CpuOK
  <2>. QED
    BY <1>7, <2>1, <2>3, <2>4, <2>5 DEF CpuOK
<1>. QED
  BY <1>0, <1>1, <1>5, <1>6, <1>8, <1>9, <1>10, StepKeeps DEF ThreadOK


\* Only the lock of the process is left to give up when it switches away.
LEMMA SchedStep ==
  ASSUME Inv, NEW c \in Cpus, NEW x, x = cur[c], Sched(c, x)
  PROVE  Inv'
<1>0. /\ Types /\ ~panic /\ x \in Contexts /\ c \in Contexts /\ ContextOK(x) /\ CpuOK(c)
      /\ x \in Threads => ThreadOK(x)
      /\ x = c => x \notin Threads
  BY Distinct DEF Inv, Types, Contexts
<1>1. /\ pc[x] = "sched" /\ pc' = [pc EXCEPT ![x] = "swtch"] /\ cur' = [cur EXCEPT ![c] = c]
      /\ saved' = [saved EXCEPT ![x] = intena[c]]
      /\ UNCHANGED <<locked, intr, noff, intena, state, want, ret, old, lk, frame, todo>>
  BY DEF Sched, Go, cpuvars, calls
<1>2. x \in Threads /\ x # c /\ c \in Contexts
  BY <1>0, <1>1 DEF ContextOK, Acquiring, Places
<1>3. Needs(x) = {x} /\ Depth(x) = 1
  BY <1>1 DEF Needs, Depth, Acquiring
<1>4. ~panic' /\ panic' \in BOOLEAN
  <2>1. locked[x] = c /\ noff[c] = 1 /\ ~intr[c]
    <3>1. x \in Locks /\ x \in Needs(x)
      BY <1>2, <1>3 DEF Locks
    <3>. QED
      BY <1>0, <1>3, <3>1 DEF CpuOK
  <2>2. state[x] # "RUNNING"
    BY <1>0, <1>1, <1>2 DEF ThreadOK
  <2>. QED
    BY <1>0, <2>1, <2>2, Zenon DEF Sched, Holding
<1>5. Types'
  BY <1>0, <1>1, <1>2, <1>4 DEF Types, Labels
<1>6. Local(c, x)
  BY <1>0, <1>1 DEF Local, Types, Contexts
<1>7. ContextOK(x)'
  <2>1. saved'[x] = intena[c] /\ pc'[x] = "swtch"
    BY <1>0, <1>1, <1>2 DEF Types
  <2>2. intena[c] <=> frame[x] = None
    BY <1>0, <1>1, <1>2, <1>3 DEF CpuOK
  <2>3. FrameOK(x)' /\ (frame[x] = None => lk[x] = Tickslock)
    BY <1>0, <1>1, Zenon DEF ContextOK, FrameOK
  <2>4. ~Acquiring(x)' /\ Place(x)' = "swtch" /\ "swtch" \in Places(x)'
    BY <1>2, <2>1 DEF Acquiring, Place, Places
  <2>. QED
    BY <1>1, <2>1, <2>2, <2>3, <2>4 DEF ContextOK
<1>8. pc'[c] = "back" /\ lk'[c] = x /\ frame'[c] = None /\ cur'[c] = c
  BY <1>0, <1>1, <1>2 DEF CpuOK, Types
<1>9. CpuOK(c)'
  <2>1. Needs(c)' = {x} /\ Depth(c)' = 1
    BY <1>8 DEF Needs, Depth, Acquiring
  <2>2. /\ noff'[c] = 1 /\ ~intr'[c] /\ c \notin Threads
        /\ \A l \in Locks : locked'[l] = c <=> l = x
    BY <1>0, <1>1, <1>3, Distinct DEF CpuOK
  <2>. QED
    BY <1>8, <2>1, <2>2 DEF CpuOK
<1>10. \A y \in Contexts : ContextOK(y)'
  BY <1>6, <1>7, OtherContexts DEF Inv
<1>11. \A d \in Cpus : CpuOK(d)'
  BY <1>6, <1>9, OtherCpus
<1>12. OneCpuEach'
  <2>1. \A d \in Cpus : d # c => cur[d] # c
    BY Distinct DEF Inv, CpuOK
  <2>. QED
    BY <1>0, <1>1, <2>1 DEF Inv, OneCpuEach, Types
<1>13. ASSUME NEW t \in Threads PROVE ThreadOK(t)'
  <2>1. CASE t = x
    <3>1. \A d \in Cpus : cur'[d] # x
      BY <1>0, <1>1, <1>2 DEF Inv, OneCpuEach, Types
    <3>2. state[x] # "RUNNING" /\ pc'[x] = "swtch"
      BY <1>0, <1>1, <1>2 DEF ThreadOK, Types
    <3>. QED
      BY <1>1, <2>1, <3>1, <3>2 DEF ThreadOK
  <2>2. CASE t # x
    <3>1. pc'[t] = pc[t] /\ \A d \in Cpus : cur'[d] = t <=> cur[d] = t
      BY <1>0, <1>1, <2>2, Distinct DEF Types, Contexts
    <3>2. ThreadOK(t)
      BY DEF Inv
    <3>. QED
      BY <1>1, <3>1, <3>2 DEF ThreadOK
  <2>. QED
    BY <2>1, <2>2
<1>. QED
  BY <1>4, <1>5, <1>10, <1>11, <1>12, <1>13 DEF Inv

\* The scheduler has the lock of the process it switches to, so the process is
\* on no CPU, and the lock is the one that the process will release.
LEMMA FoundStep ==
  ASSUME Inv, NEW c \in Cpus, NEW x, x = cur[c], Found(c, x)
  PROVE  Inv'
<1>0. /\ Types /\ ~panic /\ x \in Contexts /\ c \in Contexts /\ ContextOK(x) /\ CpuOK(c)
  BY DEF Inv, Types, Contexts
<1>1. x = c /\ pc[c] = "found" /\ UNCHANGED <<want, ret, old, saved, frame, todo>>
  BY DEF Found, calls
<1>2. x \notin Threads /\ frame[c] = None /\ lk[c] \in Threads
  BY <1>0, <1>1, Distinct DEF ContextOK, Acquiring, Place, Places
<1>3. Needs(c) = {lk[c]} /\ Depth(c) = 1
  BY <1>1 DEF Needs, Depth, Acquiring
<1>4. PICK t : t = lk[c] /\ t \in Threads /\ t \in Locks /\ t \in Needs(c)
  BY <1>2, <1>3 DEF Locks
<1>5. locked[t] = c /\ noff[c] = 1 /\ ~intr[c]
  <2>1. /\ noff[c] = Depth(c) /\ (noff[c] > 0 => ~intr[c])
        /\ \A l \in Locks : locked[l] = c <=> l \in Needs(c)
    BY <1>0, <1>1, Zenon DEF CpuOK
  <2>. QED
    BY <1>3, <1>4, <2>1
<1>6. \A l \in Locks : locked[l] = c <=> l = t
  <2>1. \A l \in Locks : locked[l] = c <=> l \in Needs(c)
    BY <1>0, <1>1, Zenon DEF CpuOK
  <2>. QED
    BY <1>3, <1>4, <2>1
<1>7. CASE state[t] = "RUNNABLE"
  <2>1. /\ state' = [state EXCEPT ![t] = "RUNNING"] /\ cur' = [cur EXCEPT ![c] = t]
        /\ pc' = [pc EXCEPT ![c] = "back"]
        /\ UNCHANGED <<locked, intr, noff, intena, lk, panic>>
    BY <1>4, <1>7 DEF Found, Go, cpuvars
  <2>2. \A d \in Cpus : cur[d] # t
    <3>1. SUFFICES ASSUME NEW d \in Cpus, cur[d] = t PROVE FALSE
      OBVIOUS
    <3>2. pc[t] = "sched"
      BY <1>4, <1>7, <3>1 DEF Inv, ThreadOK
    <3>3. Needs(t) = {t}
      BY <3>2 DEF Needs, Acquiring
    <3>4. locked[t] = d
      <4>1. CpuOK(d)
        BY DEF Inv
      <4>. QED
        BY <1>4, <3>1, <3>3, <4>1 DEF CpuOK
    <3>5. d = c
      BY <1>5, <3>4
    <3>. QED
      BY <1>1, <1>2, <1>4, <3>1, <3>5
  <2>3. pc[t] \in {"forkret", "swtch"} /\ t # c
    BY <1>1, <1>2, <1>4, <2>2 DEF Inv, ThreadOK
  <2>4. Types'
    BY <1>0, <1>1, <1>4, <2>1 DEF Types, Contexts, Labels
  <2>5. Local(c, x)
    BY <1>0, <1>1, <2>1 DEF Local, Types
  <2>6. pc'[c] = "back" /\ pc'[t] = pc[t] /\ cur'[c] = t
    BY <1>0, <1>4, <2>1, <2>3 DEF Types, Contexts
  <2>7. ContextOK(x)'
    <3>1. ~Acquiring(x)' /\ Place(x)' = "back" /\ "back" \in Places(x)' /\ FrameOK(x)'
      BY <1>1, <1>2, <2>6 DEF Acquiring, Place, Places, FrameOK
    <3>. QED
      BY <1>1, <1>2, <2>1, <2>6, <3>1 DEF ContextOK
  <2>8. CpuOK(c)'
    <3>1. Needs(t)' = {t} /\ Depth(t)' = 1
      BY <2>1, <2>3, <2>6 DEF Needs, Depth, Acquiring
    <3>2. frame[t] # None => pc[t] = "swtch"
      <4>1. ContextOK(t)
        BY <1>4 DEF Inv, Contexts
      <4>. QED
        BY <2>3, <4>1 DEF ContextOK, Acquiring, Places
    <3>3. /\ pc'[t] \in {"forkret", "swtch"} /\ (frame'[t] # None => pc'[t] = "swtch")
          /\ lk'[c] = t /\ frame'[c] = None /\ noff'[c] = 1 /\ ~intr'[c] /\ t \notin Cpus
          /\ \A l \in Locks : locked'[l] = c <=> l = t
      BY <1>1, <1>2, <1>4, <1>5, <1>6, <2>1, <2>3, <2>6, <3>2, Distinct
    <3>4. /\ noff'[c] = Depth(t)' /\ noff'[c] # 0
          /\ \A l \in Locks : locked'[l] = c <=> l \in Needs(t)'
          /\ pc'[t] # "off" /\ (pc'[t] = "forkret" \/ pc'[t] = "swtch")
      BY <3>1, <3>3
    <3>. QED
      BY <1>4, <2>6, <3>3, <3>4, Zenon DEF CpuOK
  <2>9. \A y \in Contexts : ContextOK(y)'
    BY <2>5, <2>7, OtherContexts DEF Inv
  <2>10. \A d \in Cpus : CpuOK(d)'
    BY <2>5, <2>8, OtherCpus
  <2>11. OneCpuEach'
    BY <1>0, <2>1, <2>2 DEF Inv, OneCpuEach, Types
  <2>12. ASSUME NEW u \in Threads PROVE ThreadOK(u)'
    <3>1. CASE u = t
      <4>1. state'[t] = "RUNNING" /\ pc'[t] # "sched" /\ \E d \in Cpus : cur'[d] = t
        BY <1>0, <1>4, <2>1, <2>3, <2>6 DEF Types
      <4>. QED
        BY <3>1, <4>1 DEF ThreadOK
    <3>2. CASE u # t
      <4>1. pc'[u] = pc[u] /\ state'[u] = state[u]
        BY <1>0, <2>1, <3>2, Distinct DEF Types, Contexts
      <4>2. \A d \in Cpus : cur'[d] = u <=> cur[d] = u
        BY <1>0, <1>1, <1>2, <2>1, <3>2 DEF Types
      <4>3. ThreadOK(u)
        BY DEF Inv
      <4>. QED
        BY <4>1, <4>2, <4>3 DEF ThreadOK
    <3>. QED
      BY <3>1, <3>2
  <2>. QED
    BY <1>0, <2>1, <2>4, <2>9, <2>10, <2>11, <2>12 DEF Inv
<1>8. CASE state[t] # "RUNNABLE"
  <2>1. /\ Release(c, t) /\ pc' = [pc EXCEPT ![c] = "scan"] /\ lk' = [lk EXCEPT ![c] = None]
        /\ UNCHANGED <<cur, state>>
    BY <1>4, <1>8 DEF Found, Go
  <2>2. ReleaseDone(c, t)
    BY <1>0, <1>4, <1>5, <2>1, Released
  <2>3. Types'
    BY <1>0, <1>1, <2>1, <2>2 DEF ReleaseDone, Types, Labels
  <2>4. Local(c, x)
    BY <1>0, <1>1, <1>5, <2>1, <2>2 DEF ReleaseDone, Local, Types
  <2>5. pc'[c] = "scan"
    BY <1>0, <2>1 DEF Types
  <2>6. ContextOK(x)'
    <3>1. ~Acquiring(x)' /\ Place(x)' = "scan" /\ "scan" \in Places(x)' /\ FrameOK(x)'
      BY <1>1, <1>2, <2>5 DEF Acquiring, Place, Places, FrameOK
    <3>. QED
      BY <1>1, <2>5, <3>1 DEF ContextOK
  <2>7. CpuOK(c)'
    <3>1. Needs(c)' = Needs(c) \ {t} /\ Depth(c)' = Depth(c) - 1
      BY <1>3, <1>4, <2>5 DEF Needs, Depth, Acquiring
    <3>2. frame'[x] = frame[x] /\ None # c /\ noff[c] \in Nat
      BY <1>1, <1>5, Distinct
    <3>. QED
      BY <1>0, <1>1, <1>2, <2>1, <2>2, <2>4, <2>5, <3>1, <3>2, CpuReleased
  <2>. QED
    BY <1>2, <2>1, <2>2, <2>3, <2>4, <2>6, <2>7, StepKeeps DEF ReleaseDone
<1>. QED
  BY <1>7, <1>8

\* wakeup(&ticks) goes on to the next process or is done.
LEMMA WakeupStep ==
  ASSUME Inv, NEW c \in Cpus, NEW x, x = cur[c], Wakeup(c, x)
  PROVE  Inv'
<1>0. /\ Types /\ ~panic /\ x \in Contexts /\ c \in Contexts /\ ContextOK(x) /\ CpuOK(c)
      /\ x \in Threads => ThreadOK(x)
      /\ x = c => x \notin Threads
  BY Distinct DEF Inv, Types, Contexts
<1>1. pc[x] = "tick" /\ UNCHANGED <<cur, state, old, lk, saved, frame, todo>>
  BY DEF Wakeup
<1>2. frame[x] # None
  BY <1>0, <1>1 DEF ContextOK, Acquiring, Places
<1>3. Needs(x) = {Tickslock} /\ Depth(x) = 1 /\ Tickslock \in Locks
  BY <1>1 DEF Needs, Depth, Acquiring, Locks
<1>4. locked[Tickslock] = c /\ noff[c] = 1 /\ ~intr[c] /\ c # None
  <2>1. locked[Tickslock] = c /\ c # None
    BY <1>0, <1>3, Distinct DEF CpuOK
  <2>2. noff[c] = 1 /\ ~intr[c]
    BY <1>0, <1>3 DEF CpuOK
  <2>. QED
    BY <2>1, <2>2
<1>5. CASE todo[x] = {}
  <2>1. Release(c, Tickslock) /\ pc' = [pc EXCEPT ![x] = "ticked"] /\ UNCHANGED <<want, ret>>
    BY <1>5 DEF Wakeup, Go
  <2>2. ReleaseDone(c, Tickslock)
    BY <1>0, <1>3, <1>4, <2>1, Released
  <2>3. Types'
    BY <1>0, <1>1, <2>1, <2>2 DEF ReleaseDone, Types, Labels
  <2>4. Local(c, x)
    BY <1>0, <1>1, <1>4, <2>1, <2>2 DEF ReleaseDone, Local, Types
  <2>5. pc'[x] = "ticked"
    BY <1>0, <2>1 DEF Types
  <2>6. ContextOK(x)'
    BY <1>0, <1>1, <1>2, <2>5 DEF ContextOK, Acquiring, Place, Places, FrameOK
  <2>7. CpuOK(c)'
    <3>1. Needs(x)' = Needs(x) \ {Tickslock} /\ Depth(x)' = Depth(x) - 1
      BY <1>3, <2>5 DEF Needs, Depth, Acquiring
    <3>2. frame'[x] = frame[x] /\ noff[c] \in Nat
      BY <1>1, <1>4
    <3>. QED
      BY <1>0, <1>1, <1>4, <2>2, <2>4, <2>5, <3>1, <3>2, CpuReleased
  <2>. QED
    BY <1>0, <1>1, <2>2, <2>3, <2>4, <2>5, <2>6, <2>7, StepKeeps DEF ReleaseDone, ThreadOK
<1>6. CASE todo[x] # {}
  <2>1. /\ want' = [want EXCEPT ![x] = NextTodo(x)] /\ ret' = [ret EXCEPT ![x] = "wake"]
        /\ pc' = [pc EXCEPT ![x] = "push"] /\ UNCHANGED <<locked, intr, noff, intena, panic>>
    BY <1>6, Zenon DEF Wakeup, Acquire, Go, cpuvars, NextTodo
  <2>2. NextTodo(x) \in todo[x]
    BY <1>6, Zenon DEF NextTodo
  <2>3. NextTodo(x) \in Locks
    BY <1>0, <2>2 DEF Types, Locks
  <2>4. Types'
    BY <1>0, <1>1, <2>1, <2>3 DEF Types, Labels
  <2>5. Local(c, x)
    BY <1>0, <1>1, <2>1 DEF Local, Types
  <2>6. pc'[x] = "push" /\ ret'[x] = "wake" /\ want'[x] = NextTodo(x)
    BY <1>0, <2>1 DEF Types
  <2>7. ContextOK(x)'
    <3>1. NextTodo(x)' = NextTodo(x)
      BY <1>1, Zenon DEF NextTodo
    <3>2. /\ Acquiring(x)' /\ Place(x)' = "wake" /\ ret'[x] \in Calls(x)' /\ want'[x] = Goal(x)'
      BY <1>1, <1>2, <2>6, <3>1 DEF Acquiring, Place, Calls, Goal
    <3>3. FrameOK(x)'
      BY <1>0, <1>1, Zenon DEF ContextOK, FrameOK
    <3>. QED
      BY <1>1, <1>6, <2>6, <3>2, <3>3 DEF ContextOK
  <2>8. CpuOK(c)'
    <3>1. Needs(x)' = Needs(x) /\ Depth(x)' = Depth(x)
      BY <1>3, <2>6 DEF Needs, Depth, Acquiring
    <3>. QED
      BY <1>0, <1>1, <2>1, <2>5, <2>6, <3>1, CpuKept
  <2>. QED
    BY <1>0, <1>1, <2>1, <2>4, <2>5, <2>6, <2>7, <2>8, StepKeeps DEF ThreadOK
<1>. QED
  BY <1>5, <1>6


-----------------------------------------------------------------------------
(* Every step *)

LEMMA InitInv == Init => Inv
<1>. SUFFICES ASSUME Init PROVE Inv
  OBVIOUS
<1>1. Types
  BY DEF Init, Types, Labels, Locks, Contexts
<1>2. \A c \in Cpus : cur[c] = c /\ c \in Contexts /\ pc[c] = "scan" /\ frame[c] = None /\ noff[c] = 0
  BY DEF Init, Contexts
<1>3. \A t \in Threads : t \in Contexts /\ pc[t] = "forkret" /\ frame[t] = None /\ state[t] = "RUNNABLE"
  BY Distinct DEF Init, Contexts
<1>4. \A x \in Contexts : ContextOK(x)
  BY <1>2, <1>3 DEF ContextOK, Acquiring, Place, Places, FrameOK, Contexts
<1>5. ASSUME NEW c \in Cpus PROVE CpuOK(c)
  <2>1. Needs(c) = {} /\ Depth(c) = 0
    BY <1>2 DEF Needs, Depth, Acquiring
  <2>2. \A l \in Locks : locked[l] # c
    BY Distinct DEF Init
  <2>3. c \notin Threads /\ cur[c] = c /\ frame[c] = None /\ noff[c] = 0 /\ ~(noff[c] > 0)
    BY <1>2, Distinct
  <2>. QED
    BY <2>1, <2>2, <2>3, Zenon DEF CpuOK
<1>6. OneCpuEach /\ ~panic
  BY <1>2 DEF OneCpuEach, Init
<1>7. \A t \in Threads : ThreadOK(t)
  BY <1>2, <1>3, Distinct DEF ThreadOK
<1>. QED
  BY <1>1, <1>4, <1>5, <1>6, <1>7 DEF Inv

LEMMA NextInv == Inv /\ [Next]_vars => Inv'
<1>. SUFFICES ASSUME Inv, [Next]_vars PROVE Inv'
  OBVIOUS
<1>1. CASE UNCHANGED vars
  <2>1. Types' /\ OneCpuEach' /\ ~panic'
    BY <1>1 DEF vars, Inv, Types, OneCpuEach
  <2>2. ASSUME NEW x \in Contexts PROVE ContextOK(x)'
    <3>1. ContextOK(x)
      BY DEF Inv
    <3>. QED
      BY <1>1, <3>1, Zenon DEF vars, ContextOK, Acquiring, Place, Places, Calls, Goal, NextTodo, FrameOK
  <2>3. ASSUME NEW c \in Cpus PROVE CpuOK(c)'
    <3>1. CpuOK(c)
      BY DEF Inv
    <3>2. Needs(cur[c])' = Needs(cur[c]) /\ Depth(cur[c])' = Depth(cur[c])
      BY <1>1, Zenon DEF vars, Needs, Depth, Acquiring, NextTodo
    <3>. QED
      BY <1>1, <3>1, <3>2, Zenon DEF vars, CpuOK
  <2>4. \A t \in Threads : ThreadOK(t)'
    BY <1>1 DEF vars, Inv, ThreadOK
  <2>. QED
    BY <2>1, <2>2, <2>3, <2>4 DEF Inv
<1>2. CASE Next
  <2>1. PICK c \in Cpus : Run(c, cur[c]) \/ Timer(c, cur[c])
    BY <1>2 DEF Next
  <2>2. CASE Timer(c, cur[c])
    BY <2>2, TimerStep
  <2>3. CASE Run(c, cur[c])
    BY <2>3, PushOffGetStep, PushOffStep, TestAndSetStep, EnterStep, EnterInnerStep, LeaveInnerStep,
      LeaveStep, SleepStep, SleepReleaseStep, SchedStep, SchedReturnStep, ResumedStep, ResumeSleepStep,
      ForkretStep, UsertrapretStep, UsertrapStep, ScanStep, FoundStep, BackStep, ClockStep, WakeupStep,
      WakeupOneStep, YieldStep, YieldStateStep, SretStep, Zenon DEF Run
  <2>. QED
    BY <2>1, <2>2, <2>3
<1>. QED
  BY <1>1, <1>2

-----------------------------------------------------------------------------
(* What the invariant gives *)

\* The locks that the code asks for are distinct, so Depth counts them.
LEMMA DepthCounts ==
  ASSUME Inv, NEW c \in Cpus
  PROVE  /\ Held(c) = Needs(cur[c]) /\ IsFiniteSet(Held(c))
         /\ Depth(cur[c]) = Cardinality(Held(c)) + (IF pc[cur[c]] = "spin" THEN 1 ELSE 0)
<1>. DEFINE x == cur[c]
<1>1. Types /\ CpuOK(c) /\ x \in Contexts /\ ContextOK(x)
  BY DEF Inv, Types
<1>2. x \in Threads \/ x = c
  BY <1>1 DEF CpuOK, Contexts
<1>3. Needs(x) \subseteq Locks
  BY <1>1, <1>2, Distinct DEF Needs, ContextOK, Acquiring, Place, Places, NextTodo, Locks, Types
<1>4. Held(c) = Needs(x)
  BY <1>1, <1>3 DEF CpuOK, Held
<1>5. \A a : Cardinality({a}) = 1 /\ IsFiniteSet({a})
  BY FS_Singleton
<1>6. \A a, b : a # b => Cardinality({a, b}) = 2 /\ IsFiniteSet({a, b})
  <2>. TAKE a, b
  <2>. HAVE a # b
  <2>1. {a, b} = {a} \cup {b} /\ b \notin {a}
    OBVIOUS
  <2>2. Cardinality({a}) = 1 /\ IsFiniteSet({a})
    BY <1>5
  <2>3. IsFiniteSet({a} \cup {b}) /\ Cardinality({a} \cup {b}) = Cardinality({a}) + 1
    BY <2>1, <2>2, FS_AddElement, Zenon
  <2>. QED
    BY <2>1, <2>2, <2>3
<1>7. Cardinality({}) = 0 /\ IsFiniteSet({})
  BY FS_EmptySet
<1>8. CASE Acquiring(x)
  BY <1>4, <1>5, <1>7, <1>8 DEF Needs, Depth, Acquiring
<1>9. CASE pc[x] \in {"inner", "sleep", "wake"}
  <2>1. pc[x] = "wake" => NextTodo(x) \in Threads
    BY <1>1 DEF ContextOK, Place, Acquiring, NextTodo, Types
  <2>2. pc[x] = "sleep" => x \in Threads
    BY <1>1 DEF ContextOK, Places, Acquiring
  <2>3. PICK l : Tickslock # l /\ Needs(x) = {Tickslock, l}
    BY <1>9, <2>1, <2>2, Distinct DEF Needs, Acquiring
  <2>4. Depth(x) = 2 /\ pc[x] # "spin"
    BY <1>9 DEF Depth, Acquiring
  <2>5. Held(c) = {Tickslock, l}
    BY <1>4, <2>3
  <2>6. Cardinality({Tickslock, l}) = 2 /\ IsFiniteSet({Tickslock, l})
    BY <1>6, <2>3
  <2>. QED
    BY <1>4, <2>4, <2>5, <2>6
<1>10. CASE ~Acquiring(x) /\ pc[x] \notin {"inner", "sleep", "wake"}
  <2>1. pc[x] # "spin"
    BY <1>10 DEF Acquiring
  <2>2. (Needs(x) = {} /\ Depth(x) = 0) \/ (Depth(x) = 1 /\ \E l : Needs(x) = {l})
    BY <1>10 DEF Needs, Depth
  <2>3. CASE Needs(x) = {} /\ Depth(x) = 0
    BY <1>4, <1>7, <2>1, <2>3
  <2>4. CASE Depth(x) = 1 /\ \E l : Needs(x) = {l}
    <3>1. Cardinality(Held(c)) = 1 /\ IsFiniteSet(Held(c))
      BY <1>4, <1>5, <2>4, Zenon
    <3>. QED
      BY <1>4, <2>1, <2>4, <3>1
  <2>. QED
    BY <2>2, <2>3, <2>4
<1>. QED
  BY <1>8, <1>9, <1>10

LEMMA LocksFinite == IsFiniteSet(Locks) /\ Cardinality(Locks) \in Nat
<1>1. Locks = (Threads \cup {Tickslock}) \cup {Inner}
  BY DEF Locks
<1>2. IsFiniteSet(Threads \cup {Tickslock})
  BY InterruptsAssumption, FS_AddElement
<1>. QED
  BY <1>1, <1>2, FS_AddElement, FS_CardinalityType

LEMMA InvCounted == Inv => OffAndCounted
<1>. SUFFICES ASSUME Inv PROVE OffAndCounted
  OBVIOUS
<1>1. NoffCounts
  BY DepthCounts DEF NoffCounts, Inv, CpuOK
<1>2. ASSUME NEW c \in Cpus PROVE Held(c) # {} \/ pc[cur[c]] = "spin" => ~intr[c]
  <2>1. Cardinality(Held(c)) \in Nat /\ (Held(c) # {} => Cardinality(Held(c)) # 0)
    BY DepthCounts, FS_CardinalityType, FS_EmptySet
  <2>2. noff[c] = Depth(cur[c]) /\ (noff[c] > 0 => ~intr[c])
    <3>1. CpuOK(c)
      BY DEF Inv
    <3>. QED
      BY <3>1, Zenon DEF CpuOK
  <2>3. Depth(cur[c]) = Cardinality(Held(c)) + (IF pc[cur[c]] = "spin" THEN 1 ELSE 0)
    BY DepthCounts
  <2>4. noff[c] = Cardinality(Held(c)) + (IF pc[cur[c]] = "spin" THEN 1 ELSE 0)
    BY <2>2, <2>3
  <2>5. Held(c) # {} \/ pc[cur[c]] = "spin" => noff[c] > 0
    BY <2>1, <2>4
  <2>. QED
    BY <2>2, <2>5, Zenon
<1>3. ASSUME NEW c \in Cpus PROVE noff[c] \in 0..Cardinality(Locks)
  <2>. DEFINE x == cur[c]
  <2>0. Types /\ CpuOK(c) /\ x \in Contexts /\ ContextOK(x)
    BY DEF Inv, Types
  <2>1. Held(c) \subseteq Locks /\ IsFiniteSet(Held(c)) /\ Cardinality(Held(c)) \in Nat
    BY DepthCounts, FS_CardinalityType DEF Held
  <2>2. \A S \in SUBSET Locks : Cardinality(S) <= Cardinality(Locks)
    BY LocksFinite, FS_Subset
  <2>3. noff[c] = Cardinality(Held(c)) + (IF pc[x] = "spin" THEN 1 ELSE 0) /\ Held(c) = Needs(x)
    BY <2>0, DepthCounts DEF CpuOK
  <2>4. CASE pc[x] # "spin"
    <3>1. Cardinality(Held(c)) <= Cardinality(Locks)
      BY <2>1, <2>2
    <3>. QED
      BY <2>1, <2>4, <2>3, <3>1, LocksFinite
  <2>5. CASE pc[x] = "spin"
    <3>1. want[x] \in Locks \ Held(c)
      <4>1. want[x] \in Locks
        BY <2>0, <2>5, Distinct DEF ContextOK, Acquiring, Calls, Goal, Place, NextTodo, Locks, Contexts, Types
      <4>2. want[x] \notin Needs(x)
        BY <2>0, <2>5, Distinct DEF Needs, ContextOK, Acquiring, Calls, Goal, Place, NextTodo, Contexts, Types
      <4>. QED
        BY <2>3, <4>1, <4>2
    <3>2. Held(c) \cup {want[x]} \subseteq Locks
      BY <2>1, <3>1
    <3>3. Cardinality(Held(c) \cup {want[x]}) = Cardinality(Held(c)) + 1
      BY <2>1, <3>1, FS_AddElement
    <3>4. Cardinality(Held(c) \cup {want[x]}) <= Cardinality(Locks)
      BY <2>2, <3>2
    <3>. QED
      BY <2>1, <2>5, <2>3, <3>3, <3>4, LocksFinite
  <2>. QED
    BY <2>4, <2>5
<1>4. TypeOK
  <2>1. noff \in [Cpus -> 0..Cardinality(Locks)]
    BY <1>3 DEF Inv, Types
  <2>. QED
    BY <2>1 DEF TypeOK, Inv, Types
<1>. QED
  BY <1>1, <1>2, <1>4 DEF OffAndCounted, OffWhileHolding

LEMMA InvRestored == Inv => InterruptsRestored
<1>. SUFFICES ASSUME Inv, NEW c \in Cpus
              PROVE  /\ pc[cur[c]] \in {"user", "run", "again"} => intr[c]
                     /\ frame[cur[c]] # None => ~intr[c]
  BY DEF InterruptsRestored
<1>1. CpuOK(c) /\ ContextOK(cur[c])
  BY DEF Inv, Types
<1>2. frame[cur[c]] # None => ~intr[c]
  BY <1>1 DEF CpuOK
<1>3. ASSUME pc[cur[c]] \in {"user", "run", "again"} PROVE intr[c]
  <2>1. frame[cur[c]] = None /\ cur[c] \in Threads /\ Depth(cur[c]) = 0
    BY <1>1, <1>3 DEF ContextOK, Acquiring, Places, Depth
  <2>. QED
    BY <1>1, <1>3, <2>1 DEF CpuOK
<1>. QED
  BY <1>2, <1>3

\* Spec keeps the invariant.
THEOREM InterruptsInvariant == Spec => []Inv
<1>1. Init => Inv
  BY InitInv
<1>2. Inv /\ [Next]_vars => Inv'
  BY NextInv
<1>. QED
  BY <1>1, <1>2, PTL DEF Spec

\* acquire() and release() keep interrupts off on a CPU for as long as it has
\* or waits for a lock, and noff counts these locks, whatever sleeps, yields
\* and switches to other CPUs come in between.
THEOREM OffWhileLocked == Spec => []OffAndCounted
BY InterruptsInvariant, InvCounted, PTL

\* None of the panics of acquire(), release(), pop_off() and sched() happens.
THEOREM LocksNeverPanic == Spec => []NoPanic
<1>1. Inv => NoPanic
  BY DEF Inv, NoPanic
<1>. QED
  BY <1>1, InterruptsInvariant, PTL

\* Interrupts are on in ordinary code that has no lock and off in the
\* interrupt handler, also after a sleep or a yield that ends on another CPU.
THEOREM InterruptsAreRestored == Spec => []InterruptsRestored
BY InterruptsInvariant, InvRestored, PTL
=============================================================================
