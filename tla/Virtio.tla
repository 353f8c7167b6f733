------------------------------- MODULE Virtio -------------------------------
(***************************************************************************)
(* The virtio disk driver, kernel/virtio_disk.c: descriptor allocation,    *)
(* the available and used rings with their free-running indices, and the   *)
(* completion interrupt, against a device that takes requests in order and *)
(* completes them in any order.                                            *)
(*                                                                         *)
(* Every process has a buffer of its own, for a block of its own: the      *)
(* buffer cache has one buffer per block and locks it.  A section under    *)
(* vdisk_lock is one step, except where the device may interleave with it. *)
(***************************************************************************)
EXTENDS Integers, FiniteSets

CONSTANTS
  Procs,   \* processes with a disk transfer
  NUM,     \* number of descriptors and of ring entries
  IdxMod,  \* the indices are integers modulo this, 2^16 in the code
  None

VirtioAssumption ==
  /\ NUM \in Nat \ {0} /\ IdxMod \in Nat /\ IdxMod % NUM = 0 /\ IdxMod > NUM
  /\ None \notin Procs \cup 0..NUM - 1

VARIABLES
  free,     \* disk.free
  desc,     \* disk.desc: what the descriptor points to, and its successor
  ops,      \* disk.ops: the command header of a chain
  info,     \* disk.info: buffer and status of a chain
  ring,     \* disk.avail->ring
  avail,    \* disk.avail->idx
  usedRing, \* disk.used->ring
  used,     \* disk.used->idx
  usedIdx,  \* disk.used_idx
  lk,       \* holder of vdisk_lock
  pc,       \* where the process is in virtio_disk_rw()
  idx,      \* its idx[0]
  write,    \* the transfer it asked for
  asleep,   \* what it sleeps for: "free" (&disk.free[0]), "buf", or "no"
  bdisk,    \* b->disk of its buffer
  data,     \* b->data of its buffer
  disk,     \* the block on the disk
  want,     \* what the transfer has to leave in both
  seen,     \* device: requests taken so far
  busy,     \* device: chains being processed
  pending,  \* interrupt not acknowledged
  panic

driver == <<free, desc, ops, info, ring, avail, usedIdx>>
procs == <<pc, idx, write, asleep>>
device == <<usedRing, used, seen, busy>>
vars == <<driver, procs, device, lk, bdisk, data, disk, want, pending, panic>>

Desc == 0..NUM - 1
Intr == "intr"
Unused == [addr |-> <<"none">>, next |-> None]

\* virtio_disk_init(): all descriptors free.
Init ==
  /\ free = Desc
  /\ desc = [d \in Desc |-> Unused]
  /\ ops = [d \in Desc |-> [write |-> FALSE, block |-> None]]
  /\ info = [d \in Desc |-> [b |-> None, status |-> 0]]
  /\ ring = [d \in Desc |-> 0]
  /\ usedRing = [d \in Desc |-> 0]
  /\ avail = 0 /\ used = 0 /\ usedIdx = 0
  /\ lk = None
  /\ pc = [p \in Procs |-> "idle"]
  /\ idx = [p \in Procs |-> None]
  /\ write = [p \in Procs |-> FALSE]
  /\ asleep = [p \in Procs |-> "no"]
  /\ bdisk = [p \in Procs |-> 0]
  /\ data = [p \in Procs |-> 0]
  /\ disk = [p \in Procs |-> 0]
  /\ want = [p \in Procs |-> 0]
  /\ seen = 0 /\ busy = {}
  /\ pending = FALSE /\ panic = FALSE

\* A uint16 counter.
Inc(i) == (i + 1) % IdxMod
Wakeup(c, s) == [p \in Procs |-> IF s[p] = c THEN "no" ELSE s[p]]
Runs(p, l) == pc[p] = l /\ asleep[p] = "no" /\ lk = None /\ ~panic

\* alloc_desc(): the first free descriptor of a set.
First(s) == CHOOSE d \in s : \A e \in s : d <= e

\* bread() or bwrite() calls virtio_disk_rw(); a writer has changed its
\* buffer, a reader's buffer holds anything.
Request(p, w, v) ==
  /\ pc[p] = "idle" /\ ~panic
  /\ pc' = [pc EXCEPT ![p] = "alloc"]
  /\ write' = [write EXCEPT ![p] = w]
  /\ data' = [data EXCEPT ![p] = v]
  /\ want' = [want EXCEPT ![p] = IF w THEN v ELSE disk[p]]
  /\ UNCHANGED <<driver, device, idx, asleep, lk, bdisk, disk, pending, panic>>

\* The ring entry is forgotten.
AvailRingForgotten(h) == ring' = ring

\* disk.avail->ring[disk.avail->idx % NUM] = idx[0].
AvailRing(h) == ring' = [ring EXCEPT ![avail % NUM] = h]

\* The command header with the direction the wrong way round.
HeaderSwapped(p) == [write |-> ~write[p], block |-> p]

\* buf0: VIRTIO_BLK_T_OUT or VIRTIO_BLK_T_IN, and the sector.
Header(p) == [write |-> write[p], block |-> p]

\* alloc3_desc() finds three descriptors: format the chain, fill the ring.
Alloc(p) ==
  LET h == First(free)
      d1 == First(free \ {h})
      d2 == First(free \ {h, d1}) IN
  /\ Runs(p, "alloc") /\ Cardinality(free) >= 3
  /\ lk' = p
  /\ free' = free \ {h, d1, d2}
  /\ ops' = [ops EXCEPT ![h] = Header(p)]
  /\ desc' = [desc EXCEPT ![h] = [addr |-> <<"ops", h>>, next |-> d1],
                          ![d1] = [addr |-> <<"data", p>>, next |-> d2],
                          ![d2] = [addr |-> <<"status", h>>, next |-> None]]
  /\ info' = [info EXCEPT ![h] = [b |-> p, status |-> 255]]
  /\ bdisk' = [bdisk EXCEPT ![p] = 1]
  /\ AvailRing(h)
  /\ idx' = [idx EXCEPT ![p] = h]
  /\ pc' = [pc EXCEPT ![p] = "publish"]
  /\ UNCHANGED <<avail, usedIdx, device, write, asleep, data, disk, want, pending, panic>>

\* alloc3_desc() fails: the one or two it got are freed, with a wakeup() for
\* the others, and the process sleeps.
AllocFails(p) ==
  /\ Runs(p, "alloc") /\ Cardinality(free) < 3
  /\ asleep' = [(IF free = {} THEN asleep ELSE Wakeup("free", asleep)) EXCEPT ![p] = "free"]
  /\ UNCHANGED <<driver, device, pc, idx, write, lk, bdisk, data, disk, want, pending, panic>>

\* disk.avail->idx += 1 and the notification; then sleep(b, &vdisk_lock).
Publish(p) ==
  /\ pc[p] = "publish" /\ lk = p
  /\ avail' = Inc(avail)
  /\ lk' = None
  /\ pc' = [pc EXCEPT ![p] = "wait"]
  /\ asleep' = [asleep EXCEPT ![p] = "buf"]
  /\ UNCHANGED <<free, desc, ops, info, ring, usedIdx, device, idx, write, bdisk, data, disk,
                 want, pending, panic>>

\* The descriptors of a chain, by the next fields.
Chain(h) ==
  {h, desc[h].next, desc[desc[h].next].next}

\* free_chain() frees the head only.
FreeHead(h) == {h}

\* free_chain(): the descriptors it frees.
FreeChain(h) == Chain(h)

\* free_desc() without its wakeup().
FreeQuietly(s) == s

\* free_desc(): wakeup(&disk.free[0]).
FreeWakes(s) == Wakeup("free", s)

\* The loop on b->disk: sleep again, or free the chain and return.
Wait(p) ==
  LET h == idx[p] IN
  /\ Runs(p, "wait")
  /\ IF bdisk[p] = 1
     THEN /\ asleep' = [asleep EXCEPT ![p] = "buf"]
          /\ UNCHANGED <<free, desc, info, pc, idx, panic>>
     ELSE /\ free' = free \cup FreeChain(h)
          /\ desc' = [d \in Desc |-> IF d \in FreeChain(h) THEN Unused ELSE desc[d]]
          /\ info' = [info EXCEPT ![h].b = None]
          /\ asleep' = FreeWakes(asleep)
          /\ pc' = [pc EXCEPT ![p] = "idle"]
          /\ idx' = [idx EXCEPT ![p] = None]
          /\ panic' = (FreeChain(h) \cap free # {})
  /\ UNCHANGED <<ops, ring, avail, usedIdx, device, write, lk, bdisk, data, disk, want, pending>>

\* Device: take the next chain of the available ring.
DeviceTake ==
  /\ seen # avail /\ ~panic
  /\ busy' = busy \cup {ring[seen % NUM]}
  /\ seen' = Inc(seen)
  /\ UNCHANGED <<driver, procs, usedRing, used, lk, bdisk, data, disk, want, pending, panic>>

\* Device: transfer, write the status, add the chain to the used ring, and
\* raise the interrupt.
DeviceComplete(h) ==
  LET op == ops[desc[h].addr[2]]
      buf == desc[desc[h].next].addr[2]
      st == desc[desc[desc[h].next].next].addr[2] IN
  /\ h \in busy /\ ~panic
  /\ IF op.write THEN disk' = [disk EXCEPT ![op.block] = data[buf]] /\ UNCHANGED data
     ELSE data' = [data EXCEPT ![buf] = disk[op.block]] /\ UNCHANGED disk
  /\ info' = [info EXCEPT ![st].status = 0]
  /\ usedRing' = [usedRing EXCEPT ![used % NUM] = h]
  /\ used' = Inc(used)
  /\ busy' = busy \ {h}
  /\ pending' = TRUE
  /\ UNCHANGED <<free, desc, ops, ring, avail, usedIdx, procs, seen, lk, bdisk, want, panic>>

\* virtio_disk_intr(): acquire(), and the interrupt is acknowledged.
IntrStart ==
  /\ pending /\ lk = None /\ ~panic
  /\ lk' = Intr
  /\ pending' = FALSE
  /\ UNCHANGED <<driver, procs, device, bdisk, data, disk, want, panic>>

\* An off-by-one in the used ring.
UsedIdNext == usedRing[Inc(usedIdx) % NUM]

\* The next used entry.
UsedId == usedRing[usedIdx % NUM]

\* The handler forgets used_idx += 1.
IntrOneStays ==
  LET id == UsedId
      b == info[id].b IN
  /\ lk = Intr /\ usedIdx # used /\ ~panic
  /\ panic' = (info[id].status # 0 \/ b = None)
  /\ bdisk' = [p \in Procs |-> IF p = b THEN 0 ELSE bdisk[p]]
  /\ asleep' = [p \in Procs |-> IF p = b /\ asleep[p] = "buf" THEN "no" ELSE asleep[p]]
  /\ UNCHANGED <<driver, device, pc, idx, write, lk, data, disk, want, pending>>

\* One used entry: b->disk = 0, wakeup(b), used_idx += 1.
IntrOne ==
  LET id == UsedId
      b == info[id].b IN
  /\ lk = Intr /\ usedIdx # used /\ ~panic
  /\ panic' = (info[id].status # 0 \/ b = None)
  /\ bdisk' = [p \in Procs |-> IF p = b THEN 0 ELSE bdisk[p]]
  /\ asleep' = [p \in Procs |-> IF p = b /\ asleep[p] = "buf" THEN "no" ELSE asleep[p]]
  /\ usedIdx' = Inc(usedIdx)
  /\ UNCHANGED <<free, desc, ops, info, ring, avail, device, pc, idx, write, lk, data, disk, want,
                 pending>>

\* used_idx has caught up: release().
IntrEnd ==
  /\ lk = Intr /\ usedIdx = used /\ ~panic
  /\ lk' = None
  /\ UNCHANGED <<driver, procs, device, bdisk, data, disk, want, pending, panic>>

Advance(p) == Alloc(p) \/ AllocFails(p) \/ Publish(p) \/ Wait(p)

Next ==
  \/ \E p \in Procs :
       \/ Advance(p)
       \/ \E w \in BOOLEAN, v \in {0, 1} : Request(p, w, v)
  \/ DeviceTake
  \/ \E h \in Desc : DeviceComplete(h)
  \/ IntrStart \/ IntrOne \/ IntrEnd

Spec == Init /\ [][Next]_vars

\* Processes are scheduled again and again and get the lock again and again;
\* the device and the interrupt handler go on.
Fairness ==
  /\ \A p \in Procs : SF_vars(Advance(p))
  /\ WF_vars(DeviceTake)
  /\ \A h \in Desc : WF_vars(DeviceComplete(h))
  /\ SF_vars(IntrStart) /\ WF_vars(IntrOne) /\ WF_vars(IntrEnd)

-----------------------------------------------------------------------------
(* Properties *)

TypeOK ==
  /\ free \subseteq Desc /\ busy \subseteq Desc
  /\ {avail, used, usedIdx, seen} \subseteq 0..IdxMod - 1
  /\ lk \in Procs \cup {None, Intr}
  /\ bdisk \in [Procs -> {0, 1}]

\* The process has a chain of descriptors.
Submitted(p) == pc[p] \in {"publish", "wait"}

\* alloc3_desc() and free_chain() lose no descriptor and share none: each is
\* free or in the chain of one request.
DescriptorsAccounted ==
  /\ Cardinality(free) + 3 * Cardinality({p \in Procs : Submitted(p)}) = NUM
  /\ \A p \in Procs : Submitted(p) => Chain(idx[p]) \cap free = {}
  /\ \A p, q \in Procs :
       Submitted(p) /\ Submitted(q) /\ p # q => Chain(idx[p]) \cap Chain(idx[q]) = {}

\* The indices from i up to j, modulo IdxMod.
Between(i, j) == {(i + k) % IdxMod : k \in 0..((j - i) % IdxMod) - 1}

\* Chains the driver has published and the interrupt handler has not seen
\* completed.
Outstanding ==
  {ring[k % NUM] : k \in Between(seen, avail)} \cup busy
    \cup {usedRing[k % NUM] : k \in Between(usedIdx, used)}

\* Until the handler has seen the completion, the chain belongs to a process
\* that waits with b->disk set: the device works on no buffer and no
\* descriptor that was given back.
DeviceOwnsChain ==
  \A h \in Outstanding :
    \E p \in Procs : pc[p] = "wait" /\ idx[p] = h /\ info[h].b = p /\ bdisk[p] = 1

\* When virtio_disk_rw() is about to return, its transfer has been done, into
\* or from its own buffer.
TransferDone ==
  \A p \in Procs :
    pc[p] = "wait" /\ bdisk[p] = 0 => data[p] = want[p] /\ disk[p] = want[p]

\* Nobody sleeps for descriptors while three are free, or for a buffer the
\* disk is done with: no wakeup() is missing.
SleepersHaveReason ==
  \A p \in Procs :
    /\ asleep[p] = "free" => Cardinality(free) < 3
    /\ asleep[p] = "buf" => bdisk[p] = 1

\* The panics of free_desc() and virtio_disk_intr() are not reached.
NoPanic == ~panic
=============================================================================
