----------------------------- MODULE ByteQueue ------------------------------
(***************************************************************************)
(* What a pipe promises: a bounded first-in first-out queue of bytes with  *)
(* a reading and a writing side, each of which is closed once.             *)
(***************************************************************************)
EXTENDS Integers, Sequences

CONSTANTS Bytes, Capacity

VARIABLES
  q,       \* the bytes written and not yet read, oldest first
  ropen,   \* whether the reading side is open
  wopen    \* whether the writing side is open

qvars == <<q, ropen, wopen>>

Init == q = <<>> /\ ropen = TRUE /\ wopen = TRUE

Put(d) ==
  /\ ropen /\ wopen
  /\ Len(q) < Capacity
  /\ q' = Append(q, d)
  /\ UNCHANGED <<ropen, wopen>>

Get ==
  /\ ropen
  /\ q # <<>>
  /\ q' = Tail(q)
  /\ UNCHANGED <<ropen, wopen>>

CloseRead == ropen /\ ropen' = FALSE /\ UNCHANGED <<q, wopen>>

CloseWrite == wopen /\ wopen' = FALSE /\ UNCHANGED <<q, ropen>>

Next == (\E d \in Bytes : Put(d)) \/ Get \/ CloseRead \/ CloseWrite

Spec == Init /\ [][Next]_qvars
=============================================================================
