------------------------------- MODULE Uart ---------------------------------
(***************************************************************************)
(* Console output, kernel/uart.c: uartputc() with its ring buffer, the     *)
(* loop of uartstart() in writers and in the interrupt handler, and        *)
(* uartputc_sync(), which kernel printf() and the echo of input use on     *)
(* other CPUs.  uartinit() enables the UART's FIFO, so THR takes FIFO_SIZE *)
(* characters; LSR_TX_IDLE is set, and an interrupt raised, when it has    *)
(* none left.                                                              *)
(*                                                                         *)
(* Reading LSR and writing THR are separate steps of uartstart() and of    *)
(* uartputc_sync(): the latter does not take uart_tx_lock.                 *)
(***************************************************************************)
EXTENDS Integers, Sequences, FiniteSets

CONSTANTS
  Writers,           \* processes that write to the console
  Printers,          \* CPUs that print or echo
  UART_TX_BUF_SIZE,
  FIFO_SIZE,         \* characters the UART holds, 16 for a 16550
  Mod,               \* the counters are integers modulo this, 2^64 in the code
  MaxChars,          \* bound on the number of characters written
  None

UartAssumption ==
  /\ UART_TX_BUF_SIZE \in Nat \ {0} /\ Mod \in Nat
  /\ Mod % UART_TX_BUF_SIZE = 0 /\ Mod > UART_TX_BUF_SIZE
  /\ MaxChars \in Nat
  /\ FIFO_SIZE \in Nat /\ FIFO_SIZE > Cardinality(Printers)

Intr == "intr"

\* A character of printf(); those of the writers are numbered from 1.
Sync == 0

VARIABLES
  buf,       \* uart_tx_buf
  w, r,      \* uart_tx_w, uart_tx_r
  lk,        \* holder of uart_tx_lock
  at,        \* its place in uartstart(): "test" or "send"
  pc,        \* a writer: "idle", "put" or "sleep"
  sync,      \* a printer: "idle" or "write"
  fifo,      \* the characters given to THR and not yet sent
  pending,   \* a transmit interrupt
  accepted,  \* characters put into the ring, in order
  out        \* characters of writers that were transmitted

vars == <<buf, w, r, lk, at, pc, sync, fifo, pending, accepted, out>>

Init ==
  /\ buf = [i \in 0..UART_TX_BUF_SIZE - 1 |-> 0]
  /\ w = 0 /\ r = 0
  /\ lk = None /\ at = "test"
  /\ pc = [p \in Writers |-> "idle"]
  /\ sync = [c \in Printers |-> "idle"]
  /\ fifo = <<>> /\ pending = FALSE
  /\ accepted = <<>> /\ out = <<>>

\* Unsigned arithmetic.
Plus(i, k) == (i + k) % Mod

\* uart_tx_w == uart_tx_r + UART_TX_BUF_SIZE.
Full == w = Plus(r, UART_TX_BUF_SIZE)

\* A character written to a full FIFO is lost.
WriteTHR(c) == fifo' = IF Len(fifo) < FIFO_SIZE THEN Append(fifo, c) ELSE fifo

\* consolewrite() calls uartputc().
Write(p) ==
  /\ pc[p] = "idle" /\ Len(accepted) < MaxChars
  /\ pc' = [pc EXCEPT ![p] = "put"]
  /\ UNCHANGED <<buf, w, r, lk, at, sync, fifo, pending, accepted, out>>

\* uartputc() under the lock: sleep while the ring is full, or add the
\* character and go on to uartstart() with the lock held.
Uartputc(p) ==
  /\ pc[p] = "put" /\ lk = None
  /\ IF Full
     THEN /\ pc' = [pc EXCEPT ![p] = "sleep"]
          /\ UNCHANGED <<buf, w, lk, at, accepted>>
     ELSE /\ Len(accepted) < MaxChars
          /\ buf' = [buf EXCEPT ![w % UART_TX_BUF_SIZE] = Len(accepted) + 1]
          /\ accepted' = Append(accepted, Len(accepted) + 1)
          /\ w' = Plus(w, 1)
          /\ lk' = p /\ at' = "test"
          /\ pc' = [pc EXCEPT ![p] = "idle"]
  /\ UNCHANGED <<r, sync, fifo, pending, out>>

\* uartstart() does not read LSR.
UartstartBlind ==
  /\ lk # None /\ at = "test"
  /\ IF w = r
     THEN lk' = None /\ UNCHANGED at
     ELSE at' = "send" /\ UNCHANGED lk
  /\ UNCHANGED <<buf, w, r, pc, sync, fifo, pending, accepted, out>>

\* uartstart(): return when the ring is empty or THR is full.
UartstartTest ==
  /\ lk # None /\ at = "test"
  /\ IF w = r \/ fifo # <<>>
     THEN lk' = None /\ UNCHANGED at
     ELSE at' = "send" /\ UNCHANGED lk
  /\ UNCHANGED <<buf, w, r, pc, sync, fifo, pending, accepted, out>>

\* uartstart() without wakeup().
WakeupNobody == UNCHANGED pc

\* wakeup(&uart_tx_r).
WakeupWriters == pc' = [p \in Writers |-> IF pc[p] = "sleep" THEN "put" ELSE pc[p]]

\* The next character goes to THR, and the loop goes round.
UartstartSend ==
  /\ lk # None /\ at = "send"
  /\ WriteTHR(buf[r % UART_TX_BUF_SIZE])
  /\ r' = Plus(r, 1)
  /\ WakeupWriters
  /\ at' = "test"
  /\ UNCHANGED <<buf, w, lk, sync, pending, accepted, out>>

\* uartintr() that only looks at input.
UartintrInputOnly ==
  /\ pending /\ lk = None
  /\ pending' = FALSE
  /\ UNCHANGED <<buf, w, r, lk, at, pc, sync, fifo, accepted, out>>

\* uartintr(): acquire() and uartstart().
Uartintr ==
  /\ pending /\ lk = None
  /\ pending' = FALSE
  /\ lk' = Intr /\ at' = "test"
  /\ UNCHANGED <<buf, w, r, pc, sync, fifo, accepted, out>>

\* uartputc_sync(): spin until THR is empty, then write it.
SyncSpin(c) ==
  /\ sync[c] = "idle" /\ fifo = <<>>
  /\ sync' = [sync EXCEPT ![c] = "write"]
  /\ UNCHANGED <<buf, w, r, lk, at, pc, fifo, pending, accepted, out>>

SyncWrite(c) ==
  /\ sync[c] = "write"
  /\ WriteTHR(Sync)
  /\ sync' = [sync EXCEPT ![c] = "idle"]
  /\ UNCHANGED <<buf, w, r, lk, at, pc, pending, accepted, out>>

\* The UART sends a character, and interrupts when it has no more.
Transmit ==
  /\ fifo # <<>>
  /\ out' = IF Head(fifo) = Sync THEN out ELSE Append(out, Head(fifo))
  /\ fifo' = Tail(fifo)
  /\ pending' = (pending \/ fifo' = <<>>)
  /\ UNCHANGED <<buf, w, r, lk, at, pc, sync, accepted>>

Next ==
  \/ \E p \in Writers : Write(p) \/ Uartputc(p)
  \/ UartstartTest \/ UartstartSend \/ Uartintr \/ Transmit
  \/ \E c \in Printers : SyncSpin(c) \/ SyncWrite(c)

Spec == Init /\ [][Next]_vars

\* The UART goes on sending, its interrupt is taken when the lock is free
\* again and again, and a CPU in uartstart() goes on.
Fairness ==
  /\ WF_vars(Transmit) /\ SF_vars(Uartintr)
  /\ WF_vars(UartstartTest) /\ WF_vars(UartstartSend)

-----------------------------------------------------------------------------
(* Properties *)

TypeOK ==
  /\ {w, r} \subseteq 0..Mod - 1
  /\ lk \in Writers \cup {None, Intr} /\ at \in {"test", "send"}
  /\ pc \in [Writers -> {"idle", "put", "sleep"}]
  /\ sync \in [Printers -> {"idle", "write"}]
  /\ fifo \in Seq(0..MaxChars) /\ pending \in BOOLEAN

\* The characters in the ring, oldest first.
Ring == [k \in 1..((w - r) % Mod) |-> buf[(r + k - 1) % UART_TX_BUF_SIZE]]

\* Every character written is transmitted, in the FIFO or in the ring, in the
\* order of the writes: neither a full ring nor a printf() on another CPU,
\* which may write THR between the test and the write of uartstart(), makes
\* one disappear.
CharsInOrder ==
  accepted = out \o SelectSeq(fifo, LAMBDA c : c # Sync) \o Ring

\* A writer sleeps only while the ring is full.
SleepsOnlyWhenFull == \A p \in Writers : pc[p] = "sleep" => Full

\* Output never stalls: when characters wait and nobody is in uartstart(),
\* the UART is busy or its interrupt is on the way.
NotStalled == w # r /\ lk = None => fifo # <<>> \/ pending
=============================================================================
