------------------------------ MODULE Console -------------------------------
(***************************************************************************)
(* Console input, kernel/console.c: consoleintr() edits the line being     *)
(* typed and commits it, consoleread() hands committed characters to       *)
(* several readers.  The three indices are free-running unsigned counters. *)
(*                                                                         *)
(* consoleintr() runs under cons.lock as one step; consoleread() is a step *)
(* per character, with cons.lock held from one to the next.                *)
(***************************************************************************)
EXTENDS Integers, Sequences

CONSTANTS
  Readers,         \* processes that read the console
  INPUT_BUF_SIZE,
  Mod,             \* the counters are integers modulo this, 2^32 in the code
  MaxN,            \* largest n of a read
  None

ConsoleAssumption ==
  /\ INPUT_BUF_SIZE \in Nat \ {0} /\ Mod \in Nat
  /\ Mod % INPUT_BUF_SIZE = 0 /\ Mod > INPUT_BUF_SIZE
  /\ None \notin Readers

\* The characters stored: any one, a newline, and ^D.
Chars == {"x", "nl", "eof"}

VARIABLES
  buf,     \* cons.buf
  r, w, e, \* cons.r, cons.w, cons.e
  lk,      \* holder of cons.lock
  pc,      \* "idle", "read", "doze" (about to sleep) or "sleep"
  target,  \* bytes asked for
  n,       \* bytes still to be read
  got,     \* bytes copied to the reader by this call
  killed   \* p->killed

vars == <<buf, r, w, e, lk, pc, target, n, got, killed>>

Init ==
  /\ buf = [i \in 0..INPUT_BUF_SIZE - 1 |-> "x"]
  /\ r = 0 /\ w = 0 /\ e = 0
  /\ lk = None
  /\ pc = [p \in Readers |-> "idle"]
  /\ target = [p \in Readers |-> 0]
  /\ n = [p \in Readers |-> 0]
  /\ got = [p \in Readers |-> <<>>]
  /\ killed = [p \in Readers |-> FALSE]

\* Unsigned arithmetic.
Plus(i, k) == (i + k) % Mod
Minus(i, j) == (i - j) % Mod
At(i) == buf[i % INPUT_BUF_SIZE]

-----------------------------------------------------------------------------
(* consoleintr() *)

\* The buffer is taken for full only when the typed line alone fills it.
FullOfTyped == Minus(e, w) >= INPUT_BUF_SIZE

\* cons.e-cons.r < INPUT_BUF_SIZE fails.
Full == Minus(e, r) >= INPUT_BUF_SIZE

\* The line is complete, or the buffer is full with this character.
Commits(c) == c \in {"nl", "eof"} \/ Minus(Plus(e, 1), r) = INPUT_BUF_SIZE

\* A committed line that wakes nobody.
WakeupNobody == UNCHANGED pc

\* wakeup(&cons.r).
WakeupReaders == pc' = [p \in Readers |-> IF pc[p] = "sleep" THEN "read" ELSE pc[p]]

\* (c == '\r') ? '\n' : c.
Translate(k) == IF k = "cr" THEN "nl" ELSE k

\* An ordinary character: stored unless there is no room.
Store(k) ==
  LET c == Translate(k) IN
  /\ lk = None /\ ~Full
  /\ buf' = [buf EXCEPT ![e % INPUT_BUF_SIZE] = c]
  /\ e' = Plus(e, 1)
  /\ IF Commits(c) THEN w' = Plus(e, 1) /\ WakeupReaders
     ELSE UNCHANGED <<w, pc>>
  /\ UNCHANGED <<r, lk, target, n, got, killed>>

\* Control-U goes back to the last newline, committed or not.
KillLineCommitted ==
  /\ lk = None
  /\ \E k \in 0..Minus(e, r) :
       /\ \A j \in 1..k : At(Minus(e, j)) # "nl"
       /\ k = Minus(e, r) \/ At(Minus(e, k + 1)) = "nl"
       /\ e' = Minus(e, k)
  /\ UNCHANGED <<buf, r, w, lk, pc, target, n, got, killed>>

\* Control-U: take back characters up to cons.w or a newline.
KillLine ==
  /\ lk = None
  /\ \E k \in 0..Minus(e, w) :
       /\ \A j \in 1..k : At(Minus(e, j)) # "nl"
       /\ k = Minus(e, w) \/ At(Minus(e, k + 1)) = "nl"
       /\ e' = Minus(e, k)
  /\ UNCHANGED <<buf, r, w, lk, pc, target, n, got, killed>>

\* Control-H and Delete.
Delete ==
  /\ lk = None /\ e # w
  /\ e' = Minus(e, 1)
  /\ UNCHANGED <<buf, r, w, lk, pc, target, n, got, killed>>

Consoleintr == (\E k \in Chars \cup {"cr"} : Store(k)) \/ KillLine \/ Delete

-----------------------------------------------------------------------------
(* consoleread() *)

Consoleread(p, k) ==
  /\ pc[p] = "idle" /\ ~killed[p]
  /\ pc' = [pc EXCEPT ![p] = "read"]
  /\ target' = [target EXCEPT ![p] = k]
  /\ n' = [n EXCEPT ![p] = k]
  /\ got' = [got EXCEPT ![p] = <<>>]
  /\ UNCHANGED <<buf, r, w, e, lk, killed>>

InLoop(p) == pc[p] = "read" /\ lk \in {None, p}

Return(p) ==
  /\ pc' = [pc EXCEPT ![p] = "idle"]
  /\ lk' = None

\* The end of the loop.
ReadDone(p) ==
  /\ InLoop(p) /\ n[p] = 0
  /\ Return(p)
  /\ UNCHANGED <<buf, r, w, e, target, n, got, killed>>

\* No input: a killed process returns -1, another one goes on to sleep().
ReadWait(p) ==
  /\ InLoop(p) /\ n[p] > 0 /\ r = w
  /\ IF killed[p] THEN Return(p)
     ELSE lk' = p /\ pc' = [pc EXCEPT ![p] = "doze"]
  /\ UNCHANGED <<buf, r, w, e, target, n, got, killed>>

\* sleep(&cons.r, &cons.lock).
ReadSleep(p) ==
  /\ pc[p] = "doze"
  /\ lk' = None
  /\ pc' = [pc EXCEPT ![p] = "sleep"]
  /\ UNCHANGED <<buf, r, w, e, target, n, got, killed>>

\* End of file, always consumed.
ReadEofConsumed(p) ==
  /\ InLoop(p) /\ n[p] > 0 /\ r # w /\ At(r) = "eof"
  /\ r' = Plus(r, 1)
  /\ Return(p)
  /\ UNCHANGED <<buf, w, e, target, n, got, killed>>

\* End of file: consumed by a read that has nothing else, kept for the next
\* read otherwise.
ReadEof(p) ==
  /\ InLoop(p) /\ n[p] > 0 /\ r # w /\ At(r) = "eof"
  /\ r' = IF n[p] < target[p] THEN r ELSE Plus(r, 1)
  /\ Return(p)
  /\ UNCHANGED <<buf, w, e, target, n, got, killed>>

\* The loop goes on after a newline.
EndsNever(c) == FALSE

\* A whole line has arrived.
EndsLine(c) == c = "nl"

\* One character; either_copyout() may fail, which ends the read.
ReadChar(p) ==
  LET c == At(r) IN
  /\ InLoop(p) /\ n[p] > 0 /\ r # w /\ c # "eof"
  /\ r' = Plus(r, 1)
  /\ \/ /\ got' = [got EXCEPT ![p] = Append(@, c)]
        /\ n' = [n EXCEPT ![p] = @ - 1]
        /\ IF EndsLine(c) THEN Return(p) ELSE lk' = p /\ UNCHANGED pc
     \/ UNCHANGED <<got, n>> /\ Return(p)
  /\ UNCHANGED <<buf, w, e, target, killed>>

\* kill(), which wakes a sleeper.
Kill(p) ==
  /\ pc[p] # "idle" /\ ~killed[p]
  /\ killed' = [killed EXCEPT ![p] = TRUE]
  /\ pc' = [pc EXCEPT ![p] = IF @ = "sleep" THEN "read" ELSE @]
  /\ UNCHANGED <<buf, r, w, e, lk, target, n, got>>

Next ==
  \/ Consoleintr
  \/ \E p \in Readers :
       \/ ReadDone(p) \/ ReadWait(p) \/ ReadSleep(p) \/ ReadEof(p) \/ ReadChar(p) \/ Kill(p)
       \/ \E k \in 0..MaxN : Consoleread(p, k)

Spec == Init /\ [][Next]_vars

-----------------------------------------------------------------------------
(* Properties *)

TypeOK ==
  /\ buf \in [0..INPUT_BUF_SIZE - 1 -> Chars]
  /\ {r, w, e} \subseteq 0..Mod - 1
  /\ lk \in Readers \cup {None}
  /\ pc \in [Readers -> {"idle", "read", "doze", "sleep"}]
  /\ n \in [Readers -> 0..MaxN] /\ target \in [Readers -> 0..MaxN]
  /\ got \in [Readers -> Seq({"x", "nl"})]

\* The indices stay in order, at most a buffer apart: neither typing ahead
\* nor the ^D that consoleread() puts back overwrites or uncovers anything.
IndicesInOrder ==
  /\ Minus(w, r) <= Minus(e, r)
  /\ Minus(e, r) <= INPUT_BUF_SIZE

\* A full buffer is readable: consoleintr() commits a line too long for it,
\* so typing and reading never wait for each other.
FullIsReadable == Minus(e, r) = INPUT_BUF_SIZE => w = e

\* The committed characters, oldest first.
Committed == [k \in 1..Minus(w, r) |-> At(Plus(r, k - 1))]

\* No key changes committed input, and a reader takes it from the front, a
\* character at a time, into its own buffer.
CommittedStep ==
  \/ /\ Len(Committed') >= Len(Committed)
     /\ SubSeq(Committed', 1, Len(Committed)) = Committed
  \/ /\ Committed # <<>> /\ Committed' = Tail(Committed)
     /\ \E p \in Readers :
          \/ got'[p] = Append(got[p], Head(Committed))
          \/ pc[p] = "read" /\ pc'[p] = "idle"

\* Nobody sleeps while there is committed input: consoleintr() wakes every
\* reader, and the one that finds nothing left sleeps again.
SleepsOnlyWithoutInput == \A p \in Readers : pc[p] = "sleep" => r = w

\* A read returns at most one line: a newline can only be its last byte.
OneLinePerRead ==
  \A p \in Readers : \A k \in DOMAIN got[p] : got[p][k] = "nl" => k = Len(got[p])

\* "Save ^D for next time, to make sure caller gets a 0-byte result": the
\* step that consumes an end of file is one that returns no bytes.
EofStep ==
  \A p \in Readers : Committed # <<>> /\ Head(Committed) = "eof" /\ r' # r
       /\ pc[p] = "read" /\ pc'[p] = "idle" => got[p] = <<>>
=============================================================================
