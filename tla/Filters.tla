------------------------------ MODULE Filters -------------------------------
(***************************************************************************)
(* user/cat.c, user/wc.c, user/tee.c and user/grep.c: programs that read   *)
(* their input in pieces of whatever size read() returns, and the regular  *)
(* expressions of grep.                                                    *)
(*                                                                         *)
(* A file is a sequence of characters: letters, "n" for the newline, a     *)
(* blank and NUL.  read() returns any number of bytes from 1 to what there *)
(* is and fits, 0 at the end, or fails; MaxFails bounds the failures of    *)
(* read() and of cat's write().                                            *)
(***************************************************************************)
EXTENDS Integers, Sequences, FiniteSets, SequencesExt

CONSTANTS
  BufSize,    \* sizeof(buf)
  Commands,   \* programs with the files they read, the standard input or arguments
  MaxFails

NL == "n"
NUL == "0"
Blank == {" ", NL}
Missing == <<"missing">>

-----------------------------------------------------------------------------
(* Regular expressions: NUL stands behind the end of re and text. *)

Ch(s, i) == IF i \in DOMAIN s THEN s[i] ELSE NUL

\* "." does not stand for any character in front of "*".
StarTakesLetter(c, x) == x # NUL /\ x = c

\* c* goes on over x.
StarTakes(c, x) == x # NUL /\ (x = c \/ c = ".")

RECURSIVE matchhere(_, _, _, _), matchstar(_, _, _, _, _)
matchhere(re, r, text, t) ==
  IF Ch(re, r) = NUL THEN TRUE
  ELSE IF Ch(re, r + 1) = "*" THEN matchstar(Ch(re, r), re, r + 2, text, t)
  ELSE IF Ch(re, r) = "$" /\ Ch(re, r + 1) = NUL THEN Ch(text, t) = NUL
  ELSE /\ Ch(text, t) # NUL /\ (Ch(re, r) = "." \/ Ch(re, r) = Ch(text, t))
       /\ matchhere(re, r + 1, text, t + 1)
matchstar(c, re, r, text, t) ==
  matchhere(re, r, text, t) \/ (StarTakes(c, Ch(text, t)) /\ matchstar(c, re, r, text, t + 1))

match(re, text) ==
  IF Ch(re, 1) = "^" THEN matchhere(re, 2, text, 1)
  ELSE \E t \in 1..(Len(text) + 1) : matchhere(re, 1, text, t)

\* Reference: the pattern is a sequence of items, each a character with or
\* without a star, and matches where the text can be cut into pieces for them.
RECURSIVE Items(_)
Items(re) ==
  IF re = <<>> \/ re = <<"$">> THEN <<>>
  ELSE IF Len(re) > 1 /\ re[2] = "*" THEN << <<re[1], TRUE>> >> \o Items(SubSeq(re, 3, Len(re)))
  ELSE << <<re[1], FALSE>> >> \o Items(Tail(re))
Anchored(re) == re # <<>> /\ re[1] = "^"
Body(re) == IF Anchored(re) THEN Tail(re) ELSE re
\* The last item is "$", without a star.
RECURSIVE ToEnd(_)
ToEnd(re) == re = <<"$">> \/ (Len(re) > 1 /\ ToEnd(IF re[2] = "*" THEN SubSeq(re, 3, Len(re)) ELSE Tail(re)))
Piece(item, x) == (\A i \in DOMAIN x : item[1] \in {".", x[i]}) /\ (item[2] \/ Len(x) = 1)
Matches(re, text) ==
  LET is == Items(Body(re)) IN
  \E cut \in [0..Len(is) -> 0..Len(text)] :
    /\ \A k \in DOMAIN is : cut[k - 1] <= cut[k] /\ Piece(is[k], SubSeq(text, cut[k - 1] + 1, cut[k]))
    /\ Anchored(re) => cut[0] = 0
    /\ ToEnd(Body(re)) => cut[Len(is)] = Len(text)

-----------------------------------------------------------------------------
(* The programs *)

VARIABLES
  prog,     \* "cat", "wc", "tee" or a pattern of grep
  args,     \* the files of the command line
  f,        \* which of them is read
  pos,      \* offset in it
  buf,      \* what grep keeps, the counters of wc
  out,      \* what has been written, to standard output
  file,     \* and by tee to its file
  res,      \* "run", or the exit status
  fails

vars == <<prog, args, f, pos, buf, out, file, res, fails>>

Fresh(p) == IF p = <<"wc">> THEN <<0, 0, 0, FALSE>> ELSE <<>>

Init ==
  /\ \E c \in Commands : prog = c[1] /\ args = c[2]
  /\ f = 1 /\ pos = 0 /\ buf = Fresh(prog) /\ out = <<>> /\ file = <<>> /\ res = "run" /\ fails = 0

Left == SubSeq(args[f], pos + 1, Len(args[f]))

\* The buffer may be filled to its last byte.
RoomWhole == IF prog[1] = "grep" THEN BufSize - Len(buf) ELSE BufSize

\* sizeof(buf)-m-1 for grep.
Room == IF prog[1] = "grep" THEN BufSize - Len(buf) - 1 ELSE BufSize

\* inword is reset for every piece.
CountedAfresh(c, x) == FoldLeft(LAMBDA s, ch : <<s[1] + (IF ch = NL THEN 1 ELSE 0), s[2] + (IF ch \notin Blank /\ ~s[4] THEN 1 ELSE 0), s[3] + 1, ch \notin Blank>>, [c EXCEPT ![4] = FALSE], x)

\* wc: l, w, c and inword.
Counted(c, x) ==
  FoldLeft(LAMBDA s, ch : <<s[1] + (IF ch = NL THEN 1 ELSE 0), s[2] + (IF ch \notin Blank /\ ~s[4] THEN 1 ELSE 0),
                            s[3] + 1, ch \notin Blank>>, c, x)

\* The newlines that strchr() finds from p on: it stops at a NUL.
Newlines(x) == SetToSortSeq({i \in DOMAIN x : x[i] = NL /\ \A j \in 1..i : x[j] # NUL}, <)
LineStart(nl, k) == IF k = 1 THEN 1 ELSE nl[k - 1] + 1

\* The lines in x that match, with their newlines.
Selected(re, x) ==
  LET nl == Newlines(x)
      ln(k) == SubSeq(x, LineStart(nl, k), nl[k]) IN
  FlattenSeq([k \in DOMAIN nl |-> IF match(re, Front(ln(k))) THEN ln(k) ELSE <<>>])

\* What stays in the buffer: behind the last of them.
Kept(x) == IF Newlines(x) = <<>> THEN x ELSE SubSeq(x, Last(Newlines(x)) + 1, Len(x))

\* read() returns x.
Read ==
  /\ res = "run" /\ f <= Len(args) /\ args[f] # Missing
  /\ \E n \in 1..(IF Len(Left) < Room THEN Len(Left) ELSE Room) :
     \E x \in {SubSeq(Left, 1, n)} :
       /\ pos' = pos + n
       /\ CASE prog[1] = "cat" -> out' = out \o x /\ UNCHANGED <<buf, file>>
            [] prog[1] = "tee" -> out' = out \o x /\ file' = file \o x /\ UNCHANGED buf
            [] prog[1] = "wc" -> buf' = Counted(buf, x) /\ UNCHANGED <<out, file>>
            [] prog[1] = "grep" -> out' = out \o Selected(prog[2], buf \o x) /\ buf' = Kept(buf \o x) /\ UNCHANGED file
  /\ UNCHANGED <<prog, args, f, res, fails>>

\* wc prints its counters at the end of a file, and then starts anew.
NextFile == /\ f' = f + 1 /\ pos' = 0 /\ buf' = Fresh(prog)
            /\ out' = IF prog[1] = "wc" THEN Append(out, SubSeq(buf, 1, 3)) ELSE out

\* read() returns 0, at the end or because grep has no room left.
Eof ==
  /\ res = "run" /\ f <= Len(args) /\ args[f] # Missing
  /\ Left = <<>> \/ Room = 0
  /\ NextFile
  /\ UNCHANGED <<prog, args, file, res, fails>>

\* read() fails: cat and wc give up, grep and tee take it for the end.
ReadFails ==
  /\ res = "run" /\ f <= Len(args) /\ args[f] # Missing /\ fails < MaxFails
  /\ fails' = fails + 1
  /\ IF prog[1] \in {"cat", "wc"} THEN res' = "1" /\ UNCHANGED <<f, pos, buf, out>> ELSE NextFile /\ UNCHANGED res
  /\ UNCHANGED <<prog, args, file>>

\* cat writes less than it has read, and gives up.
WriteFails ==
  /\ res = "run" /\ f <= Len(args) /\ prog = <<"cat">> /\ args[f] # Missing /\ fails < MaxFails
  /\ \E n \in 0..(IF Len(Left) < Room THEN Len(Left) - 1 ELSE Room - 1) :
       out' = out \o SubSeq(Left, 1, n)
  /\ fails' = fails + 1 /\ res' = "1"
  /\ UNCHANGED <<prog, args, f, pos, buf, file>>

\* open() fails.
Open == /\ res = "run" /\ f <= Len(args) /\ args[f] = Missing /\ res' = "1"
        /\ UNCHANGED <<prog, args, f, pos, buf, out, file, fails>>

Done == /\ res = "run" /\ f > Len(args) /\ res' = "0"
        /\ UNCHANGED <<prog, args, f, pos, buf, out, file, fails>>

Next == Read \/ Eof \/ ReadFails \/ WriteFails \/ Open \/ Done
Spec == Init /\ [][Next]_vars

-----------------------------------------------------------------------------
(* What they should print *)

Words(x) == {i \in DOMAIN x : x[i] \notin Blank /\ (i = 1 \/ x[i - 1] \in Blank)}
Count(x) == <<Len(SelectSeq(x, LAMBDA ch : ch = NL)), Cardinality(Words(x)), Len(x)>>

\* The whole lines of x that grep handles: up to the first that has a NUL or
\* does not fit its buffer.
Ends(x) == SetToSortSeq({i \in DOMAIN x : x[i] = NL}, <)
LineOf(x, k) == SubSeq(x, LineStart(Ends(x), k), Ends(x)[k])
Handled(x) == {k \in DOMAIN Ends(x) : \A j \in 1..k : Len(LineOf(x, j)) < BufSize /\ NUL \notin Range(LineOf(x, j))}
Grepped(re, x) ==
  LET ks == SetToSortSeq({k \in Handled(x) : Matches(re, Front(LineOf(x, k)))}, <) IN
  FlattenSeq([i \in DOMAIN ks |-> LineOf(x, ks[i])])

OutputFor(x) == CASE prog[1] \in {"cat", "tee"} -> x
                  [] prog[1] = "wc" -> <<Count(x)>>
                  [] prog[1] = "grep" -> Grepped(prog[2], x)

\* However read() cuts the input into pieces, the output is that of the files as
\* a whole, up to the first that cannot be opened; and of part of it if a call
\* fails.  tee's file has what its output has.
OutputIsRight ==
  LET whole == FlattenSeq([i \in 1..(IF f <= Len(args) THEN f - 1 ELSE Len(args)) |-> OutputFor(args[i])]) IN
  /\ f > Len(args) \/ res = "1" => \/ fails = 0 /\ out = whole
                                   \/ fails > 0
  /\ fails = 0 => IsPrefix(whole, out)
  /\ fails > 0 /\ prog[1] \in {"cat", "tee"} => IsPrefix(out, FlattenSeq(args))
  /\ prog = <<"tee">> => file = out
=============================================================================
