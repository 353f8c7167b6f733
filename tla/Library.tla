------------------------------ MODULE Library -------------------------------
(***************************************************************************)
(* Byte strings, path elements and formatted output: kernel/string.c,      *)
(* user/ulib.c, skipelem() and namecmp() of kernel/fs.c, and printf() of   *)
(* the kernel and of user/printf.c, each beside a definition of what it    *)
(* should compute.                                                         *)
(*                                                                         *)
(* A character is a small number, 0 is NUL and 1 the slash.  A C string is *)
(* a sequence; Ch() reads its NUL.  Numbers have Bits bits and print with  *)
(* few enough characters for the buffer of printint().                     *)
(***************************************************************************)
EXTENDS Integers, Sequences, SequencesExt

CONSTANTS
  DIRSIZ,
  Bits

Ch(s, i) == IF i \in DOMAIN s THEN s[i] ELSE 0
Upto(n) == [i \in 1..n |-> i]

\* The C string at the start of s.
Str(s) == SubSeq(s, 1, (CHOOSE i \in 1..(Len(s) + 1) : Ch(s, i) = 0 /\ \A j \in 1..(i - 1) : s[j] # 0) - 1)
Trunc(s, n) == SubSeq(s, 1, IF Len(s) < n THEN Len(s) ELSE n)

-----------------------------------------------------------------------------
(* Memory *)

\* memory m after m[d+i] = m[s+i] for the i of a sequence, in that order.
Moved(m, d, s, is) == FoldLeft(LAMBDA x, i : [x EXCEPT ![d + i] = x[s + i]], m, is)

\* Overlap is forgotten.
kmemmove_up(m, d, s, n) == Moved(m, d, s, Upto(n))

\* The kernel's memmove() and the user's.
kmemmove(m, d, s, n) ==
  IF s < d /\ s + n > d THEN Moved(m, d, s, Reverse(Upto(n))) ELSE Moved(m, d, s, Upto(n))
umemmove(m, d, s, n) ==
  IF s > d THEN Moved(m, d, s, Upto(n)) ELSE Moved(m, d, s, Reverse(Upto(n)))

MovesAreCopies(m) ==
  \A d, s \in 0..Len(m) : \A n \in 0..(Len(m) - (IF d > s THEN d ELSE s)) :
    LET copied == [i \in DOMAIN m |-> IF i - d \in 1..n THEN m[s + i - d] ELSE m[i]] IN
    kmemmove(m, d, s, n) = copied /\ umemmove(m, d, s, n) = copied

memset(m, c, n) == FoldLeft(LAMBDA x, i : [x EXCEPT ![i] = c], m, Upto(n))

RECURSIVE memcmp(_, _, _, _)
memcmp(p, q, i, n) == IF i > n THEN 0 ELSE IF p[i] # q[i] THEN p[i] - q[i] ELSE memcmp(p, q, i + 1, n)

-----------------------------------------------------------------------------
(* Strings *)

RECURSIVE strncmp(_, _, _, _), strcmp(_, _, _)
strncmp(p, q, i, n) ==
  IF i <= n /\ Ch(p, i) # 0 /\ Ch(p, i) = Ch(q, i) THEN strncmp(p, q, i + 1, n)
  ELSE IF i > n THEN 0 ELSE Ch(p, i) - Ch(q, i)
strcmp(p, q, i) == IF Ch(p, i) # 0 /\ Ch(p, i) = Ch(q, i) THEN strcmp(p, q, i + 1) ELSE Ch(p, i) - Ch(q, i)

RECURSIVE strlen(_, _)
strlen(s, n) == IF Ch(s, n + 1) # 0 THEN strlen(s, n + 1) ELSE n

\* strncpy() into the n bytes of buffer m: up to and with the NUL, then more of them.
strncpy(m, t, n) == LET k == strlen(t, 0) + 1 IN [i \in DOMAIN m |-> IF i > n THEN m[i] ELSE IF i <= k THEN Ch(t, i) ELSE 0]

\* The last byte is left as it was.
safestrcpy_open(m, t, n) ==
  LET k == strlen(t, 0) IN
  [i \in DOMAIN m |-> IF i > k + 1 \/ i >= n THEN m[i] ELSE IF i = k + 1 THEN 0 ELSE Ch(t, i)]

\* safestrcpy(): at most n - 1 bytes and a NUL.
safestrcpy(m, t, n) ==
  LET k == IF strlen(t, 0) < n - 1 THEN strlen(t, 0) ELSE n - 1 IN
  [i \in DOMAIN m |-> IF n <= 0 \/ i > k + 1 THEN m[i] ELSE IF i = k + 1 THEN 0 ELSE Ch(t, i)]

strchr(s, c) == IF \E i \in 1..strlen(s, 0) : s[i] = c THEN CHOOSE i \in 1..strlen(s, 0) : s[i] = c /\ \A j \in 1..(i - 1) : s[j] # c ELSE 0

Digit(c) == c \in 0..9
RECURSIVE atoi(_, _, _)
atoi(s, i, n) == IF i <= Len(s) /\ Digit(s[i]) THEN atoi(s, i + 1, n * 10 + s[i]) ELSE n

\* The lexicographic order of strings, with the NUL lowest.
Before(p, q) == \E i \in 1..(Len(q) + 1) : Ch(p, i) < Ch(q, i) /\ \A j \in 1..(i - 1) : Ch(p, j) = Ch(q, j)

StringsAreRight(a, b) ==
  LET p == Str(a)
      q == Str(b) IN
  /\ strlen(a, 0) = Len(p)
  /\ (strcmp(a, b, 1) = 0 <=> p = q) /\ (strcmp(a, b, 1) < 0 <=> Before(p, q))
  /\ \A n \in 0..4 :
       /\ strncmp(a, b, 1, n) = 0 <=> Trunc(p, n) = Trunc(q, n)
       /\ strncmp(a, b, 1, n) < 0 <=> Before(Trunc(p, n), Trunc(q, n))
       /\ n <= Len(b) => \* copies stay in their n bytes, hold the string and are padded or terminated
            /\ Str(strncpy(b, a, n)) = (IF Len(p) < n THEN p ELSE Str(Trunc(p, n) \o SubSeq(b, n + 1, Len(b))))
            /\ Len(p) < n => \A i \in (Len(p) + 1)..n : strncpy(b, a, n)[i] = 0
            /\ n > 0 => Str(safestrcpy(b, a, n)) = Trunc(p, n - 1)
            /\ \A f \in {strncpy(b, a, n), safestrcpy(b, a, n), memset(b, 7, n)} : SubSeq(f, n + 1, Len(b)) = SubSeq(b, n + 1, Len(b))
       /\ n <= Len(a) /\ n <= Len(b) => (memcmp(a, b, 1, n) = 0 <=> Trunc(a, n) = Trunc(b, n))
  /\ \A c \in 1..2 : LET k == strchr(a, c) IN IF k = 0 THEN c \notin Range(p) ELSE p[k] = c /\ c \notin Range(SubSeq(p, 1, k - 1))

-----------------------------------------------------------------------------
(* Path elements *)

Slash == 1
NotSlash(path, i) == Ch(path, i) # Slash /\ Ch(path, i) # 0

\* The first place from i on where the loop of skipelem() ends.
ElemStart(path, i) == CHOOSE j \in i..(Len(path) + 1) : Ch(path, j) # Slash /\ \A k \in i..(j - 1) : path[k] = Slash
ElemEnd(path, s) == CHOOSE j \in s..(Len(path) + 1) : ~NotSlash(path, j) /\ \A k \in s..(j - 1) : NotSlash(path, k)

\* name keeps what it had behind a short element.
NamedOpen(name, s, len) == [i \in 1..DIRSIZ |-> IF i <= len THEN s[i] ELSE name[i]]

\* What skipelem() leaves in the DIRSIZ bytes of name.
Named(name, s, len) == [i \in 1..DIRSIZ |-> IF i <= len THEN s[i] ELSE IF i = len + 1 THEN 0 ELSE name[i]]

skipelem(path, i, name) ==
  LET s == ElemStart(path, i)
      e == ElemEnd(path, s) IN
  IF Ch(path, s) = 0 THEN [i |-> 0, name |-> name]
  ELSE [i |-> ElemStart(path, e), name |-> Named(name, SubSeq(path, s, e - 1), e - s)]

namecmp(s, t) == strncmp(s, t, 1, DIRSIZ)

\* The names that the loop of namex() sees.
RECURSIVE Names(_, _, _)
Names(path, i, name) ==
  LET r == skipelem(path, i, name) IN IF r.i = 0 THEN <<>> ELSE <<r.name>> \o Names(path, r.i, r.name)

\* Reference: the maximal runs without a slash.
Elements(path) ==
  LET starts == SetToSortSeq({i \in DOMAIN path : NotSlash(path, i) /\ ~NotSlash(path, i - 1)}, <) IN
  [k \in DOMAIN starts |-> SubSeq(path, starts[k], ElemEnd(path, starts[k]) - 1)]

\* namex() sees the elements of the path, cut to DIRSIZ, and an entry made for
\* one of them by dirlink() is found by exactly the elements that agree so far.
PathsAreRight(p) ==
  LET n == Names(p, 1, [i \in 1..DIRSIZ |-> 2])
      e == Elements(p) IN
  /\ Len(n) = Len(e)
  /\ \A k \in DOMAIN e : Str(n[k]) = Trunc(e[k], DIRSIZ)
  /\ \A k, m \in DOMAIN e :
       namecmp(n[k], strncpy([i \in 1..DIRSIZ |-> 3], n[m], DIRSIZ)) = 0 <=> Trunc(e[k], DIRSIZ) = Trunc(e[m], DIRSIZ)

-----------------------------------------------------------------------------
(* Numbers *)

\* The negation of the smallest number is lost.
MagnitudeSigned(xx, sign) == IF sign /\ xx < 0 THEN (-xx) % 2^(Bits - 1) ELSE xx % 2^Bits

\* x: an unsigned number of Bits bits.
Magnitude(xx, sign) == IF sign /\ xx < 0 THEN (-xx) % 2^Bits ELSE xx % 2^Bits

RECURSIVE DigitsOf(_, _)
DigitsOf(x, base) == (IF x \div base = 0 THEN <<>> ELSE DigitsOf(x \div base, base)) \o <<x % base>>

Minus == -1
printint(xx, base, sign) ==
  (IF sign /\ xx < 0 THEN <<Minus>> ELSE <<>>) \o DigitsOf(Magnitude(xx, sign), base)

\* printptr(): the top digit first, then shifted left.
RECURSIVE printptr(_, _)
printptr(x, i) == IF i = 0 THEN <<>> ELSE <<x \div 2^(Bits - 4)>> \o printptr((x * 16) % 2^Bits, i - 1)

RECURSIVE Value(_, _)
Value(ds, base) == IF ds = <<>> THEN 0 ELSE Value(Front(ds), base) * base + Last(ds)

\* The text of a number has its value, no leading zero, and a sign if it is
\* negative and printed signed; atoi() reads it back; a pointer has all digits.
NumbersAreRight(x) ==
  /\ \A base \in {10, 16} : \A sign \in BOOLEAN :
       LET t == printint(x, base, sign)
           ds == IF t[1] = Minus THEN Tail(t) ELSE t IN
       /\ ds # <<>> /\ (ds[1] = 0 => Len(ds) = 1)
       /\ t[1] = Minus <=> sign /\ x < 0
       /\ IF sign /\ x < 0 THEN Value(ds, base) = -x ELSE Value(ds, base) = x % 2^Bits
  /\ x >= 0 => atoi(printint(x, 10, TRUE), 1, 0) = x
  /\ Len(printptr(x % 2^Bits, Bits \div 4)) = Bits \div 4 /\ Value(printptr(x % 2^Bits, Bits \div 4), 16) = x % 2^Bits

-----------------------------------------------------------------------------
(* Formats: what is printed is a sequence of characters and conversions. *)

Conversions == {<<"d">>, <<"l", "d">>, <<"l", "l", "d">>, <<"u">>, <<"l", "u">>, <<"l", "l", "u">>,
                <<"x">>, <<"l", "x">>, <<"l", "l", "x">>, <<"p">>, <<"s">>}
Fm(f, i) == IF i \in DOMAIN f THEN f[i] ELSE "0"

\* The conversion that c0, c1 and c2 make, and none otherwise.
Conversion(c0, c1, c2) ==
  CASE c0 \in {"d", "u", "x", "p", "s"} -> <<c0>>
    [] c0 = "l" /\ c1 \in {"d", "u", "x"} -> <<c0, c1>>
    [] c0 = "l" /\ c1 = "l" /\ c2 \in {"d", "u", "x"} -> <<c0, c1, c2>>
    [] OTHER -> <<>>

ConversionAt(f, i) == Conversion(Fm(f, i), IF Fm(f, i) = "0" THEN "0" ELSE Fm(f, i + 1), IF Fm(f, i + 1) = "0" THEN "0" ELSE Fm(f, i + 2))
Unknown(c) == IF c = "%" THEN << <<"%">> >> ELSE << <<"%">>, <<c>> >>

\* printf() of the kernel from i on: a "%" at the end prints nothing.
RECURSIVE kprintf(_, _)
kprintf(f, i) ==
  CASE Fm(f, i) = "0" -> <<>>
    [] Fm(f, i) \notin {"0", "%"} -> << <<Fm(f, i)>> >> \o kprintf(f, i + 1)
    [] Fm(f, i) = "%" /\ Fm(f, i + 1) = "0" -> <<>>
    [] OTHER -> IF ConversionAt(f, i + 1) = <<>> THEN Unknown(Fm(f, i + 1)) \o kprintf(f, i + 2)
                ELSE << <<"conv", ConversionAt(f, i + 1)>> >> \o kprintf(f, i + 1 + Len(ConversionAt(f, i + 1)))

\* The state survives a conversion of several letters.
AfterLong(state, c) == IF Len(c) > 1 THEN state ELSE 0

\* state = 0.
After(state, c) == 0

\* vprintf(): state is "%" behind a percent sign.
RECURSIVE vprintf(_, _, _)
vprintf(f, i, state) ==
  IF Fm(f, i) = "0" THEN <<>>
  ELSE IF state = 0
  THEN IF Fm(f, i) = "%" THEN vprintf(f, i + 1, 1) ELSE << <<Fm(f, i)>> >> \o vprintf(f, i + 1, 0)
  ELSE IF ConversionAt(f, i) = <<>> THEN Unknown(Fm(f, i)) \o vprintf(f, i + 1, 0)
  ELSE << <<"conv", ConversionAt(f, i)>> >> \o vprintf(f, i + Len(ConversionAt(f, i)), After(state, ConversionAt(f, i)))

\* Reference: every conversion that follows a "%" is printed as one.
RECURSIVE Printed(_)
Printed(f) ==
  IF f = <<>> \/ f = <<"%">> THEN <<>>
  ELSE IF Head(f) # "%" THEN << <<Head(f)>> >> \o Printed(Tail(f))
  ELSE LET cs == {c \in Conversions : IsPrefix(c, Tail(f))} IN
       IF cs = {} THEN Unknown(f[2]) \o Printed(SubSeq(f, 3, Len(f)))
       ELSE LET c == CHOOSE c \in cs : TRUE IN << <<"conv", c>> >> \o Printed(SubSeq(f, 2 + Len(c), Len(f)))

FormatsAreRight(f) == kprintf(f, 1) = Printed(f) /\ vprintf(f, 1, 0) = Printed(f)

-----------------------------------------------------------------------------
(* Every input of a few bytes, written one byte after the other. *)

VARIABLES kind, a, b
vars == <<kind, a, b>>

MaxLen == [bytes |-> 3, path |-> 7, format |-> 5, number |-> 1]
Alphabet == [bytes |-> 0..2, path |-> {1, 2, 3}, format |-> {"%", "d", "l", "x", "c"}, number |-> (-(2^(Bits - 1)))..(2^Bits - 1)]

Init == kind \in DOMAIN MaxLen /\ a = <<>> /\ b = <<>>
Grow(s) == Len(s) < MaxLen[kind]
Next ==
  /\ UNCHANGED kind
  /\ \E c \in Alphabet[kind] :
       \/ Grow(a) /\ b = <<>> /\ a' = Append(a, c) /\ UNCHANGED b
       \/ kind = "bytes" /\ Grow(b) /\ b' = Append(b, c) /\ UNCHANGED a

\* Each function gives what its reference says for every input.
LibraryIsRight ==
  /\ kind = "bytes" => MovesAreCopies(a \o b) /\ StringsAreRight(a, b)
  /\ kind = "path" => PathsAreRight(a)
  /\ kind = "format" => FormatsAreRight(a)
  /\ kind = "number" /\ a # <<>> => NumbersAreRight(a[1])
=============================================================================
