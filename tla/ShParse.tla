------------------------------ MODULE ShParse -------------------------------
(***************************************************************************)
(* The parser of user/sh.c.                                                *)
(*                                                                         *)
(* A line is a sequence of characters without its NUL: the symbols of the  *)
(* shell, a blank for all white space, and any others, which are alike.    *)
(* Pointers into it are positions.  A parsing function returns the command *)
(* and the position it has come to; a panic is position 0.                 *)
(***************************************************************************)
EXTENDS Integers, Sequences, FiniteSets, SequencesExt

CONSTANT MaxArgs    \* MAXARGS

NUL == "NUL"
White == {" "}
Symbols == {"<", "|", ">", "&", ";", "(", ")"}

EXEC(argv, eargv) == [type |-> "EXEC", argv |-> argv, eargv |-> eargv]
REDIR(cmd, r) == [type |-> "REDIR", cmd |-> cmd, mode |-> r.mode, file |-> r.file, efile |-> r.efile]
PIPE(l, r) == [type |-> "PIPE", left |-> l, right |-> r]
LIST(l, r) == [type |-> "LIST", left |-> l, right |-> r]
BACK(cmd) == [type |-> "BACK", cmd |-> cmd]

Panic == [cmd |-> NUL, i |-> 0]
Ok(r) == r.i # 0

-----------------------------------------------------------------------------
(* Tokens *)

Char(s, i) == IF i <= Len(s) THEN s[i] ELSE NUL

\* The first place from i on whose character is not in S.
Skip(s, i, S) == CHOOSE j \in i..(Len(s) + 1) : Char(s, j) \notin S /\ \A k \in i..(j - 1) : s[k] \in S

\* A word that ends at white space only.
InWordGreedy(s) == Range(s) \ White

\* The characters that belong to words.
InWord(s) == Range(s) \ (White \cup Symbols)

TokenEnd(s, q) ==
  CASE Char(s, q) = NUL -> q
    [] Char(s, q) = ">" -> IF Char(s, q + 1) = ">" THEN q + 2 ELSE q + 1
    [] Char(s, q) \in Symbols \ {">"} -> q + 1
    [] OTHER -> Skip(s, q, InWord(s))

Token(s, q, eq) ==
  [tok |-> IF Char(s, q) \notin Symbols \cup {NUL} THEN "a" ELSE IF eq = q + 2 THEN "+" ELSE Char(s, q),
   q |-> q, eq |-> eq, i |-> Skip(s, eq, White)]

TokenAt(s, q) == Token(s, q, TokenEnd(s, q))

gettoken(s, i) == TokenAt(s, Skip(s, i, White))

peek(s, i, toks) == Char(s, Skip(s, i, White)) \in toks

-----------------------------------------------------------------------------
(* Commands.  P holds, for each parsing function and place, what it returns; *)
(* the functions that take apart what others return get it as an argument.   *)

\* Redirections wrapped the other way round: the first one outermost.
FirstOutside(cmd, rs) == FoldRight(LAMBDA r, c : REDIR(c, r), rs, cmd)

\* ret: each redirection is wrapped around what there is, so the last one is
\* outermost and opened first.
Redirected(cmd, rs) == FoldLeft(REDIR, cmd, rs)

\* parseredirs(): after operator t and token f, before the further ones rs.
parseredirs(t, f, rs) ==
  IF f.tok # "a" \/ ~Ok(rs) THEN Panic
  ELSE [cmd |-> <<[mode |-> t.tok, file |-> f.q, efile |-> f.eq]>> \o rs.cmd, i |-> rs.i]

\* The number of arguments is tested too late.
TooManyLate(argv) == Len(argv) > MaxArgs

TooMany(argv) == Len(argv) >= MaxArgs

\* The loop of parseexec(): word t, its redirections rs, the rest of the words.
ParseWords(t, rs, rest) ==
  IF t.tok # "a" \/ ~Ok(rs) \/ ~Ok(rest) THEN Panic
  ELSE [cmd |-> [argv |-> <<t.q>> \o rest.cmd.argv, eargv |-> <<t.eq>> \o rest.cmd.eargv, rs |-> rs.cmd \o rest.cmd.rs],
        i |-> rest.i]

parseexec(rs, ws) ==
  IF ~Ok(rs) \/ ~Ok(ws) \/ TooMany(ws.cmd.argv) THEN Panic
  ELSE [cmd |-> Redirected(EXEC(ws.cmd.argv, ws.cmd.eargv), rs.cmd \o ws.cmd.rs), i |-> ws.i]

parseblock(s, l, P) ==
  IF ~Ok(l) \/ ~peek(s, l.i, {")"}) THEN Panic
  ELSE IF ~Ok(P["redirs", gettoken(s, l.i).i]) THEN Panic
  ELSE [cmd |-> Redirected(l.cmd, P["redirs", gettoken(s, l.i).i].cmd), i |-> P["redirs", gettoken(s, l.i).i].i]

\* The tree of l and r.
Both(type, l, r) == IF Ok(r) THEN [cmd |-> [type |-> type, left |-> l.cmd, right |-> r.cmd], i |-> r.i] ELSE Panic

parsepipe(s, e, P) ==
  IF Ok(e) /\ peek(s, e.i, {"|"}) THEN Both("PIPE", e, P["pipe", gettoken(s, e.i).i]) ELSE e

\* A single "&" is taken.
BackOnce(s, i) == peek(s, i, {"&"}) /\ (i = 1 \/ Char(s, i - 1) # "&")

Background(s, i) == peek(s, i, {"&"})

RECURSIVE Backs(_, _, _)
Backs(s, cmd, i) == IF Background(s, i) THEN Backs(s, BACK(cmd), gettoken(s, i).i) ELSE [cmd |-> cmd, i |-> i]

parseline(s, b, P) ==
  IF Ok(b) /\ peek(s, b.i, {";"}) THEN Both("LIST", b, P["line", gettoken(s, b.i).i]) ELSE b

Parser(s) ==
  LET P[f \in {"line", "backs", "pipe", "exec", "words", "redirs"}, i \in 1..(Len(s) + 1)] ==
    CASE f = "line" -> parseline(s, P["backs", i], P)
      [] f = "backs" -> IF Ok(P["pipe", i]) THEN Backs(s, P["pipe", i].cmd, P["pipe", i].i) ELSE Panic
      [] f = "pipe" -> parsepipe(s, P["exec", i], P)
      [] f = "exec" -> IF peek(s, i, {"("}) THEN parseblock(s, P["line", gettoken(s, i).i], P)
                       ELSE parseexec(P["redirs", i], IF Ok(P["redirs", i]) THEN P["words", P["redirs", i].i] ELSE Panic)
      [] f = "words" -> IF peek(s, i, {"|", ")", "&", ";", NUL})
                        THEN [cmd |-> [argv |-> <<>>, eargv |-> <<>>, rs |-> <<>>], i |-> Skip(s, i, White)]
                        ELSE ParseWords(gettoken(s, i), P["redirs", gettoken(s, i).i],
                               IF Ok(P["redirs", gettoken(s, i).i]) THEN P["words", P["redirs", gettoken(s, i).i].i] ELSE Panic)
      [] f = "redirs" -> IF ~peek(s, i, {"<", ">"}) THEN [cmd |-> <<>>, i |-> Skip(s, i, White)]
                         ELSE parseredirs(gettoken(s, i), gettoken(s, gettoken(s, i).i),
                                          P["redirs", gettoken(s, gettoken(s, i).i).i])
  IN P

-----------------------------------------------------------------------------
(* The whole line *)

Subs(cmd) == CASE cmd.type \in {"REDIR", "BACK"} -> {cmd.cmd}
               [] cmd.type \in {"PIPE", "LIST"} -> {cmd.left, cmd.right}
               [] OTHER -> {}

\* The places where nulterminate() writes a NUL.
RECURSIVE nulterminate(_)
nulterminate(cmd) ==
  UNION {nulterminate(c) : c \in Subs(cmd)}
  \cup (IF cmd.type = "EXEC" THEN Range(cmd.eargv) ELSE IF cmd.type = "REDIR" THEN {cmd.efile} ELSE {})

\* The string at q, once there are NULs at the places Z.
CString(s, Z, q) == SubSeq(s, q, (CHOOSE e \in q..(Len(s) + 1) :
                       e \in Z \cup {Len(s) + 1} /\ \A j \in q..(e - 1) : j \notin Z) - 1)

\* The command with the strings that its pointers lead to.
RECURSIVE Strings(_, _, _)
Strings(cmd, s, Z) ==
  CASE cmd.type = "EXEC" -> EXEC([a \in DOMAIN cmd.argv |-> CString(s, Z, cmd.argv[a])], <<>>)
    [] cmd.type = "REDIR" -> REDIR(Strings(cmd.cmd, s, Z), [mode |-> cmd.mode, file |-> CString(s, Z, cmd.file), efile |-> 0])
    [] cmd.type = "BACK" -> BACK(Strings(cmd.cmd, s, Z))
    [] cmd.type = "PIPE" -> PIPE(Strings(cmd.left, s, Z), Strings(cmd.right, s, Z))
    [] cmd.type = "LIST" -> LIST(Strings(cmd.left, s, Z), Strings(cmd.right, s, Z))

\* parsecmd(): a set with the command, or none when it panics.
parsecmd(s) == {Strings(l.cmd, s, nulterminate(l.cmd)) :
                  l \in {r \in {Parser(s)["line", 1]} : Ok(r) /\ Skip(s, r.i, White) = Len(s) + 1}}

-----------------------------------------------------------------------------
(* Reference: the grammar

     line  ::= pipe { "&" } [ ";" line ]
     pipe  ::= exec [ "|" pipe ]
     exec  ::= { word | redir }  |  "(" line ")" { redir }
     redir ::= ("<" | ">" | ">>") word                                       *)

\* Where tokens start and end: of a run of ">", every other one starts a token.
Ordinary(s, i) == i \in DOMAIN s /\ s[i] \notin White \cup Symbols
RunBefore(s, i) == Cardinality({j \in 1..(i - 1) : \A k \in j..(i - 1) : s[k] = ">"})
Starts(s) == {i \in DOMAIN s : \/ Ordinary(s, i) /\ ~Ordinary(s, i - 1)
                               \/ s[i] \in Symbols \ {">"}
                               \/ s[i] = ">" /\ RunBefore(s, i) % 2 = 0}
WordAt(s, i) == SubSeq(s, i, CHOOSE e \in i..Len(s) : ~Ordinary(s, e + 1) /\ \A j \in i..e : Ordinary(s, j))
Tokens(s) ==
  LET at == SetToSortSeq(Starts(s), <) IN
  [k \in DOMAIN at |-> IF Ordinary(s, at[k]) THEN <<"a", WordAt(s, at[k])>>
                       ELSE IF s[at[k]] = ">" /\ Char(s, at[k] + 1) = ">" THEN <<"+">> ELSE <<s[at[k]]>>]

IsRedir(x) == x[1] \in {"<", ">", "+"}
IsArg(t, a, k) == t[k][1] = "a" /\ (k = a \/ ~IsRedir(t[k - 1]))

\* Words and redirections only, each redirection with its file.
Simple(t, a, b) ==
  \A k \in a..b : t[k][1] = "a" \/ (IsRedir(t[k]) /\ k < b /\ t[k + 1][1] = "a")
Args(t, a, b) == LET at == SetToSortSeq({k \in a..b : IsArg(t, a, k)}, <) IN [n \in DOMAIN at |-> t[at[n]][2]]
Wrap(c, t, a, b) ==
  FoldLeft(LAMBDA x, k : REDIR(x, [mode |-> t[k][1], file |-> t[k + 1][2], efile |-> 0]),
           c, SetToSortSeq({k \in a..b : IsRedir(t[k])}, <))

\* The trees of tokens a to b of t as a line and so on.
Trees(t) ==
  LET T[f \in {"line", "backs", "pipe", "exec"}, a \in 1..(Len(t) + 1), b \in 0..Len(t)] ==
    CASE f = "line" -> T["backs", a, b] \cup
           UNION {{LIST(l, r) : l \in T["backs", a, k - 1], r \in T["line", k + 1, b]} : k \in {k \in a..b : t[k][1] = ";"}}
      [] f = "backs" -> T["pipe", a, b] \cup
           (IF a <= b /\ t[b][1] = "&" THEN {BACK(c) : c \in T["backs", a, b - 1]} ELSE {})
      [] f = "pipe" -> T["exec", a, b] \cup
           UNION {{PIPE(l, r) : l \in T["exec", a, k - 1], r \in T["pipe", k + 1, b]} : k \in {k \in a..b : t[k][1] = "|"}}
      [] f = "exec" ->
           {Wrap(EXEC(Args(t, a, b), <<>>), t, a, b) : z \in {z \in {0} : Simple(t, a, b) /\ Len(Args(t, a, b)) < MaxArgs}} \cup
           UNION {{Wrap(c, t, k + 1, b) : c \in T["line", a + 1, k - 1]} :
                    k \in {k \in (a + 1)..b : /\ t[a][1] = "(" /\ t[k][1] = ")"
                                              /\ Simple(t, k + 1, b) /\ Args(t, k + 1, b) = <<>>}}
  IN T["line", 1, Len(t)]

\* The recursive descent accepts exactly the lines that the grammar derives,
\* each in one way, and builds that tree; after nulterminate() its pointers lead
\* to exactly the words of the line, although the NULs replace symbols.
ParsesGrammar(s) == parsecmd(s) = Trees(Tokens(s)) /\ Cardinality(parsecmd(s)) <= 1
=============================================================================
