------------------------------- MODULE Shell --------------------------------
(***************************************************************************)
(* How user/sh.c runs a line, and user/init.c, which restarts the shell    *)
(* and reaps what it leaves behind: one step per system call, except that  *)
(* calls which only touch the caller's own descriptors are taken together. *)
(*                                                                         *)
(* fork, exec, open, pipe, dup, close, wait and exit are as the kernel     *)
(* provides them: descriptors are the lowest free ones.  A program that    *)
(* has been exec'ed and reads a pipe ends when it sees the end of it; any  *)
(* other may end at any time.                                              *)
(***************************************************************************)
EXTENDS ShParse

CONSTANTS
  Slots,      \* slots for processes, 1 is the shell
  Lines,      \* what may be typed
  MaxLines,   \* this often
  MaxFails    \* this many calls of fork, pipe, open and exec fail

Sh == 1
InitProc == 0
Fds == 0..4
Console == <<"console">>
Closed == <<>>
Nil == [pc |-> "none"]

VARIABLES
  ps,       \* processes: pc, cmd, descriptors, p[] of runcmd(), parent, and
            \* the job and place in its tree that the process works for
  trees,    \* the trees of the jobs so far
  lost,     \* jobs that gave up between the two forks of a pipe
  fails

vars == <<ps, trees, lost, fails>>

FreshShell == [pc |-> "prompt", cmd |-> <<>>, fd |-> [f \in Fds |-> IF f < 3 THEN Console ELSE Closed],
               p |-> <<>>, par |-> InitProc, job |-> 0, path |-> <<>>]

Init ==
  /\ ps = [x \in Slots |-> IF x = Sh THEN FreshShell ELSE Nil]
  /\ trees = <<>> /\ lost = {} /\ fails = 0

-----------------------------------------------------------------------------
(* System calls *)

Live == {x \in Slots : ps[x].pc \notin {"none", "zombie"}}
Children(x) == {y \in Slots : ps[y] # Nil /\ ps[y].par = x}
NewPid == CHOOSE x \in Slots : ps[x] = Nil /\ \A y \in Slots : ps[y] = Nil => x <= y

LowestFree(fd) == CHOOSE f \in Fds : fd[f] = Closed /\ \A g \in Fds : fd[g] = Closed => f <= g
OpenAs(fd, obj) == [fd EXCEPT ![LowestFree(fd)] = obj]
Close(fd, S) == [f \in Fds |-> IF f \in S THEN Closed ELSE fd[f]]

\* The parent goes on at pc, the child is c.
Fork(x, pc, c) ==
  /\ ps' = [ps EXCEPT ![x].pc = pc, ![NewPid] = [c EXCEPT !.par = x]]
  /\ UNCHANGED <<trees, lost, fails>>

\* A call fails, and with it the process: panic(), exit(1), or the end of runcmd().
Fails(x) ==
  /\ fails < MaxFails /\ fails' = fails + 1
  /\ ps' = [ps EXCEPT ![x].pc = "exit"]
  /\ lost' = IF ps[x].pc = "pipe2" THEN lost \cup {ps[x].job} ELSE lost
  /\ UNCHANGED trees

Exit(x) ==
  /\ ps[x].pc = "exit"
  /\ ps' = [y \in Slots |-> IF y = x THEN [ps[x] EXCEPT !.pc = "zombie", !.fd = Close(@, Fds), !.cmd = <<>>, !.p = <<>>]
                            ELSE IF y \in Children(x) THEN [ps[y] EXCEPT !.par = InitProc] ELSE ps[y]]
  /\ UNCHANGED <<trees, lost, fails>>

\* wait(0): a dead child, or at once if there are none.
Wait(x, next) ==
  /\ \/ \E z \in Children(x) : ps[z].pc = "zombie" /\ ps' = [ps EXCEPT ![z] = Nil, ![x] = next]
     \/ Children(x) = {} /\ ps' = [ps EXCEPT ![x] = next]
  /\ UNCHANGED <<trees, lost, fails>>

\* A program reads to the end of its input and ends.
AtEof(x) == \A y \in Live : \A f \in Fds :
              ps[x].fd[0] # Closed /\ ps[x].fd[0][1] = "r" => ps[y].fd[f] # [ps[x].fd[0] EXCEPT ![1] = "w"]
Program(x) ==
  /\ ps[x].pc = "prog" /\ AtEof(x)
  /\ ps' = [ps EXCEPT ![x].pc = "exit"]
  /\ UNCHANGED <<trees, lost, fails>>

-----------------------------------------------------------------------------
(* main() of the shell and of init *)

IsCd(l) == Len(l) >= 3 /\ SubSeq(l, 1, 3) = <<"c", "d", " ">>

\* getcmd(): at the end of input the shell exits; cd is its own work.
Getcmd ==
  /\ ps[Sh].pc = "prompt" /\ Len(trees) < MaxLines
  /\ \/ ps' = [ps EXCEPT ![Sh].pc = "exit"]
     \/ \E l \in Lines : ps' = [ps EXCEPT ![Sh].pc = IF IsCd(l) THEN "prompt" ELSE "fork", ![Sh].cmd = IF IsCd(l) THEN <<>> ELSE l]
  /\ trees' = Append(trees, <<>>)
  /\ UNCHANGED <<lost, fails>>

\* The child parses and runs the line, the shell waits for it.
RunLine ==
  /\ ps[Sh].pc = "fork"
  /\ Fork(Sh, "wait", [ps[Sh] EXCEPT !.pc = "parse", !.job = Len(trees)]) \/ Fails(Sh)
WaitLine == ps[Sh].pc = "wait" /\ Wait(Sh, [ps[Sh] EXCEPT !.pc = "prompt", !.cmd = <<>>])

Parsed == [l \in Lines |-> parsecmd(l)]

Parse(x) ==
  /\ ps[x].pc = "parse"
  /\ \/ \E c \in Parsed[ps[x].cmd] :
          /\ ps' = [ps EXCEPT ![x].pc = "run", ![x].cmd = c]
          /\ trees' = [trees EXCEPT ![ps[x].job] = c]
     \/ Parsed[ps[x].cmd] = {} /\ ps' = [ps EXCEPT ![x].pc = "exit"] /\ UNCHANGED trees
  /\ UNCHANGED <<lost, fails>>

\* init waits; a dead shell is started again.
InitWait ==
  /\ \E z \in Children(InitProc) :
       ps[z].pc = "zombie" /\ ps' = [ps EXCEPT ![z] = IF z = Sh THEN FreshShell ELSE Nil]
  /\ UNCHANGED <<trees, lost, fails>>

-----------------------------------------------------------------------------
(* runcmd() *)

At(x, pc, type) == ps[x].pc = pc /\ ps[x].cmd.type = type

\* Process x of a job as it runs part k of its command.
Sub(x, k) == [ps[x] EXCEPT !.pc = "run", !.path = Append(@, k),
                           !.cmd = IF @.type \in {"REDIR", "BACK"} THEN @.cmd ELSE IF k = 1 THEN @.left ELSE @.right]

Goes(x, r) == ps' = [ps EXCEPT ![x] = r] /\ UNCHANGED <<trees, lost, fails>>

RunExec(x) ==
  /\ At(x, "run", "EXEC")
  /\ Goes(x, [ps[x] EXCEPT !.pc = IF ps[x].cmd.argv = <<>> THEN "exit" ELSE "prog"]) \/ Fails(x)

RedirFd(cmd) == IF cmd.mode = "<" THEN 0 ELSE 1

\* The file is opened before the old descriptor is closed.
ReopenedLate(fd, cmd) == Close(OpenAs(fd, <<"file", cmd.mode, cmd.file>>), {RedirFd(cmd)})

\* close(rcmd->fd), and open() takes its place.
Reopened(fd, cmd) == OpenAs(Close(fd, {RedirFd(cmd)}), <<"file", cmd.mode, cmd.file>>)

RunRedir(x) ==
  /\ At(x, "run", "REDIR")
  /\ Goes(x, [Sub(x, 1) EXCEPT !.fd = Reopened(@, ps[x].cmd)]) \/ Fails(x)

RunList(x) ==
  \/ At(x, "run", "LIST") /\ (Fork(x, "list", Sub(x, 1)) \/ Fails(x))
  \/ At(x, "list", "LIST") /\ Wait(x, Sub(x, 2))

RunBack(x) == At(x, "run", "BACK") /\ (Fork(x, "exit", Sub(x, 1)) \/ Fails(x))

Pipe(x) ==
  LET end(e) == <<e, ps[x].job, ps[x].path>>
      p0 == LowestFree(ps[x].fd)
      p1 == LowestFree([ps[x].fd EXCEPT ![p0] = end("r")]) IN
  /\ At(x, "run", "PIPE")
  /\ \/ Goes(x, [ps[x] EXCEPT !.pc = "pipe1", !.p = <<p0, p1>>, !.fd[p0] = end("r"), !.fd[p1] = end("w")])
     \/ Fails(x)

\* The left end, or the right one, in the child: close, dup, close, close.
ChildFds(x, k) == Close(OpenAs(Close(ps[x].fd, {2 - k}), ps[x].fd[ps[x].p[3 - k]]), Range(ps[x].p))

ForkLeft(x) == At(x, "pipe1", "PIPE") /\ (Fork(x, "pipe2", [ps[x] EXCEPT !.pc = "left"]) \/ Fails(x))
ForkRight(x) == At(x, "pipe2", "PIPE") /\ (Fork(x, "close", [ps[x] EXCEPT !.pc = "right"]) \/ Fails(x))
LeftOrRight(x) ==
  \/ At(x, "left", "PIPE") /\ Goes(x, [Sub(x, 1) EXCEPT !.fd = ChildFds(x, 1), !.p = <<>>])
  \/ At(x, "right", "PIPE") /\ Goes(x, [Sub(x, 2) EXCEPT !.fd = ChildFds(x, 2), !.p = <<>>])

\* The parent keeps its writing end.
ParentFdsOne(x) == Close(ps[x].fd, {ps[x].p[1]})

ParentFds(x) == Close(ps[x].fd, Range(ps[x].p))

ClosePipe(x) == At(x, "close", "PIPE") /\ Goes(x, [ps[x] EXCEPT !.pc = "wait1", !.fd = ParentFds(x), !.p = <<>>])

\* Only one child is waited for.
AfterFirstExit(x) == [ps[x] EXCEPT !.pc = "exit"]

AfterFirst(x) == [ps[x] EXCEPT !.pc = "wait2"]

WaitPipe(x) ==
  \/ At(x, "wait1", "PIPE") /\ Wait(x, AfterFirst(x))
  \/ At(x, "wait2", "PIPE") /\ Wait(x, [ps[x] EXCEPT !.pc = "exit"])

Step(x) ==
  \/ Exit(x) \/ Program(x) \/ Parse(x)
  \/ RunExec(x) \/ RunRedir(x) \/ RunList(x) \/ RunBack(x)
  \/ Pipe(x) \/ ForkLeft(x) \/ ForkRight(x) \/ LeftOrRight(x) \/ ClosePipe(x) \/ WaitPipe(x)

\* Everything but what the user does.
Work == RunLine \/ WaitLine \/ InitWait \/ \E x \in Live : Step(x)

Next == Getcmd \/ Work

\* As long as some process can go on, one does; programs end.
Fairness == WF_vars(Work)

Spec == Init /\ [][Next]_vars /\ Fairness

-----------------------------------------------------------------------------
(* Properties *)

Kid(c, k) == IF c.type \in {"REDIR", "BACK"} THEN c.cmd ELSE IF k = 1 THEN c.left ELSE c.right

RECURSIVE NodeAt(_, _), Wants(_, _, _, _, _)
NodeAt(c, path) == IF path = <<>> THEN c ELSE NodeAt(Kid(c, Head(path)), Tail(path))

\* The input and output that the tree gives to the command at a path.
Wants(j, c, pre, path, io) ==
  IF path = <<>> THEN io
  ELSE Wants(j, Kid(c, Head(path)), Append(pre, Head(path)), Tail(path),
             CASE c.type = "REDIR" -> [io EXCEPT ![RedirFd(c)] = <<"file", c.mode, c.file>>]
               [] c.type = "PIPE" -> IF Head(path) = 1 THEN [io EXCEPT ![1] = <<"w", j, pre>>] ELSE [io EXCEPT ![0] = <<"r", j, pre>>]
               [] OTHER -> io)

\* A "&" below length n of its path lets x run beside what comes after.
InBackground(x, n) == \E m \in n..(Len(ps[x].path) - 1) :
                        NodeAt(trees[ps[x].job], SubSeq(ps[x].path, 1, m)).type = "BACK"
Working == {x \in Live \ {Sh} : ps[x].pc # "parse" /\ trees[ps[x].job] # <<>> /\ ps[x].job \notin lost}

\* Every program has exactly the input and output that the line says, console
\* for errors and no other descriptor, in particular no stray end of a pipe;
\* the shell prompts only when all of the line but its background commands have
\* ended; and the second half of a list starts only when the first has.
ShellRunsLines ==
  /\ \A x \in Live : ps[x].pc = "prog" =>
       ps[x].fd = [f \in Fds |-> IF f < 2
                     THEN Wants(ps[x].job, trees[ps[x].job], <<>>, ps[x].path, [g \in 0..1 |-> Console])[f]
                     ELSE IF f = 2 THEN Console ELSE Closed]
  /\ \A x \in Working : ps[Sh].pc = "prompt" => InBackground(x, 0)
  /\ \A x, y \in Working : \A n \in 0..(Len(ps[y].path) - 1) :
       /\ ps[x].job = ps[y].job /\ n < Len(ps[x].path)
       /\ SubSeq(ps[x].path, 1, n) = SubSeq(ps[y].path, 1, n)
       /\ ps[x].path[n + 1] = 1 /\ ps[y].path[n + 1] = 2
       /\ NodeAt(trees[ps[x].job], SubSeq(ps[x].path, 1, n)).type = "LIST"
       => InBackground(x, n + 1)

\* The shell comes back to its prompt after every line, whatever fails: every
\* reader of a pipe sees its end, and init restarts a shell that has died.
PromptReturns == []<>(ps[Sh].pc = "prompt")
=============================================================================
