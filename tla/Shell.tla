------------------------------- MODULE Shell -------------------------------
(* The shell of usr/bin/sh.c: a line is parsed (parsecmd) and run by a tree  *)
(* of processes (runcmd) with redirections, pipes, lists and background      *)
(* commands. A line is a sequence of tokens: "w" stands for a word, the      *)
(* others for what gettoken() returns. Words and files are numbered by their *)
(* place in the line, commands by the place of their first token.            *)
(*                                                                           *)
(* A program reads its input to the end, if that is a pipe, and exits.       *)
EXTENDS Integers, Sequences, FiniteSets, SequencesExt
CONSTANTS Lines, MaxExecArgs, MaxShProcs
VARIABLES typed,      \* the line
          cmd,        \* its parsed command
          sh,         \* process -> command to run, descriptors, parent, ...
          ended       \* programs that were started and have exited
shVars == <<typed, cmd, sh, ended>>

(***************************************************************************)
(* The parser. A result is [cmd, s]: what was parsed and the place of the  *)
(* next token; sh_panic() ends the process that parses.                    *)
(***************************************************************************)
ShPanic == [type |-> "panic"]
ExecCmd(argv) == [type |-> "EXEC", argv |-> argv]
RedirCmd(c, file, fd) == [type |-> "REDIR", cmd |-> c, file |-> file, fd |-> fd]
PipeCmd(l, r) == [type |-> "PIPE", left |-> l, right |-> r]
ListCmd(l, r) == [type |-> "LIST", left |-> l, right |-> r]
BackCmd(c) == [type |-> "BACK", cmd |-> c]
Parsed(c, s) == [cmd |-> c, s |-> s]
IsPanic(c) == c.type = "panic"
Peek(toks, s, S) == s <= Len(toks) /\ toks[s] \in S

\* The redirections put around the command, in the order of the line: those of
\* an EXEC enclose one whose arguments are still being read.
RedirsAround(c, redirs) == FoldLeft(LAMBDA a, r : RedirCmd(a, r[1], r[2]), c, redirs)

RECURSIVE ParseRedirs(_, _, _)
ParseRedirs(redirs, toks, s) ==
  IF ~Peek(toks, s, {"<", ">", "+"}) THEN [redirs |-> redirs, s |-> s, ok |-> TRUE]
  ELSE IF ~Peek(toks, s + 1, {"w"}) THEN [redirs |-> redirs, s |-> s, ok |-> FALSE]
  ELSE ParseRedirs(Append(redirs, <<s + 1, IF toks[s] = "<" THEN 0 ELSE 1>>), toks, s + 2)

RECURSIVE ParseArgs(_, _, _)
ParseArgs(argv, pr, toks) ==
  LET s == pr.s IN
  IF ~pr.ok THEN Parsed(ShPanic, s)
  ELSE IF s > Len(toks) \/ Peek(toks, s, {"|", ")", "&", ";"})
       THEN Parsed(RedirsAround(ExecCmd(argv), pr.redirs), s)
  ELSE IF toks[s] # "w" \/ Len(argv) + 1 >= MaxExecArgs THEN Parsed(ShPanic, s)
  ELSE ParseArgs(Append(argv, s), ParseRedirs(pr.redirs, toks, s + 1), toks)

RECURSIVE ParseLine(_, _), ParsePipe(_, _), ParseExec(_, _), ParseBlock(_, _), Backs(_, _)
ParseExec(toks, s) == IF Peek(toks, s, {"("}) THEN ParseBlock(toks, s)
                      ELSE ParseArgs(<<>>, ParseRedirs(<<>>, toks, s), toks)

ParseBlock(toks, s) ==
  LET b == ParseLine(toks, s + 1)
      pr == ParseRedirs(<<>>, toks, b.s + 1) IN
  IF IsPanic(b.cmd) \/ ~Peek(toks, b.s, {")"}) \/ ~pr.ok THEN Parsed(ShPanic, s)
  ELSE Parsed(RedirsAround(b.cmd, pr.redirs), pr.s)

PipeRest(toks, s) == ParsePipe(toks, s)

ParsePipe(toks, s) ==
  LET l == ParseExec(toks, s) IN
  IF IsPanic(l.cmd) \/ ~Peek(toks, l.s, {"|"}) THEN l
  ELSE LET r == PipeRest(toks, l.s + 1) IN
       Parsed(IF IsPanic(r.cmd) THEN ShPanic ELSE PipeCmd(l.cmd, r.cmd), r.s)

Backs(toks, p) == IF IsPanic(p.cmd) \/ ~Peek(toks, p.s, {"&"}) THEN p
                  ELSE Backs(toks, Parsed(BackCmd(p.cmd), p.s + 1))

ParseLine(toks, s) ==
  LET l == Backs(toks, ParsePipe(toks, s)) IN
  IF IsPanic(l.cmd) \/ ~Peek(toks, l.s, {";"}) THEN l
  ELSE LET r == ParseLine(toks, l.s + 1) IN
       Parsed(IF IsPanic(r.cmd) THEN ShPanic ELSE ListCmd(l.cmd, r.cmd), r.s)

\* Leftovers are an error, so that "a & b" is one.
ParseCmd(toks) == LET p == ParseLine(toks, 1) IN
                  IF p.s # Len(toks) + 1 THEN ShPanic ELSE p.cmd

(***************************************************************************)
(* Running. A descriptor is "tty", a file, or an end of a pipe that is     *)
(* named after the process that made it and the command it is for.         *)
(***************************************************************************)
File(n) == <<"file", n>>
Tty == <<"tty">>
ReadEnd(n) == <<"r", n>>
WriteEnd(n) == <<"w", n>>
Closed == <<>>
Fds == 0..4
NoCmd == [type |-> "none"]
Unused == [at |-> "free", cmd |-> NoCmd, fd |-> [f \in Fds |-> Closed], parent |-> 0, n |-> 0]
ShProcs == 1..MaxShProcs
Running(p) == sh[p].at \notin {"free", "exited"}
Close(fd, f) == [fd EXCEPT ![f] = Closed]
Lowest(fd) == CHOOSE f \in Fds : fd[f] = Closed /\ \A g \in Fds : g < f => fd[g] # Closed
Dup(fd, what) == [fd EXCEPT ![Lowest(fd)] = what]
NewSh == CHOOSE q \in ShProcs : sh[q].at = "free" /\ \A r \in ShProcs : r < q => sh[r].at # "free"
Children(p) == {q \in ShProcs : sh[q].parent = p /\ sh[q].at # "free"}
FdsHeld == UNION {{sh[q].fd[f] : f \in Fds} : q \in {r \in ShProcs : Running(r)}}

Set(p, at, c, fd) == [sh EXCEPT ![p] = [@ EXCEPT !.at = at, !.cmd = c, !.fd = fd]]
Go(p, at) == sh' = [sh EXCEPT ![p].at = at]
\* fork1(): the process ends when there is no room for a child.
ShFork(p, at, c, fd, pfd) ==
  IF \A q \in ShProcs : sh[q].at # "free" THEN Go(p, "exit")
  ELSE sh' = [sh EXCEPT ![NewSh] = [Unused EXCEPT !.at = "run", !.cmd = c, !.fd = fd, !.parent = p],
                        ![p] = [@ EXCEPT !.at = at, !.fd = pfd]]

Is(p, at, type) == sh[p].at = at /\ sh[p].cmd.type = type

\* execute_command(), for a program that exists or one that does not.
ExecuteCommand(p) ==
  /\ Is(p, "run", "EXEC")
  /\ IF sh[p].cmd.argv = <<>> THEN Go(p, "exit")
     ELSE Go(p, "program") \/ Go(p, "exit")
  /\ UNCHANGED <<typed, cmd, ended>>

Program(p) ==
  /\ sh[p].at = "program"
  /\ sh[p].fd[0][1] = "r" => WriteEnd(sh[p].fd[0][2]) \notin FdsHeld
  /\ Go(p, "exit") /\ ended' = ended \cup {sh[p].cmd.argv[1]}
  /\ UNCHANGED <<typed, cmd>>

\* The lowest free descriptor is the one that was closed.
Redirect(p) ==
  /\ Is(p, "run", "REDIR")
  /\ \/ sh' = Set(p, "run", sh[p].cmd.cmd, Dup(Close(sh[p].fd, sh[p].cmd.fd), File(sh[p].cmd.file)))
     \/ Go(p, "exit")        \* open() fails
  /\ UNCHANGED <<typed, cmd, ended>>

ListLeft(p) == /\ Is(p, "run", "LIST")
               /\ ShFork(p, "wait", sh[p].cmd.left, sh[p].fd, sh[p].fd)
               /\ UNCHANGED <<typed, cmd, ended>>

Background(p) == /\ Is(p, "run", "BACK")
                 /\ ShFork(p, "exit", sh[p].cmd.cmd, sh[p].fd, sh[p].fd)
                 /\ UNCHANGED <<typed, cmd, ended>>

PipeStart(p) ==
  LET fd == Dup(Dup(sh[p].fd, ReadEnd(p)), WriteEnd(p)) IN
  /\ Is(p, "run", "PIPE")
  /\ sh' = Set(p, "left", sh[p].cmd, fd) \/ Go(p, "exit")       \* pipe() fails
  /\ UNCHANGED <<typed, cmd, ended>>

\* close(), dup() and the two close() of a child: only its own end remains.
PipeChild(fd, std, end) ==
  LET d == Dup(Close(fd, std), end) IN
  [f \in Fds |-> IF f > 2 THEN Closed ELSE d[f]]

PipeLeft(p) ==
  /\ Is(p, "left", "PIPE")
  /\ ShFork(p, "right", sh[p].cmd.left, PipeChild(sh[p].fd, 1, WriteEnd(p)), sh[p].fd)
  /\ UNCHANGED <<typed, cmd, ended>>

\* Fault: the process that waits keeps the write end.
PipeParent_writes(fd) == [f \in Fds |-> IF f > 2 /\ fd[f] # Closed /\ fd[f][1] = "r" THEN Closed ELSE fd[f]]

PipeParent(fd) == [f \in Fds |-> IF f > 2 THEN Closed ELSE fd[f]]

PipeRight(p) ==
  /\ Is(p, "right", "PIPE")
  /\ ShFork(p, "wait", sh[p].cmd.right, PipeChild(sh[p].fd, 0, ReadEnd(p)), PipeParent(sh[p].fd))
  /\ UNCHANGED <<typed, cmd, ended>>

MayReap(p, q) == sh[q].at = "exited"

\* wait(): then the right side of a list, the second wait() of a pipe, the
\* next line of the shell.
Wait(p) ==
  /\ sh[p].at = "wait"
  /\ \E q \in Children(p) :
       /\ MayReap(p, q)
       /\ sh' = [sh EXCEPT ![q] = IF sh[q].at = "exited" THEN Unused ELSE [@ EXCEPT !.parent = 0],
                  ![p] = CASE sh[p].cmd.type = "LIST" -> [@ EXCEPT !.at = "run", !.cmd = sh[p].cmd.right]
                           [] sh[p].cmd.type = "PIPE" /\ sh[p].n = 0 -> [@ EXCEPT !.n = 1]
                           [] sh[p].cmd.type = "none" -> [@ EXCEPT !.at = "prompt"]
                           [] OTHER -> [@ EXCEPT !.at = "exit"]]
  /\ UNCHANGED <<typed, cmd, ended>>

\* exit() closes the files; init reaps the children that are left.
ShExit(p) ==
  /\ sh[p].at = "exit"
  /\ sh' = [q \in ShProcs |->
       CASE q = p -> IF sh[p].parent = 0 THEN Unused
                     ELSE [sh[p] EXCEPT !.at = "exited", !.fd = Unused.fd]
         [] q \in Children(p) -> IF sh[q].at = "exited" THEN Unused ELSE [sh[q] EXCEPT !.parent = 0]
         [] OTHER -> sh[q]]
  /\ UNCHANGED <<typed, cmd, ended>>

\* main(): a line is read, a child parses and runs it, the shell waits.
Main == /\ sh[1].at = "prompt" /\ typed = <<>>
        /\ typed' \in Lines
        /\ cmd' = ParseCmd(typed')
        /\ sh' = [sh EXCEPT ![1].at = "wait",
                    ![2] = [Unused EXCEPT !.at = IF IsPanic(cmd') THEN "exit" ELSE "run",
                                          !.cmd = cmd', !.fd = sh[1].fd, !.parent = 1]]
        /\ UNCHANGED ended

ShInit == /\ typed = <<>> /\ cmd = NoCmd /\ ended = {}
          /\ sh = [p \in ShProcs |-> IF p = 1 THEN [Unused EXCEPT !.at = "prompt",
                     !.fd = [f \in Fds |-> IF f <= 2 THEN Tty ELSE Closed]] ELSE Unused]

ShNext == \/ Main
          \/ \E p \in ShProcs : ExecuteCommand(p) \/ Program(p) \/ Redirect(p) \/ ListLeft(p)
               \/ Background(p) \/ PipeStart(p) \/ PipeLeft(p) \/ PipeRight(p) \/ Wait(p) \/ ShExit(p)

ShSpec == ShInit /\ [][ShNext]_shVars

(***************************************************************************)
(* Properties.                                                             *)
(***************************************************************************)
\* The meaning of a line by its outermost operator: the first ";" outside of
\* parentheses, else a final "&", else the first "|", else a group or a program,
\* inside its redirections.
Depth(t, i) == Cardinality({j \in 1..(i - 1) : t[j] = "("}) - Cardinality({j \in 1..i : t[j] = ")"})
Top(t, tok) == {i \in DOMAIN t : t[i] = tok /\ Depth(t, i) = 0}
First(S) == CHOOSE i \in S : \A j \in S : i <= j
RECURSIVE Meaning(_, _)
\* Tokens t, numbered from `at`.
Meaning(t, at) ==
  LET Split(tok) == LET i == First(Top(t, tok)) IN
        <<Meaning(SubSeq(t, 1, i - 1), at), Meaning(SubSeq(t, i + 1, Len(t)), at + i)>>
      redirs == {i \in DOMAIN t : t[i] \in {"<", ">", "+"} /\ Depth(t, i) = 0}
      files == {i + 1 : i \in redirs} IN
  CASE Top(t, ";") # {} -> ListCmd(Split(";")[1], Split(";")[2])
    [] Top(t, "&") # {} -> BackCmd(Meaning(Front(t), at))
    [] Top(t, "|") # {} -> PipeCmd(Split("|")[1], Split("|")[2])
    [] OTHER -> RedirsAround(
         IF t # <<>> /\ t[1] = "("
         THEN LET close == First({i \in DOMAIN t : t[i] = ")" /\ Depth(t, i) = 0})
              IN Meaning(SubSeq(t, 2, close - 1), at + 1)
         ELSE ExecCmd([k \in 1..(Len(t) - 2 * Cardinality(redirs)) |->
                         at - 1 + SetToSortSeq(DOMAIN t \ (redirs \cup files), <)[k]]),
         [k \in 1..Cardinality(redirs) |-> LET i == SetToSortSeq(redirs, <)[k] IN
                         <<at + i, IF t[i] = "<" THEN 0 ELSE 1>>])

(* An accepted line means what its outermost operators say, at every nesting   *)
(* of lists, background commands, pipes, groups and redirections, and no word  *)
(* of it is lost.                                                              *)
LineUnderstood == cmd.type \notin {"none", "panic"} => cmd = Meaning(typed, 1)

RECURSIVE Words(_)
Words(c) == CASE c.type = "EXEC" -> ToSet(c.argv)
              [] c.type = "REDIR" -> {c.file} \cup Words(c.cmd)
              [] c.type = "BACK" -> Words(c.cmd)
              [] OTHER -> Words(c.left) \cup Words(c.right)

(* A program that starts has nothing but its three standard descriptors: input *)
(* and output are where the line puts them, and no end of a pipe is left open  *)
(* that would keep a reader from seeing the end of its input.                  *)
OnlyStandardFiles ==
  \A p \in ShProcs : sh[p].at = "program" =>
    /\ \A f \in Fds : f > 2 <=> sh[p].fd[f] = Closed
    /\ sh[p].fd[0][1] # "w" /\ sh[p].fd[1][1] # "r" /\ sh[p].fd[2] = Tty

RECURSIVE Foreground(_), StartedBefore(_, _)
Foreground(c) == CASE c.type = "EXEC" -> IF c.argv = <<>> THEN {} ELSE {c.argv[1]}
                   [] c.type = "REDIR" -> Foreground(c.cmd)
                   [] c.type = "BACK" -> {}
                   [] OTHER -> Foreground(c.left) \cup Foreground(c.right)
\* What must have ended, or failed to start, before program w starts.
StartedBefore(c, w) == CASE c.type \in {"EXEC"} -> {}
                       [] c.type \in {"REDIR", "BACK"} -> StartedBefore(c.cmd, w)
                       [] c.type = "LIST" /\ w \in Words(c.right) -> Foreground(c.left) \cup StartedBefore(c.right, w)
                       [] c.type = "PIPE" /\ w \in Words(c.right) -> StartedBefore(c.right, w)
                       [] OTHER -> StartedBefore(c.left, w)

(* The right side of ";" starts when no program of its left side runs, except  *)
(* those put in the background, for every nesting of lists, pipes and groups.  *)
ListInOrder ==
  \A p \in ShProcs : sh[p].at = "program" =>
    ~\E q \in ShProcs : sh[q].at = "program" /\ sh[q].cmd.argv[1] \in StartedBefore(cmd, sh[p].cmd.argv[1])

(* Nobody waits for ever: when no process can go on, the shell shows its       *)
(* prompt, and every process of the line is gone.                              *)
Moves(p) == \/ sh[p].at \in {"run", "left", "right", "exit"}
            \/ sh[p].at = "program" /\ (sh[p].fd[0][1] = "r" => WriteEnd(sh[p].fd[0][2]) \notin FdsHeld)
            \/ sh[p].at = "wait" /\ \E q \in Children(p) : sh[q].at = "exited"
PromptReturns == (\A p \in ShProcs : ~Moves(p)) =>
                 sh[1].at = "prompt" /\ \A p \in ShProcs \ {1} : sh[p] = Unused
=============================================================================
