------------------------------- MODULE Shell --------------------------------
(***************************************************************************)
(* The shell of lab-shell at the level of processes and descriptors: the   *)
(* loop of run_cmd, which forks a process for each line and waits for it,  *)
(* and exec_cmd, which turns that process into a program or, for a pipe,   *)
(* into one that makes the pipe and forks a left and a right child; the    *)
(* right command may be a pipe again.  The programs are external.          *)
(***************************************************************************)
EXTENDS Pipes

CONSTANTS Commands,   \* what a line may be parsed to, and the parts of it
          Lines,      \* the commands of the lines typed
          LINES,      \* how many lines are typed
          Failing,    \* the calls that may fail
          FAILURES    \* how many of them do

Shell == 0
TTY == <<"tty">>
File(name) == <<"file", name>>

ASSUME ShellAssumption ==
  /\ Shell \in Proc /\ Proc \subseteq Nat /\ NFD >= 5 /\ Pipe \subseteq Nat
  /\ LINES \in Nat /\ FAILURES \in Nat
  /\ Failing \subseteq {"pipe", "dup2", "fork", "fork_left", "fork_right"}

\* types.h: a program, with the files it names if it is a REDIR; one of these in the
\* background; a pipe
ASSUME CommandAssumption ==
  /\ Lines \subseteq Commands
  /\ \A c \in Commands :
       \/ /\ c.type \in {"EXEC", "REDIR"}
          /\ c = [type |-> c.type, prog |-> c.prog, in |-> c.in, out |-> c.out, err |-> c.err]
          /\ c.type = "EXEC" => c.in = None /\ c.out = None /\ c.err = None
       \/ c.type = "BACK" /\ c.c \in Commands /\ c.c.type \in {"EXEC", "REDIR"}
       \/ c.type = "PIPE" /\ c.left \in Commands /\ c.right \in Commands
ASSUME NoneAssumption ==
  /\ None \notin Proc /\ None \notin Ends /\ None # TTY /\ None # "&1"
  /\ \A c \in Commands : c.type = "REDIR" =>
       None \notin {File(c.in), File(c.out), File(c.err)}

VARIABLES
  o,         \* descriptors and pipes (module Pipes)
  self,      \* the state of each process
  line,      \* how many lines were read
  status,    \* the variable of runcmd.c: the last status, as wait gives it or decoded
  last,      \* with what the simple command of this line ended, if it is one
  failures

vars == <<o, self, line, status, last, failures>>

Running == -1
NotSimple == -2

\* A process that begins; back says that it is part of a line in the background
Process(pc, cmd, parent, back) ==
  [pc |-> pc, cmd |-> cmd, parent |-> parent, back |-> back,
   left |-> None, right |-> None, n |-> 0, ret |-> 0]
NoProc == Process("none", None, None, FALSE)

Init ==
  /\ o = [fds |-> [p \in Proc |-> [f \in FD |-> IF p = Shell /\ f < 3 THEN TTY ELSE None]],
          data |-> [k \in Pipe |-> <<>>]]
  /\ self = [p \in Proc |-> IF p = Shell THEN Process("prompt", None, None, FALSE)
                          ELSE NoProc]
  /\ line = 0 /\ status = 0 /\ last = NotSimple /\ failures = 0

At(p, pc) == self[p].pc = pc
Goto(p, pc) == self' = [self EXCEPT ![p].pc = pc]
Exists(p) == ~At(p, "none")
Alive(p) == Exists(p) /\ ~At(p, "zombie")
Fail(call) == call \in Failing /\ failures < FAILURES /\ failures' = failures + 1

\* fork() by p of a child that is to execute cmd
Child(p, pc, cmd) ==
  Process(pc, cmd, p, (p = Shell /\ cmd.type = "BACK") \/ self[p].back)
NewPids == {c \in Proc \ {Shell} : ~Exists(c)}
NewPid == Least(NewPids)

\* Processes and pipes run out, too
ForkFails(call) == IF NewPids = {} THEN UNCHANGED failures ELSE Fail(call)

\* The end of p, with a status as wait() tells it.  Init takes care of the children
\* of those that are gone.
Terminate(p, ret) ==
  LET after(q) == IF q = p /\ (self[p].parent = None \/ ~Alive(self[p].parent)) THEN NoProc
                  ELSE IF q = p THEN [self[p] EXCEPT !.pc = "zombie", !.ret = ret]
                  ELSE IF self[q].parent = p /\ At(q, "zombie") THEN NoProc ELSE self[q]
  IN /\ o' = CloseAll(o, p)
     /\ self' = [q \in Proc |-> after(q)]
     /\ last' = IF p = self[Shell].left /\ last = Running THEN ret ELSE last
     /\ UNCHANGED <<line, status>>

Exited(code) == code * 256
Code(n) == Exited(n % 256)

-----------------------------------------------------------------------------
(* run_cmd *)

ReadLine ==
  /\ At(Shell, "prompt")
  /\ \/ \E cmd \in Lines :
          /\ line < LINES /\ line' = line + 1
          /\ self' = [self EXCEPT ![Shell].pc = "fork", ![Shell].cmd = cmd, ![Shell].left = None]
          /\ last' = IF cmd.type \in {"EXEC", "REDIR"} THEN Running ELSE NotSimple
          /\ UNCHANGED <<o, status>>
     \/ Terminate(Shell, 0)
  /\ UNCHANGED failures

ForkCommand ==
  /\ At(Shell, "fork")
  /\ LET c == NewPid
     IN \/ /\ NewPids # {}
           /\ o' = Fork(o, Shell, c)
           /\ self' = [self EXCEPT ![c] = Child(Shell, "exec", self[Shell].cmd),
                                   ![Shell].left = c, ![Shell].pc = "wait_any"]
           /\ UNCHANGED <<last, failures>>
        \/ /\ ForkFails("fork")
           /\ self' = [self EXCEPT ![Shell].pc = "wait_any"]
           /\ last' = NotSimple /\ UNCHANGED o
  /\ UNCHANGED <<line, status>>

Zombies == {c \in Proc : self[c].parent = Shell /\ At(c, "zombie")}

\* What print_status_info leaves in status: WIFEXITED, WIFSIGNALED
Decoded(st) == IF st % 128 = 0 THEN (st \div 256) % 256 ELSE - (st % 128)

\* Mutant of WaitAny: it waits for a process, and does not poll.
WaitAnyBlocks ==
  /\ At(Shell, "wait_any")
  /\ LET next == IF self[Shell].cmd.type = "BACK" THEN "prompt" ELSE "wait"
     IN \E c \in Zombies : /\ status' = self[c].ret
                           /\ self' = [self EXCEPT ![c] = NoProc, ![Shell].pc = next]
  /\ UNCHANGED <<o, line, last, failures>>

\* waitpid(WAIT_ANY, &status, WNOHANG)
WaitAny ==
  /\ At(Shell, "wait_any")
  /\ LET next == IF self[Shell].cmd.type = "BACK" THEN "prompt" ELSE "wait"
     IN \/ \E c \in Zombies : /\ status' = self[c].ret
                              /\ self' = [self EXCEPT ![c] = NoProc, ![Shell].pc = next]
        \/ Zombies = {} /\ Goto(Shell, next) /\ UNCHANGED status
  /\ UNCHANGED <<o, line, last, failures>>

\* Whom waitpid(p, &status, 0) waits for: after a fork that failed p is -1, that is
\* anybody; nobody when the call before has reaped p
Awaited == {c \in Proc : /\ Exists(c) /\ self[c].parent = Shell
                         /\ self[Shell].left \in {c, None}}

PrintStatusInfo(st) == status' = IF self[Shell].cmd.type = "PIPE" THEN st ELSE Decoded(st)

\* Mutant of WaitForeground: it does not wait for a pipe.
WaitForegroundSimple ==
  /\ At(Shell, "wait")
  /\ \/ \E c \in Awaited : /\ At(c, "zombie") /\ PrintStatusInfo(self[c].ret)
                           /\ self' = [self EXCEPT ![c] = NoProc, ![Shell].pc = "prompt"]
     \/ (Awaited = {} \/ self[Shell].cmd.type = "PIPE") /\ PrintStatusInfo(status) /\ Goto(Shell, "prompt")
  /\ UNCHANGED <<o, line, last, failures>>
\* Mutant of WaitForeground: the status is not taken from the call.
WaitForegroundNoStatus ==
  /\ At(Shell, "wait")
  /\ \/ \E c \in Awaited : /\ At(c, "zombie") /\ PrintStatusInfo(status)
                           /\ self' = [self EXCEPT ![c] = NoProc, ![Shell].pc = "prompt"]
     \/ Awaited = {} /\ PrintStatusInfo(status) /\ Goto(Shell, "prompt")
  /\ UNCHANGED <<o, line, last, failures>>

WaitForeground ==
  /\ At(Shell, "wait")
  /\ \/ \E c \in Awaited : /\ At(c, "zombie") /\ PrintStatusInfo(self[c].ret)
                           /\ self' = [self EXCEPT ![c] = NoProc, ![Shell].pc = "prompt"]
     \/ Awaited = {} /\ PrintStatusInfo(status) /\ Goto(Shell, "prompt")
  /\ UNCHANGED <<o, line, last, failures>>

-----------------------------------------------------------------------------
(* exec_cmd, in a child *)

\* One redirection: open, dup2 and close, or the end of the process; "absent" is a
\* file that open does not find.
CanOpen(file) == file # "absent"
Redirected(x, p, file, fd) ==
  LET opened == Open(x, p, File(file))
  IN Close(Dup2(opened, p, FreeFd(x, p), fd), p, FreeFd(x, p))

\* Mutant of Redirections: stderr first.
RedirectionsStderrFirst(p, c) ==
  LET err == IF c.err = None THEN o ELSE IF c.err = "&1" THEN Dup2(o, p, 1, 2)
             ELSE Redirected(o, p, c.err, 2)
      out == IF c.out = None THEN err ELSE Redirected(err, p, c.out, 1)
  IN IF c.in = None THEN out ELSE Redirected(out, p, c.in, 0)

\* stdout, stdin, stderr; 2>&1 is what stdout is by then
Redirections(p, c) ==
  LET out == IF c.out = None THEN o ELSE Redirected(o, p, c.out, 1)
      in == IF c.in = None THEN out ELSE Redirected(out, p, c.in, 0)
  IN IF c.err = None THEN in ELSE IF c.err = "&1" THEN Dup2(in, p, 1, 2)
     ELSE Redirected(in, p, c.err, 2)

ExecBack(p) ==
  /\ At(p, "exec") /\ self[p].cmd.type = "BACK"
  /\ self' = [self EXCEPT ![p].cmd = @.c]
  /\ UNCHANGED <<o, line, status, last, failures>>

ExecRedir(p) ==
  /\ At(p, "exec") /\ self[p].cmd.type = "REDIR"
  /\ LET c == self[p].cmd
     IN IF CanOpen(c.in)
        THEN /\ o' = Redirections(p, c) /\ self' = [self EXCEPT ![p].cmd.type = "EXEC"]
             /\ UNCHANGED <<line, status, last>>
        ELSE Terminate(p, Code(-1))
  /\ UNCHANGED failures

ExecProgram(p) ==
  /\ At(p, "exec") /\ self[p].cmd.type = "EXEC"
  /\ IF self[p].cmd.prog = "missing" THEN Terminate(p, Code(-1))
     ELSE Goto(p, "run") /\ UNCHANGED <<o, line, status, last>>
  /\ UNCHANGED failures

-----------------------------------------------------------------------------
(* handle_all_pipe_cmds_execution: whatever fails, exec_cmd then exits with 0 *)

FreePipes == {k \in Pipe : Unused(o, k)}
FreePipe == Least(FreePipes)
\* fds[READ] and fds[WRITE]: what pipe() gives to a process that has 0, 1 and 2
READ == 3
WRITE == 4

MakePipe(p) ==
  /\ At(p, "exec") /\ self[p].cmd.type = "PIPE"
  /\ \/ /\ FreePipes # {}
        /\ o' = PipeCall(o, p, FreePipe) /\ Goto(p, "fork_left")
        /\ UNCHANGED <<line, status, last, failures>>
     \/ /\ IF FreePipes = {} THEN UNCHANGED failures ELSE Fail("pipe")
        /\ Terminate(p, Exited(0))

ForkLeft(p) ==
  /\ At(p, "fork_left")
  /\ LET c == NewPid
     IN \/ /\ NewPids # {}
           /\ o' = Fork(o, p, c)
           /\ self' = [self EXCEPT ![c] = Child(p, "left", self[p].cmd.left),
                                   ![p].left = c, ![p].pc = "close"]
           /\ UNCHANGED <<line, status, last, failures>>
        \/ ForkFails("fork_left") /\ Terminate(p, Exited(0))

\* Mutant of LeftChild: the read end stays open.
LeftChildReader(p) ==
  /\ At(p, "left")
  /\ o' = Close(Dup2(o, p, WRITE, 1), p, WRITE) /\ Goto(p, "exec")
  /\ UNCHANGED <<line, status, last, failures>>

LeftChild(p) ==
  /\ At(p, "left")
  /\ \/ /\ o' = Close(Dup2(Close(o, p, READ), p, WRITE, 1), p, WRITE) /\ Goto(p, "exec")
        /\ UNCHANGED <<line, status, last, failures>>
     \/ Fail("dup2") /\ Terminate(p, Exited(0))

CloseWriteEnd(p) ==
  /\ At(p, "close")
  /\ o' = Close(o, p, WRITE) /\ Goto(p, "fork_right")
  /\ UNCHANGED <<line, status, last, failures>>

\* A second fork that fails: the parent waits for the left child, and then closes
ForkRight(p) ==
  /\ At(p, "fork_right")
  /\ LET c == NewPid
     IN \/ /\ NewPids # {}
           /\ o' = Fork(o, p, c)
           /\ self' = [self EXCEPT ![c] = Child(p, "right", self[p].cmd.right),
                                   ![p].right = c, ![p].pc = "close_read"]
           /\ UNCHANGED failures
        \/ ForkFails("fork_right") /\ Goto(p, "wait_left") /\ UNCHANGED o
  /\ UNCHANGED <<line, status, last>>

RightChild(p) ==
  /\ At(p, "right")
  /\ \/ /\ o' = Close(Dup2(o, p, READ, 0), p, READ) /\ Goto(p, "exec")
        /\ UNCHANGED <<line, status, last, failures>>
     \/ Fail("dup2") /\ Terminate(p, Exited(0))

\* Mutant of CloseReadEnd: forgotten in the parent.
CloseReadEndNot(p) ==
  /\ At(p, "close_read") /\ Goto(p, "wait_left")
  /\ UNCHANGED <<o, line, status, last, failures>>

CloseReadEnd(p) ==
  /\ At(p, "close_read")
  /\ o' = Close(o, p, READ) /\ Goto(p, "wait_left")
  /\ UNCHANGED <<line, status, last, failures>>

WaitLeft(p) ==
  /\ At(p, "wait_left") /\ At(self[p].left, "zombie")
  /\ self' = [self EXCEPT ![self[p].left] = NoProc,
                          ![p].pc = IF self[p].right = None THEN "exit" ELSE "wait_right"]
  /\ UNCHANGED <<o, line, status, last, failures>>

\* Mutant of WaitRight: nobody waits for the right child.
WaitRightNot(p) ==
  /\ At(p, "wait_right") /\ Goto(p, "exit")
  /\ UNCHANGED <<o, line, status, last, failures>>

WaitRight(p) ==
  /\ At(p, "wait_right") /\ At(self[p].right, "zombie")
  /\ self' = [self EXCEPT ![self[p].right] = NoProc, ![p].pc = "exit"]
  /\ UNCHANGED <<o, line, status, last, failures>>

Exit(p) == At(p, "exit") /\ Terminate(p, Exited(0)) /\ UNCHANGED failures

-----------------------------------------------------------------------------
(* The programs.  Files and the terminal are empty and take everything. *)

IsPipe(p, f) == o.fds[p][f] \in Ends
Emit(p, s) ==
  \/ /\ IF IsPipe(p, 1) THEN CanWrite(o, p, 1) /\ o' = Write(o, p, 1, "x") ELSE UNCHANGED o
     /\ self' = [self EXCEPT ![p] = s] /\ UNCHANGED <<line, status, last>>
  \/ IsPipe(p, 1) /\ Broken(o, p, 1) /\ Terminate(p, 13)
Take(p, s) ==
  /\ IsPipe(p, 0) /\ CanRead(o, p, 0) /\ o' = Read(o, p, 0)
  /\ self' = [self EXCEPT ![p] = s] /\ UNCHANGED <<line, status, last>>
Eof(p) == IsPipe(p, 0) => AtEof(o, p, 0)

\* yes writes for ever, echo once, cat copies, head takes one item, false fails, a
\* server never ends
Program(p) ==
  /\ At(p, "run")
  /\ LET prog == self[p].cmd.prog
         n == self[p].n
         Count(k) == [self[p] EXCEPT !.n = k]
     IN \/ prog = "yes" /\ Emit(p, self[p])
        \/ prog = "echo" /\ n = 0 /\ Emit(p, Count(1))
        \/ prog = "echo" /\ n = 1 /\ Terminate(p, Exited(0))
        \/ prog = "cat" /\ n = 0 /\ Take(p, Count(1))
        \/ prog = "cat" /\ n = 1 /\ Emit(p, Count(0))
        \/ prog = "cat" /\ n = 0 /\ Eof(p) /\ Terminate(p, Exited(0))
        \/ prog = "head" /\ n = 0 /\ Take(p, Count(1))
        \/ prog = "head" /\ (n = 1 \/ Eof(p)) /\ Terminate(p, Exited(0))
        \/ prog = "false" /\ Terminate(p, Exited(1))
  /\ UNCHANGED failures

ShellStep == ForkCommand \/ WaitAny \/ WaitForeground
Step(p) == \/ ExecBack(p) \/ ExecRedir(p) \/ ExecProgram(p)
           \/ MakePipe(p) \/ ForkLeft(p) \/ LeftChild(p) \/ CloseWriteEnd(p) \/ ForkRight(p)
           \/ RightChild(p) \/ CloseReadEnd(p) \/ WaitLeft(p) \/ WaitRight(p)
           \/ Exit(p) \/ Program(p)

Next == ReadLine \/ ShellStep \/ \E p \in Proc \ {Shell} : Step(p)

Spec == Init /\ [][Next]_vars /\ WF_vars(ShellStep)
             /\ \A p \in Proc \ {Shell} : WF_vars(Step(p))

-----------------------------------------------------------------------------
\* A program has descriptors 0, 1 and 2 and no end of a pipe besides.  They are the
\* files that the line names, where it names some (2>&1 is what stdout has become), else
\* an end of the pipe that it makes with the command beside it, else its parent's.
DescriptorsRight ==
  \A p \in Proc : At(p, "run") =>
    LET c == self[p].cmd
        h == self[p].parent
        fd == o.fds[p]
    IN /\ \A f \in FD : fd[f] # None <=> f < 3
       /\ fd[0] = IF c.in # None THEN File(c.in) ELSE IF h = Shell THEN TTY
                  ELSE IF p = self[h].right THEN RdEnd(PipeOf(o, p, 0)) ELSE o.fds[h][0]
       /\ fd[1] = IF c.out # None THEN File(c.out) ELSE IF h = Shell THEN TTY
                  ELSE IF p = self[h].left THEN WrEnd(PipeOf(o, p, 1)) ELSE o.fds[h][1]
       /\ fd[2] = IF c.err = "&1" THEN fd[1] ELSE IF c.err # None THEN File(c.err) ELSE TTY
       /\ \A q \in Proc :
            /\ At(q, "run") /\ self[q].parent = h /\ p = self[h].left /\ q = self[h].right
            /\ c.out = None /\ self[q].cmd.in = None
            => PipeOf(o, q, 0) = PipeOf(o, p, 1)

\* When the prompt is back, no process of a line that was not sent to the background
\* is left, not even as a zombie, whatever call has failed.
ForegroundIsReaped ==
  At(Shell, "prompt") => \A p \in Proc \ {Shell} : Exists(p) => self[p].back

\* After a simple command $? is what that command ended with, though another wait
\* may have reaped it, and others, before.
StatusIsTheCommands == At(Shell, "prompt") /\ last # NotSimple => status = Decoded(last)

\* The shell waits for what it must.
WaitsRight == ForegroundIsReaped /\ StatusIsTheCommands
=============================================================================
