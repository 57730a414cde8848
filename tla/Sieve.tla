------------------------------- MODULE Sieve --------------------------------
(***************************************************************************)
(* The sieve of Eratosthenes as a chain of processes (lab-fork primes.c).  *)
(* Process 0 writes 2 .. MAX into a pipe; each further process prints the  *)
(* first number it reads and passes on those it does not divide, to a      *)
(* child it forks.  A child runs inside the calls of its ancestors: when   *)
(* it is done it returns through all of them, and each closes a descriptor *)
(* by a number that the process may have closed long before.               *)
(***************************************************************************)
EXTENDS Pipes

CONSTANTS MAX,       \* argv[1]
          TTY,       \* stdout is a terminal: printf writes at the end of a line
          FAILURES   \* how many calls of pipe and fork may fail

VARIABLES
  o,          \* descriptors and pipes (module Pipes)
  self,       \* the state of each process
  buffer,     \* what stdio of each process has not written yet
  out,        \* what came out on stdout
  failures

vars == <<o, self, buffer, out, failures>>

\* A process: where it is; a list of descriptors it is closing, and where it goes
\* then; the pipe ends it works with; what it holds in next_number_received; its
\* prime; the descriptors its frames will close when they return; its result.
NoProc == [pc |-> "none", todo |-> <<>>, then |-> "exit", in |-> None, out |-> None,
           n |-> 0, prime |-> 0, frames |-> <<>>, ret |-> 0]

Init ==
  /\ o = [fds |-> [p \in Proc |-> [f \in FD |-> IF p = 0 /\ f < 3 THEN <<"tty">> ELSE None]],
          data |-> [k \in Pipe |-> <<>>]]
  /\ self = [p \in Proc |-> IF p = 0 THEN [NoProc EXCEPT !.pc = "pipe"] ELSE NoProc]
  /\ buffer = [p \in Proc |-> <<>>]
  /\ out = <<>>
  /\ failures = 0

At(p, pc) == self[p].pc = pc
Closing(s, fds, then) == [s EXCEPT !.pc = "close", !.todo = fds, !.then = then]

\* One close() after the other; returning through the frames ends in exit
CloseOne(p) ==
  /\ At(p, "close")
  /\ IF self[p].todo = <<>>
     THEN self' = [self EXCEPT ![p].pc = self[p].then] /\ UNCHANGED o
     ELSE /\ o' = Close(o, p, Head(self[p].todo))
          /\ self' = [self EXCEPT ![p].todo = Tail(@)]
  /\ UNCHANGED <<buffer, out, failures>>

Return(s, ret) == Closing([s EXCEPT !.ret = ret], s.frames, "exit")

Fail == failures < FAILURES /\ failures' = failures + 1

\* pipe() of main, and of a stage once it has a prime
MakePipe(p) ==
  /\ At(p, "pipe")
  /\ \/ /\ o' = PipeCall(o, p, p)
        /\ self' = [self EXCEPT ![p].pc = "fork", ![p].out = FreeFd2(o, p)]
        /\ UNCHANGED failures
     \/ /\ Fail
        /\ self' = [self EXCEPT ![p] = Return(@, -1)]
        /\ UNCHANGED o
  /\ UNCHANGED <<buffer, out>>

\* The read end of the pipe just made: pipe() gives the lower number to it
ReadFd(p) == Least({f \in FD : o.fds[p][f] = RdEnd(p)})

\* fork(), where the child closes the descriptors in childs, and the parent those in
\* undo when it fails
ForkClosing(p, childs, undo) ==
  /\ At(p, "fork")
  /\ \/ /\ o' = Fork(o, p, p + 1)
        /\ buffer' = [buffer EXCEPT ![p + 1] = buffer[p]]
        /\ self' = [self EXCEPT
             ![p] = Closing(@, <<ReadFd(p)>>, IF p = 0 THEN "generate" ELSE "filter"),
             ![p + 1] = Closing([NoProc EXCEPT !.in = ReadFd(p),
                                               !.frames = <<ReadFd(p)>> \o self[p].frames],
                                childs, "first")]
        /\ UNCHANGED failures
     \/ /\ Fail
        /\ self' = [self EXCEPT ![p] = Closing([@ EXCEPT !.ret = -1],
                                               undo \o @.frames, "exit")]
        /\ UNCHANGED <<o, buffer>>
  /\ UNCHANGED out

\* The end a child will not use, and that of its grandparent
In(p) == IF p = 0 THEN <<>> ELSE <<self[p].in>>

\* Mutants of ForkStage: the child keeps the end it could write in; or that of its
\* grandparent; the parent closes only one end when the fork fails.
ForkStageWriter(p) == ForkClosing(p, In(p), <<ReadFd(p), self[p].out>>)
ForkStageReader(p) == ForkClosing(p, <<self[p].out>>, <<ReadFd(p), self[p].out>>)
ForkStageHalf(p) == ForkClosing(p, <<self[p].out>> \o In(p), <<ReadFd(p)>>)

\* The parent closes the end it will not use, the child the end it will not use and
\* the one its parent reads from.
ForkStage(p) == ForkClosing(p, <<self[p].out>> \o In(p), <<ReadFd(p), self[p].out>>)

\* write() without a reader ends the process
Killed(p) ==
  /\ o' = CloseAll(o, p)
  /\ self' = [self EXCEPT ![p] = [NoProc EXCEPT !.pc = "zombie", !.ret = -13]]
  /\ buffer' = [buffer EXCEPT ![p] = <<>>]

\* write(n), and then on to s
Send(p, n, s) ==
  \/ /\ CanWrite(o, p, self[p].out)
     /\ o' = Write(o, p, self[p].out, n)
     /\ self' = [self EXCEPT ![p] = s]
     /\ UNCHANGED buffer
  \/ Broken(o, p, self[p].out) /\ Killed(p)

\* handle_myself_as_absolute_parent: n is i - 2
Generate(p) ==
  /\ At(p, "generate")
  /\ IF self[p].n + 2 > MAX
     THEN /\ self' = [self EXCEPT ![p] = Closing(@, <<self[p].out>>, "wait")]
          /\ UNCHANGED <<o, buffer>>
     ELSE Send(p, self[p].n + 2, [self[p] EXCEPT !.n = @ + 1])
  /\ UNCHANGED <<out, failures>>

First(p) ==
  /\ At(p, "first")
  /\ \/ /\ CanRead(o, p, self[p].in)
        /\ self' = [self EXCEPT ![p].prime = Next1(o, p, self[p].in), ![p].pc = "print"]
        /\ o' = Read(o, p, self[p].in)
     \/ /\ AtEof(o, p, self[p].in)
        /\ self' = [self EXCEPT ![p] = Return(@, 0)]
        /\ UNCHANGED o
  /\ UNCHANGED <<buffer, out, failures>>

PrintPrime(p) ==
  /\ At(p, "print")
  /\ IF TTY THEN out' = Append(out, self[p].prime) /\ UNCHANGED buffer
     ELSE buffer' = [buffer EXCEPT ![p] = Append(@, self[p].prime)] /\ UNCHANGED out
  /\ self' = [self EXCEPT ![p].pc = "pipe"]
  /\ UNCHANGED <<o, failures>>

\* Mutant of Filter: it reads on before it has passed a number on.
FilterReadsOn(p) ==
  /\ At(p, "filter")
  /\ \/ /\ CanRead(o, p, self[p].in)
        /\ LET n == Next1(o, p, self[p].in)
           IN self' = [self EXCEPT ![p].n = IF n % self[p].prime # 0 THEN n ELSE 0]
        /\ o' = Read(o, p, self[p].in)
        /\ UNCHANGED buffer
     \/ self[p].n # 0 /\ Send(p, self[p].n, [self[p] EXCEPT !.n = 0])
     \/ /\ AtEof(o, p, self[p].in)
        /\ self' = [self EXCEPT ![p] = Closing(@, <<@.in, @.out>>, "wait")]
        /\ UNCHANGED <<o, buffer>>
  /\ UNCHANGED <<out, failures>>

\* handle_myself_as_relative_parent: n is 0 when it has nothing to pass on
Filter(p) ==
  /\ At(p, "filter")
  /\ \/ /\ self[p].n = 0 /\ CanRead(o, p, self[p].in)
        /\ LET n == Next1(o, p, self[p].in)
           IN self' = [self EXCEPT ![p].n = IF n % self[p].prime # 0 THEN n ELSE 0]
        /\ o' = Read(o, p, self[p].in)
        /\ UNCHANGED buffer
     \/ self[p].n # 0 /\ Send(p, self[p].n, [self[p] EXCEPT !.n = 0])
     \/ /\ self[p].n = 0 /\ AtEof(o, p, self[p].in)
        /\ self' = [self EXCEPT ![p] = Closing(@, <<@.in, @.out>>, "wait")]
        /\ UNCHANGED <<o, buffer>>
  /\ UNCHANGED <<out, failures>>

\* wait(NULL): a process has one child at most
Wait(p) ==
  /\ At(p, "wait") /\ self[p + 1].pc = "zombie"
  /\ self' = [self EXCEPT ![p + 1].pc = "gone", ![p] = Return(@, @.ret)]
  /\ UNCHANGED <<o, buffer, out, failures>>

\* Mutant of Exit: _exit(), which leaves what stdio holds.
ExitAtOnce(p) ==
  /\ At(p, "exit")
  /\ o' = CloseAll(o, p)
  /\ self' = [self EXCEPT ![p] = [NoProc EXCEPT !.pc = "zombie", !.ret = self[p].ret]]
  /\ UNCHANGED <<buffer, out, failures>>

\* main returns: exit() writes what stdio still holds, the kernel closes
Exit(p) ==
  /\ At(p, "exit")
  /\ out' = out \o buffer[p]
  /\ buffer' = [buffer EXCEPT ![p] = <<>>]
  /\ o' = CloseAll(o, p)
  /\ self' = [self EXCEPT ![p] = [NoProc EXCEPT !.pc = "zombie", !.ret = self[p].ret]]
  /\ UNCHANGED failures

Step(p) == \/ CloseOne(p) \/ MakePipe(p) \/ ForkStage(p) \/ Generate(p) \/ First(p)
           \/ PrintPrime(p) \/ Filter(p) \/ Wait(p) \/ Exit(p)

Next == \E p \in Proc : Step(p)

Spec == Init /\ [][Next]_vars /\ \A p \in Proc : WF_vars(Step(p))

-----------------------------------------------------------------------------
Primes == {n \in 2 .. MAX : \A d \in 2 .. n - 1 : n % d # 0}

Alive(p) == self[p].pc \notin {"none", "zombie", "gone"}

\* Type correctness; numbers are between 2 and MAX.
TypeOK ==
  /\ o.fds \in [Proc -> [FD -> Ends \cup {<<"tty">>, None}]]
  /\ \A k \in Pipe : o.data[k] \in Seq(2 .. MAX) /\ Len(o.data[k]) =< CAP
  /\ \A p \in Proc : self[p].n \in 0 .. MAX /\ self[p].in \in FD \cup {None}

\* The primes come out in order and each once, even when calls fail; without
\* failures all of them do before the first process ends (PrintPrime, Filter).
PrimesInOrder ==
  /\ \A i \in DOMAIN out :
       out[i] \in Primes /\ Cardinality({q \in Primes : q < out[i]}) = i - 1
  /\ failures = 0 /\ ~Alive(0) => Len(out) = Cardinality(Primes)

\* On a stdout that is no terminal each process prints what its ancestors had not
\* written when it was forked too (line 127): primes come out more than once, but
\* none is lost, and nothing else comes out.
NothingLost ==
  failures = 0 /\ (\A p \in Proc : ~Alive(p)) => {out[i] : i \in DOMAIN out} = Primes

\* A process holds its ends and no others, so that end of file and SIGPIPE reach
\* everybody who waits for them; the chain may be of any length (lines 136-152).
EndsAreNeighbours ==
  \A p \in Proc, k \in Pipe :
    /\ p \in Holders(o, WrEnd(k)) => p = k \/ (p = k + 1 /\ At(p, "close"))
    /\ p \in Holders(o, RdEnd(k)) => p = k + 1 \/ (p = k /\ self[p].pc \in {"fork", "close"})
                                     \/ (p = k + 2 /\ At(p, "close"))

\* Who returns from main has closed its pipes itself, on every path through the
\* failures too (the Makefile runs it under valgrind --track-fds=yes).
ClosesItsEnds ==
  \A p \in Proc : At(p, "exit") => \A f \in FD : o.fds[p][f] \in {<<"tty">>, None}
=============================================================================
