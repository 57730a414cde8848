------------------------------- MODULE Pipes --------------------------------
(***************************************************************************)
(* Processes, descriptors and pipes, as POSIX promises them to the         *)
(* programs of lab-fork and lab-shell.  o is the system's state, a record  *)
(*   fds     the descriptors of each process: an end of a pipe, a file or  *)
(*           a terminal, or None                                           *)
(*   data    what each pipe holds                                          *)
(* and each call is an operator from states to states.  A call that may    *)
(* block is one that is not enabled.                                       *)
(***************************************************************************)
EXTENDS Integers, Sequences, FiniteSets

CONSTANTS Proc,     \* processes
          NFD,      \* how many descriptors a process may have
          Pipe,     \* pipes
          CAP,      \* how much a pipe holds
          None

ASSUME PipesAssumption == NFD \in Nat /\ CAP \in Nat \ {0}

FD == 0 .. NFD - 1

RdEnd(k) == <<"pipe", k, "r">>
WrEnd(k) == <<"pipe", k, "w">>
Ends == {<<"pipe", k, d>> : k \in Pipe, d \in {"r", "w"}}

NoFds == [f \in FD |-> None]

\* Who has an end open, in some descriptor
Holders(o, end) == {p \in Proc : \E f \in FD : o.fds[p][f] = end}

Unused(o, k) == Holders(o, RdEnd(k)) = {} /\ Holders(o, WrEnd(k)) = {}

Least(S) == CHOOSE x \in S : \A y \in S : x =< y
FreeFds(o, p) == {f \in FD : o.fds[p][f] = None}
FreeFd(o, p) == Least(FreeFds(o, p))
FreeFd2(o, p) == Least(FreeFds(o, p) \ {FreeFd(o, p)})

\* pipe(fds): k is a pipe that nobody uses
PipeCall(o, p, k) ==
  [o EXCEPT !.fds[p][FreeFd(o, p)] = RdEnd(k), !.fds[p][FreeFd2(o, p)] = WrEnd(k),
            !.data[k] = <<>>]

\* close of a descriptor that is not open returns EBADF and does nothing
Close(o, p, f) == [o EXCEPT !.fds[p][f] = None]
Dup2(o, p, f, g) == [o EXCEPT !.fds[p][g] = o.fds[p][f]]
Open(o, p, file) == [o EXCEPT !.fds[p][FreeFd(o, p)] = file]
Fork(o, p, c) == [o EXCEPT !.fds[c] = o.fds[p]]
CloseAll(o, p) == [o EXCEPT !.fds[p] = NoFds]

PipeOf(o, p, f) == o.fds[p][f][2]

\* read and write of one item by p through its descriptor f.  Reading an empty
\* pipe that nobody can write any more tells the end of file, writing in one that
\* nobody can read kills with SIGPIPE.
CanRead(o, p, f) == o.data[PipeOf(o, p, f)] # <<>>
AtEof(o, p, f) == ~CanRead(o, p, f) /\ Holders(o, WrEnd(PipeOf(o, p, f))) = {}
Next1(o, p, f) == Head(o.data[PipeOf(o, p, f)])
Read(o, p, f) == [o EXCEPT !.data[PipeOf(o, p, f)] = Tail(@)]

Broken(o, p, f) == Holders(o, RdEnd(PipeOf(o, p, f))) = {}
CanWrite(o, p, f) == ~Broken(o, p, f) /\ Len(o.data[PipeOf(o, p, f)]) < CAP
Write(o, p, f, x) == [o EXCEPT !.data[PipeOf(o, p, f)] = Append(@, x)]
=============================================================================
