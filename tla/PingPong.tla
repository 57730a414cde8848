------------------------------ MODULE PingPong ------------------------------
(***************************************************************************)
(* Two processes and two pipes (lab-fork pingpong.c): the parent sends a   *)
(* number through the first and waits for it to come back through the      *)
(* second.  Calls may fail, and either process may be killed at any time.  *)
(***************************************************************************)
EXTENDS Pipes

CONSTANTS Message,    \* what rand() may return
          FAILURES    \* how many calls may fail or processes be killed

Parent == "parent"
Child == "child"

\* The numbers that pipe() gives when the standard descriptors are open
fds_1 == [r |-> 3, w |-> 4]
fds_2 == [r |-> 5, w |-> 6]
TTY == <<"tty">>

VARIABLES
  o,         \* descriptors and pipes (module Pipes)
  self,      \* each process: where it is, what it is closing and where it goes
             \* then, what it sent and received, its result
  failures

vars == <<o, self, failures>>

Start(pc) == [pc |-> pc, todo |-> <<>>, then |-> "exit", sent |-> None,
              msg |-> None, ret |-> 0]

Init ==
  /\ o = [fds |-> [p \in Proc |-> [f \in FD |-> IF p = Parent /\ f < 3 THEN TTY ELSE None]],
          data |-> [k \in Pipe |-> <<>>]]
  /\ self = [p \in Proc |-> Start(IF p = Parent THEN "pipe1" ELSE "none")]
  /\ failures = 0

At(p, pc) == self[p].pc = pc
Closing(s, fds, then) == [s EXCEPT !.pc = "close", !.todo = fds, !.then = then]
Error(s, fds) == Closing([s EXCEPT !.ret = -1], fds, "exit")

Fail == failures < FAILURES /\ failures' = failures + 1

\* A call that fails with what was opened before closed again
Fails(fds) == Fail /\ self' = [self EXCEPT ![Parent] = Error(@, fds)] /\ UNCHANGED o

CloseOne(p) ==
  /\ At(p, "close")
  /\ IF self[p].todo = <<>>
     THEN self' = [self EXCEPT ![p].pc = self[p].then] /\ UNCHANGED o
     ELSE /\ o' = Close(o, p, Head(self[p].todo))
          /\ self' = [self EXCEPT ![p].todo = Tail(@)]
  /\ UNCHANGED failures

MakePipe1 ==
  /\ At(Parent, "pipe1")
  /\ \/ /\ o' = PipeCall(o, Parent, 1)
        /\ self' = [self EXCEPT ![Parent].pc = "pipe2"]
        /\ UNCHANGED failures
     \/ Fails(<<>>)

MakePipe2 ==
  /\ At(Parent, "pipe2")
  /\ \/ /\ o' = PipeCall(o, Parent, 2)
        /\ self' = [self EXCEPT ![Parent].pc = "fork"]
        /\ UNCHANGED failures
     \/ Fails(<<fds_1.r, fds_1.w>>)

\* fork(): parent and child close what they do not use, and the parent what is in
\* undo when it fails
ForkClosing(parents, childs, undo) ==
  /\ At(Parent, "fork")
  /\ \/ /\ o' = Fork(o, Parent, Child)
        /\ self' = [p \in Proc |-> IF p = Parent THEN Closing(self[p], parents, "write")
                                  ELSE Closing(Start("close"), childs, "read")]
        /\ UNCHANGED failures
     \/ Fails(undo)

All == <<fds_1.r, fds_1.w, fds_2.r, fds_2.w>>

\* Mutants of MainFork: the parent keeps the end its child answers through; one
\* end is forgotten when fork fails.
MainForkKeep == ForkClosing(<<fds_1.r>>, <<fds_2.r, fds_1.w>>, All)
MainForkForget == ForkClosing(<<fds_1.r, fds_2.w>>, <<fds_2.r, fds_1.w>>, Tail(All))

MainFork == ForkClosing(<<fds_1.r, fds_2.w>>, <<fds_2.r, fds_1.w>>, All)

\* SIGPIPE, or kill(2)
Dies(p) ==
  /\ o' = CloseAll(o, p)
  /\ self' = [self EXCEPT ![p].pc = "zombie", ![p].ret = -9]

\* What each process reads from and writes in
From(p) == IF p = Parent THEN fds_2.r ELSE fds_1.r
To(p) == IF p = Parent THEN fds_1.w ELSE fds_2.w
Both(p) == IF p = Parent THEN <<fds_2.r, fds_1.w>> ELSE <<fds_1.r, fds_2.w>>

WriteMessage(p) ==
  /\ At(p, "write")
  /\ \/ \E m \in Message :
          /\ CanWrite(o, p, To(p)) /\ (p = Child => m = self[p].msg)
          /\ o' = Write(o, p, To(p), m)
          /\ self' = [self EXCEPT ![p] = IF p = Parent
                        THEN [@ EXCEPT !.pc = "read", !.sent = m]
                        ELSE Closing(@, Both(p), "exit")]
     \/ Broken(o, p, To(p)) /\ Dies(p)
  /\ UNCHANGED failures

\* Mutant of ReadMessage: the end of file is taken for a message.
ReadMessageAnyhow(p) ==
  /\ At(p, "read") /\ (CanRead(o, p, From(p)) \/ AtEof(o, p, From(p)))
  /\ self' = [self EXCEPT ![p] = IF p = Parent THEN Closing(@, Both(p), "wait")
                                 ELSE [@ EXCEPT !.pc = "write", !.msg = CHOOSE m \in Message : TRUE]]
  /\ UNCHANGED <<o, failures>>

ReadMessage(p) ==
  /\ At(p, "read")
  /\ \/ /\ CanRead(o, p, From(p))
        /\ o' = Read(o, p, From(p))
        /\ self' = [self EXCEPT ![p] = LET s == [@ EXCEPT !.msg = Next1(o, p, From(p))]
                      IN IF p = Parent THEN Closing(s, Both(p), "wait")
                         ELSE [s EXCEPT !.pc = "write"]]
     \/ /\ AtEof(o, p, From(p))
        /\ self' = [self EXCEPT ![p] = Error(@, Both(p))]
        /\ UNCHANGED o
  /\ UNCHANGED failures

Wait ==
  /\ At(Parent, "wait") /\ At(Child, "zombie")
  /\ self' = [self EXCEPT ![Parent].pc = "exit", ![Child].pc = "gone"]
  /\ UNCHANGED <<o, failures>>

Exit(p) ==
  /\ At(p, "exit")
  /\ o' = CloseAll(o, p)
  /\ self' = [self EXCEPT ![p].pc = "zombie"]
  /\ UNCHANGED failures

Alive(p) == self[p].pc \notin {"none", "zombie", "gone"}

Kill(p) == Alive(p) /\ Fail /\ Dies(p)

Step(p) == CloseOne(p) \/ WriteMessage(p) \/ ReadMessage(p) \/ Exit(p)
Main == MakePipe1 \/ MakePipe2 \/ MainFork \/ Wait

Next == Main \/ \E p \in Proc : Step(p) \/ Kill(p)

Spec == Init /\ [][Next]_vars /\ WF_vars(Main) /\ \A p \in Proc : WF_vars(Step(p))

-----------------------------------------------------------------------------
\* A parent that returns 0 has its own number back.
RoundTrip ==
  At(Parent, "exit") /\ self[Parent].ret = 0 =>
    self[Parent].sent # None /\ self[Parent].msg = self[Parent].sent

\* Who returns has closed its pipes itself (Makefile: valgrind --track-fds=yes).
ClosesItsEnds ==
  \A p \in Proc : At(p, "exit") => \A f \in FD : o.fds[p][f] \in {TTY, None}
=============================================================================
