----------------------------- MODULE LabForkMC ------------------------------
(***************************************************************************)
(* The four programs of lab-fork for TLC.  A behaviour is one of them, as  *)
(* "program" says, on the variables that are its own; the others rest.     *)
(***************************************************************************)
EXTENDS Xargs

VARIABLES
  program,
  o, procs, buffer, out,                                 \* primes, pingpong
  parent, dirs, exist, changed, frames, fds, ret, leaked \* find

\* The primes up to 11 on a terminal, with pipes of one number; the same into a
\* file; up to 8 lines in commands of 3; trees of 4 names that change twice.
Screen == INSTANCE Sieve WITH
  self <- procs, Proc <- 0 .. 6, Pipe <- 0 .. 6, NFD <- 12, CAP <- 1, MAX <- 11, TTY <- TRUE,
  FAILURES <- 1
File == INSTANCE Sieve WITH
  self <- procs, Proc <- 0 .. 6, Pipe <- 0 .. 6, NFD <- 12, CAP <- 1, MAX <- 11, TTY <- FALSE,
  FAILURES <- 1
PingPong == INSTANCE PingPong WITH
  self <- procs, Proc <- {"parent", "child"}, Pipe <- {1, 2}, NFD <- 7, CAP <- 1,
  Message <- {5, 7}, FAILURES <- 2
Find == INSTANCE Find WITH N <- 4, Matching <- {2, 3, 4}, CHANGES <- 2, FAILURES <- 1

MCLengths == 0 .. 8

lines == <<length, pos, self, ran, badFree>>
tree == <<parent, dirs, exist, changed, frames, fds, ret, leaked>>

NoLines ==
  /\ length = 0 /\ pos = 0 /\ ran = <<>> /\ badFree = FALSE
  /\ self = [p \in Proc |-> Start("none")]

MCInit ==
  /\ program \in {"screen", "file", "pingpong", "xargs", "find"}
  /\ \/ program = "screen" /\ Screen!Init
     \/ program = "file" /\ File!Init
     \/ program = "pingpong" /\ PingPong!Init /\ buffer = None /\ out = None
     \/ program = "xargs" /\ Init /\ o = None /\ buffer = None /\ out = None /\ procs = None
     \/ program = "find" /\ Find!Init /\ o = None /\ buffer = None /\ procs = None
  /\ program = "xargs" \/ NoLines
  /\ program = "find" \/ (/\ parent = None /\ dirs = None /\ exist = None /\ changed = None
                          /\ frames = None /\ fds = None /\ ret = None /\ leaked = None)

MCNext ==
  \/ program = "screen" /\ Screen!Next /\ UNCHANGED <<program, lines, tree>>
  \/ program = "file" /\ File!Next /\ UNCHANGED <<program, lines, tree>>
  \/ program = "pingpong" /\ PingPong!Next /\ UNCHANGED <<program, buffer, out, lines, tree>>
  \/ program = "xargs" /\ Next /\ UNCHANGED <<program, o, procs, buffer, out, tree>>
  \/ program = "find" /\ Find!Next /\ UNCHANGED <<program, o, procs, buffer, lines>>

\* Each process of the program goes on when it can
Fairness ==
  /\ \A p \in 0 .. 6 : WF_(Screen!vars)(program = "screen" /\ Screen!Step(p))
  /\ \A p \in 0 .. 6 : WF_(File!vars)(program = "file" /\ File!Step(p))
  /\ WF_(PingPong!vars)(program = "pingpong" /\ PingPong!Main)
  /\ \A p \in {"parent", "child"} : WF_(PingPong!vars)(program = "pingpong" /\ PingPong!Step(p))
  /\ WF_vars(program = "xargs" /\ Next)
  /\ WF_(Find!vars)(program = "find" /\ Find!Walk)

MCSpec == MCInit /\ [][MCNext]_<<program, o, procs, failures, buffer, out, lines, tree>> /\ Fairness

-----------------------------------------------------------------------------
\* primes: the numbers are the primes, in order and each once on a terminal, and
\* none is lost in a file, where fork has copied what stdio had not written.
\* pingpong: a parent that returns 0 has its own number back.
NumbersGetThrough ==
  /\ program = "screen" => Screen!TypeOK /\ Screen!PrimesInOrder
  /\ program = "file" => File!NothingLost
  /\ program = "pingpong" => PingPong!RoundTrip

\* find: what matches and was there all the time is found, once and by its path.
SearchIsRight == program = "find" => Find!SearchIsRight

\* No process keeps an end of a pipe that another waits on, and whoever returns from
\* main has closed all it opened, on the paths of the failures too (Makefile:
\* valgrind --track-fds=yes); find holds one descriptor per level.
DescriptorsClosed ==
  /\ program = "screen" => Screen!EndsAreNeighbours /\ Screen!ClosesItsEnds
  /\ program = "file" => File!EndsAreNeighbours /\ File!ClosesItsEnds
  /\ program = "pingpong" => PingPong!ClosesItsEnds
  /\ program = "find" => Find!OneDescriptorPerLevel

\* Every process ends, whatever fails, whoever is killed and whatever becomes of
\* the tree: nobody waits for a pipe that nobody will close.
Alive ==
  CASE program = "screen" -> \E p \in 0 .. 6 : Screen!Alive(p)
    [] program = "file" -> \E p \in 0 .. 6 : File!Alive(p)
    [] program = "pingpong" -> \E p \in {"parent", "child"} : PingPong!Alive(p)
    [] program = "xargs" -> ~At("xargs", "zombie")
    [] program = "find" -> ~Find!Done
AllEnd == <>[]~Alive
=============================================================================
